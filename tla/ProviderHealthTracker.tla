------------------------- MODULE ProviderHealthTracker -------------------------
(***************************************************************************)
(* src/src/services/provider-health-tracker.ts: per-provider counters and  *)
(* the health score computed from them, which decides where requests go.   *)
(* Every method is synchronous and an operator here, from which the        *)
(* routing engine and the gateway pipeline, each a process with a tracker  *)
(* of its own, build their actions.                                        *)
(*                                                                         *)
(* New records are made by spreading DEFAULT_HEALTH_RECORD (line 55), a    *)
(* shallow copy: every record holds the same two arrays, latencies and     *)
(* recentFailures.  They are therefore one variable each.  Only the length *)
(* of recentFailures is ever read.  reset(), which nothing calls, would    *)
(* clear the map and leave the arrays.                                     *)
(***************************************************************************)
EXTENDS Integers, Sequences, Functions

CONSTANTS
  Provider,
  Latency,        \* latencies that occur, in the unit of LatencyCap
  LatencyCap,     \* the latency that scores zero (10 s, line 129)
  LatencyWindow,  \* samples kept (100, line 74)
  RecentWindow,   \* failures kept (50, line 92)
  RecentCap,      \* failures that cost the whole recent share (20, line 132)
  StreakCap       \* consecutive failures that do the same (10, line 135)

ASSUME TrackerAssumption ==
  /\ Latency \subseteq Nat
  /\ {LatencyCap, LatencyWindow, RecentWindow, RecentCap, StreakCap} \subseteq Nat \ {0}

VARIABLES
  tracked,         \* keys of the map of records
  record,          \* the records; a provider not tracked has a fresh one
  latencies,       \* the array all records share
  recentFailures   \* length of the other array they share

trackerVars == <<tracked, record, latencies, recentFailures>>

(* avgLatency is the quotient of a sum and a count.                         *)
Fresh == [total |-> 0, successes |-> 0, failures |-> 0, streak |-> 0,
          avg |-> <<0, 1>>, authDisabled |-> FALSE]

TrackerInit ==
  /\ tracked = {}
  /\ record = [p \in Provider |-> Fresh]
  /\ latencies = <<>>
  /\ recentFailures = 0

AtMost(x, y) == IF x < y THEN x ELSE y

(* push() and, when the window is full, shift().                            *)
Pushed(s, x, window) ==
  IF Len(s) = window THEN Tail(Append(s, x)) ELSE Append(s, x)

-----------------------------------------------------------------------------
(* recordSuccess().                                                         *)
RecordSuccess(p, latency) ==
  /\ tracked' = tracked \cup {p}
  /\ latencies' = Pushed(latencies, latency, LatencyWindow)
  /\ record' = [record EXCEPT
       ![p].total = @ + 1,
       ![p].successes = @ + 1,
       ![p].streak = 0,
       ![p].avg = <<SumFunction(latencies'), Len(latencies')>>]
  /\ UNCHANGED recentFailures

(* Faulty variant: the window of failures is emptied when it is full.       *)
FailedEmptyingWindow(p, auth) ==
  /\ recentFailures' = (recentFailures + 1) % RecentWindow
  /\ record' = [record EXCEPT
       ![p].total = @ + 1,
       ![p].failures = @ + 1,
       ![p].streak = @ + 1,
       ![p].authDisabled = @ \/ auth]
  /\ UNCHANGED latencies

(* What recordFailure() does to the records: auth says whether _classify()  *)
(* returns 'auth_failure', which statuses 401 and 403 do.                   *)
Failed(p, auth) ==
  /\ recentFailures' = AtMost(recentFailures + 1, RecentWindow)
  /\ record' = [record EXCEPT
       ![p].total = @ + 1,
       ![p].failures = @ + 1,
       ![p].streak = @ + 1,
       ![p].authDisabled = @ \/ auth]
  /\ UNCHANGED latencies

(* recordFailure().                                                         *)
RecordFailure(p, auth) ==
  /\ tracked' = tracked \cup {p}
  /\ Failed(p, auth)

(* reenable(): nothing happens to a provider without a record.              *)
Reenable(p) ==
  /\ record' = [record EXCEPT ![p].streak = 0, ![p].authDisabled = FALSE]
  /\ UNCHANGED <<tracked, latencies, recentFailures>>

(* getScore() calls getOrCreate(): asking for a score starts tracking.      *)
Consult(P) ==
  /\ tracked' = tracked \cup P
  /\ UNCHANGED <<record, latencies, recentFailures>>

-----------------------------------------------------------------------------
(* Faulty variant: the penalties are not capped.                            *)
HealthScoreUncapped(p) ==
  LET rec == record[p]
      t == IF rec.total = 0 THEN 1 ELSE rec.total
      a == rec.avg[2] * LatencyCap
      d == t * a * RecentCap * StreakCap
      n ==   80 * rec.successes * a * RecentCap * StreakCap
           + 50 * (a - rec.avg[1]) * t * RecentCap * StreakCap
           + 40 * (RecentCap - recentFailures) * t * a * StreakCap
           + 30 * (StreakCap - rec.streak) * t * a * RecentCap
  IN  IF rec.authDisabled THEN 0 ELSE (n + d) \div (2 * d)

(* getScore().healthScore in hundredths: the weighted sum of success rate   *)
(* (40), latency (25), recent failures (20) and streak (15), rounded half   *)
(* up.  n / d is twice the sum.  Floating-point error is left out.          *)
HealthScore(p) ==
  LET rec == record[p]
      t == IF rec.total = 0 THEN 1 ELSE rec.total
      a == rec.avg[2] * LatencyCap
      d == t * a * RecentCap * StreakCap
      n ==   80 * rec.successes * a * RecentCap * StreakCap
           + 50 * (a - AtMost(rec.avg[1], a)) * t * RecentCap * StreakCap
           + 40 * (RecentCap - AtMost(recentFailures, RecentCap)) * t * a * StreakCap
           + 30 * (StreakCap - AtMost(rec.streak, StreakCap)) * t * a * RecentCap
  IN  IF rec.authDisabled THEN 0 ELSE (n + d) \div (2 * d)

(* What ProviderHealthStage (line 27) accepts: a score of at least 0.3.     *)
Healthy(p) == ~record[p].authDisabled /\ HealthScore(p) >= 30

-----------------------------------------------------------------------------
Records == [total : Nat, successes : Nat, failures : Nat, streak : Nat,
            avg : Nat \X (Nat \ {0}), authDisabled : BOOLEAN]

(* Types, and the relations between the counters: every request is a        *)
(* success or a failure, a streak consists of failures that are counted     *)
(* among the failures and among the recent ones, and only a tracked         *)
(* provider has counts.  The weights and caps of getScore() keep the score  *)
(* between 0.0 and 1.0 without the clamp of line 152.                       *)
TrackerTypeOK ==
  /\ tracked \subseteq Provider
  /\ record \in [Provider -> Records]
  /\ latencies \in Seq(Latency) /\ Len(latencies) <= LatencyWindow
  /\ recentFailures \in 0..RecentWindow
  /\ \A p \in Provider :
       /\ record[p].total = record[p].successes + record[p].failures
       /\ record[p].streak <= record[p].failures
       /\ AtMost(record[p].streak, RecentWindow) <= recentFailures
       /\ p \notin tracked => record[p] = Fresh
       /\ HealthScore(p) \in 0..100

(* A provider that is not failing now is given another chance: however many *)
(* failures lie behind it, and however many other providers had, it stays   *)
(* above the threshold of ProviderHealthStage while it answers within 4 s.  *)
RecoveredIsEligible ==
  \A p \in Provider :
    /\ record[p].streak = 0
    /\ ~record[p].authDisabled
    /\ 10 * record[p].avg[1] <= 4 * record[p].avg[2] * LatencyCap
    => Healthy(p)

(* Recording a failure never raises the score of the provider that failed,  *)
(* and recording a success never lowers it, unless the average latency      *)
(* rises.                                                                   *)
ScoreFollowsOutcomes ==
  [][\A p \in Provider :
       /\ record'[p].failures > record[p].failures
            => HealthScore(p)' <= HealthScore(p)
       /\ /\ record'[p].successes > record[p].successes
          /\ record'[p].avg[1] * record[p].avg[2] <= record[p].avg[1] * record'[p].avg[2]
          => HealthScore(p)' >= HealthScore(p)]_trackerVars

=============================================================================
