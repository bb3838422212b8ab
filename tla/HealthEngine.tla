------------------------------ MODULE HealthEngine ------------------------------
(***************************************************************************)
(* The health engine: src/src/engines/health/health.service.ts over        *)
(* src/src/repositories/circuit-breaker-repository.ts, behind the routes   *)
(* of src/src/engines/health/routes.ts.                                    *)
(*                                                                         *)
(* Clients post health reports; a timer moves open breakers to half-open.  *)
(* Each request handler and each timer callback runs to completion without *)
(* an await, so each is one action.  Latencies, lastCheck and lastError    *)
(* are stored for display and read by no decision: they are left out.      *)
(*                                                                         *)
(* A provider that is not known has no record; its entries below then hold *)
(* the values a fresh record is created with (lines 56-63).                *)
(***************************************************************************)
EXTENDS Integers, FiniteSets, Sequences

CONSTANTS
  Provider,            \* the provider names that clients report on
  UnhealthyThreshold,  \* healthConfig.unhealthyThreshold
  HealthyThreshold,    \* healthConfig.healthyThreshold
  Cooldown,            \* healthConfig.cooldownPeriod, in clock units
  CheckEvery,          \* period of the transition checker, in clock units
  MaxTime,             \* bound on the clock
  MaxReports           \* bound on the reports about one provider

(* The schema in src/src/config/schemas/health.schema.ts requires positive  *)
(* integers.                                                                *)
ASSUME HealthConfigAssumption ==
  /\ UnhealthyThreshold \in Nat \ {0}
  /\ HealthyThreshold \in Nat \ {0}
  /\ Cooldown \in Nat \ {0}
  /\ CheckEvery \in Nat \ {0}
ASSUME HealthBoundAssumption == MaxTime \in Nat \ {0} /\ MaxReports \in Nat

VARIABLES
  known,      \* keys of providerRepo
  status,     \* record.status
  successes,  \* record.successes
  failures,   \* record.failures
  breaker,    \* circuitBreakerRepo: state, or "none" when there is no entry
  openedAt,   \* circuitBreakerRepo: openedAt, 0 when undefined
  now,        \* Date.now(), counted from 1
  nextCheck,  \* when the transition checker is due
  history     \* history: the reports received since the record was created

records == <<known, status, successes, failures>>
breakers == <<breaker, openedAt>>
clock == <<now, nextCheck>>
vars == <<records, breakers, clock, history>>

Statuses == {"unknown", "healthy", "degraded", "unhealthy"}
BreakerStates == {"none", "closed", "open", "half-open"}

Init ==
  /\ known = {}
  /\ status = [p \in Provider |-> "unknown"]
  /\ successes = [p \in Provider |-> 0]
  /\ failures = [p \in Provider |-> 0]
  /\ breaker = [p \in Provider |-> "none"]
  /\ openedAt = [p \in Provider |-> 0]
  /\ now = 1
  /\ nextCheck = 1 + CheckEvery
  /\ history = [p \in Provider |-> <<>>]

-----------------------------------------------------------------------------
(* circuitBreakerRepo.transitionTo(): an opening is stamped with the time,  *)
(* anything else keeps the old stamp.                                       *)
TransitionTo(p, s) ==
  /\ breaker' = [breaker EXCEPT ![p] = s]
  /\ openedAt' = IF s = "open" THEN [openedAt EXCEPT ![p] = now] ELSE openedAt

(* Faulty variant: a success does not clear the failures.                   *)
ReportUpKeepingFailures(p) ==
  /\ successes' = [successes EXCEPT ![p] = @ + 1]
  /\ UNCHANGED failures
  /\ IF successes'[p] >= HealthyThreshold
     THEN status' = [status EXCEPT ![p] = "healthy"] /\ TransitionTo(p, "closed")
     ELSE UNCHANGED <<status, breakers>>

(* reportHealth(), lines 66-72: the provider answered.                      *)
ReportUp(p) ==
  /\ successes' = [successes EXCEPT ![p] = @ + 1]
  /\ failures' = [failures EXCEPT ![p] = 0]
  /\ \/ /\ successes'[p] >= HealthyThreshold
        /\ status' = [status EXCEPT ![p] = "healthy"]
        /\ TransitionTo(p, "closed")
     \/ /\ successes'[p] < HealthyThreshold
        /\ UNCHANGED <<status, breakers>>

(* Faulty variant: the breaker opens one failure after the status changes.  *)
ReportDownOpeningLate(p) ==
  /\ failures' = [failures EXCEPT ![p] = @ + 1]
  /\ UNCHANGED successes
  /\ status' = [status EXCEPT ![p] =
                  IF failures'[p] >= UnhealthyThreshold THEN "unhealthy" ELSE "degraded"]
  /\ IF failures'[p] > UnhealthyThreshold THEN TransitionTo(p, "open") ELSE UNCHANGED breakers

(* reportHealth(), lines 73-81: it did not.  The successes counted so far   *)
(* are kept.                                                                *)
ReportDown(p) ==
  /\ failures' = [failures EXCEPT ![p] = @ + 1]
  /\ UNCHANGED successes
  /\ \/ /\ failures'[p] >= UnhealthyThreshold
        /\ status' = [status EXCEPT ![p] = "unhealthy"]
        /\ TransitionTo(p, "open")
     \/ /\ failures'[p] < UnhealthyThreshold
        /\ status' = [status EXCEPT ![p] = "degraded"]
        /\ UNCHANGED breakers

(* POST /health/report.                                                     *)
Report(p, answer) ==
  /\ Len(history[p]) < MaxReports
  /\ known' = known \cup {p}
  /\ history' = [history EXCEPT ![p] = Append(@, answer)]
  /\ CASE answer = "up"   -> ReportUp(p)
       [] answer = "down" -> ReportDown(p)
  /\ UNCHANGED clock

(* POST /health/reset, for one provider or for all of them.                 *)
Reset(P) ==
  /\ known' = known \ P
  /\ status' = [p \in Provider |-> IF p \in P THEN "unknown" ELSE status[p]]
  /\ successes' = [p \in Provider |-> IF p \in P THEN 0 ELSE successes[p]]
  /\ failures' = [p \in Provider |-> IF p \in P THEN 0 ELSE failures[p]]
  /\ breaker' = [p \in Provider |-> IF p \in P THEN "none" ELSE breaker[p]]
  /\ openedAt' = [p \in Provider |-> IF p \in P THEN 0 ELSE openedAt[p]]
  /\ history' = [p \in Provider |-> IF p \in P THEN <<>> ELSE history[p]]
  /\ UNCHANGED clock

(* Faulty variant: the checker waits one more period.                       *)
CooledLate ==
  {p \in Provider : breaker[p] = "open" /\ now - openedAt[p] > Cooldown + CheckEvery}

(* The open breakers whose cooldown is over (advanceHalfOpen, line 49).     *)
Cooled ==
  {p \in Provider : breaker[p] = "open" /\ openedAt[p] # 0 /\ now - openedAt[p] > Cooldown}

(* The setInterval callback of startTransitionChecker().                    *)
CheckTransitions ==
  /\ now = nextCheck
  /\ nextCheck' = nextCheck + CheckEvery
  /\ breaker' = [p \in Provider |-> IF p \in Cooled THEN "half-open" ELSE breaker[p]]
  /\ UNCHANGED <<records, openedAt, now, history>>

(* Time passes.  The timer is taken to fire on time: the clock does not     *)
(* pass a check that is due.                                                *)
Tick ==
  /\ now < nextCheck
  /\ now < MaxTime
  /\ now' = now + 1
  /\ UNCHANGED <<records, breakers, nextCheck, history>>

Next ==
  \/ \E p \in Provider, answer \in {"up", "down"} : Report(p, answer)
  \/ \E p \in Provider : Reset({p})
  \/ Reset(Provider)
  \/ CheckTransitions
  \/ Tick

Spec == Init /\ [][Next]_vars

-----------------------------------------------------------------------------
TypeOK ==
  /\ known \subseteq Provider
  /\ status \in [Provider -> Statuses]
  /\ successes \in [Provider -> Nat]
  /\ failures \in [Provider -> Nat]
  /\ breaker \in [Provider -> BreakerStates]
  /\ openedAt \in [Provider -> 0..now]
  /\ now \in 1..MaxTime /\ nextCheck \in now..now + CheckEvery
  /\ history \in [Provider -> Seq({"up", "down"})]

(* GET /health and GET /health/circuit-breakers never contradict each       *)
(* other: a provider reported healthy has a closed breaker, an unhealthy    *)
(* one does not, and a reset leaves neither record nor breaker.             *)
StatusAgreesWithBreaker ==
  \A p \in Provider :
    /\ status[p] = "healthy" => breaker[p] = "closed"
    /\ status[p] = "unhealthy" => breaker[p] \in {"open", "half-open"}
    /\ breaker[p] = "closed" => status[p] \in {"healthy", "degraded"}
    /\ p \notin known => breaker[p] = "none" /\ status[p] = "unknown"

(* An open breaker is probed in time: no breaker stays open for longer than *)
(* the cooldown and one period of the checker after its last opening.       *)
ProbedInTime ==
  \A p \in Provider :
    breaker[p] = "open" => now - openedAt[p] <= Cooldown + CheckEvery

(* A breaker is half-open only after its full cooldown, although failures   *)
(* and successes keep arriving while it is open.                            *)
NotProbedEarly ==
  \A p \in Provider : breaker[p] = "half-open" => now - openedAt[p] > Cooldown

(* An open breaker is probed neither early nor late.                        *)
ProbedOnTime == ProbedInTime /\ NotProbedEarly

(* What the reports received so far should have done to the breaker: it is  *)
(* tripped when some UnhealthyThreshold consecutive reports were all        *)
(* failures and no success since then was at least the HealthyThreshold-th. *)
Successes(h, n) == Cardinality({i \in 1..n : h[i] = "up"})
Tripped(h) ==
  \E n \in UnhealthyThreshold..Len(h) :
    /\ \A i \in n - UnhealthyThreshold + 1..n : h[i] = "down"
    /\ \A m \in n + 1..Len(h) : h[m] = "up" => Successes(h, m) < HealthyThreshold

(* The breaker trips and closes on exactly those reports, whatever counters *)
(* the service keeps and wherever checks and resets fall between them.      *)
BreakerFollowsReports ==
  \A p \in Provider :
    breaker[p] \in {"open", "half-open"} <=> Tripped(history[p])

(* A breaker that opens does so on a report, and one that becomes half-open *)
(* was open: the checker never revives a closed or forgotten breaker.       *)
BreakerSteps ==
  [][\A p \in Provider :
       /\ breaker'[p] = "half-open" /\ breaker[p] # "half-open" => breaker[p] = "open"
       /\ breaker'[p] = "open" /\ breaker[p] # "open" => history'[p] # history[p]]_vars

=============================================================================
