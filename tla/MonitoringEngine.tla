--------------------------- MODULE MonitoringEngine ---------------------------
(***************************************************************************)
(* The monitoring engine: MonitoringService, which counts the reported     *)
(* requests of each provider in memory and writes the counts to the table  *)
(* metrics_snapshots once a period, and MonitoringDatabase, from whose     *)
(* latest rows the dashboard is served.                                    *)
(*                                                                         *)
(* Every method is synchronous.  An insert that fails throws in a timer    *)
(* callback, which ends the process, as does anything that kills it; the   *)
(* counts in memory are then gone and the rows stay.  The pipeline has a   *)
(* service of its own on the same database, started with no providers,     *)
(* which therefore never writes a row.  Latencies, tokens and costs are    *)
(* counted like the errors and left out, and so is the health score: no    *)
(* outcome is recorded with the tracker of this process, whose records     *)
(* stay fresh.                                                             *)
(***************************************************************************)
EXTENDS Integers, SequencesExt

CONSTANTS
  Provider,
  Lists,        \* the provider lists that are posted, as sequences
  Interval,     \* snapshotIntervalMs, in ticks
  MaxReports,   \* bound of the reports
  MaxChanges,   \* bound of the posted lists and the restarts
  MaxTime       \* bound of the clock

ASSUME MonitoringAssumption ==
  /\ Lists \subseteq Seq(Provider) /\ Lists # {}
  /\ Interval \in Nat \ {0}
  /\ {MaxReports, MaxChanges, MaxTime} \subseteq Nat

VARIABLES
  providerList,   \* this.providerList
  windowCounts,   \* this.windowCounts; a provider without an entry has zeros
  nextSnapshot,   \* when the timer is due
  rows,           \* metrics_snapshots, in order of the ids
  now,
  listedSince,    \* history: since when a provider has been on the list
  reported,       \* history: the reports about a provider
  lost,           \* history: those that were in memory when the process ended
  changes         \* history: posted lists and restarts

service == <<providerList, windowCounts, nextSnapshot>>
history == <<listedSince, reported, lost, changes>>
vars == <<service, rows, now, history>>

Zero == [success |-> 0, error |-> 0, count429 |-> 0]
Row(p, counts) == [provider |-> p, time |-> now, counts |-> counts]

Plus(a, b) == [f \in DOMAIN a |-> a[f] + b[f]]
Written(p) ==
  FoldLeft(LAMBDA sum, row : IF row.provider = p THEN Plus(sum, row.counts) ELSE sum, Zero, rows)

Requests == FoldFunction(LAMBDA c, n : c.success + c.error + n, 0, reported)

-----------------------------------------------------------------------------
(* The counts are reset when they have been written.                        *)
WindowAfter(counts, p) == [counts EXCEPT ![p] = Zero]

(* Faulty variant: a provider without reports is passed over.               *)
SnapshottedBusy(list, n, counts) ==
  FoldLeft(LAMBDA s, p : IF s.counts[p] = Zero THEN s
                         ELSE [rows   |-> Append(s.rows, Row(p, s.counts[p])),
                               counts |-> WindowAfter(s.counts, p)],
           [rows |-> rows, counts |-> counts], SubSeq(list, 1, n))

(* The loop of _snapshot() over the first n providers of the list: a        *)
(* provider that is on it twice has its counts in its first row.            *)
Snapshotted(list, n, counts) ==
  FoldLeft(LAMBDA s, p : [rows   |-> Append(s.rows, Row(p, s.counts[p])),
                          counts |-> WindowAfter(s.counts, p)],
           [rows |-> rows, counts |-> counts], SubSeq(list, 1, n))

(* start(): an initial snapshot, of zeros, and the timer.                   *)
Started(list) ==
  /\ providerList' = list
  /\ windowCounts' = [p \in Provider |-> Zero]
  /\ nextSnapshot' = now + Interval
  /\ listedSince' = [p \in Provider |-> now]

Init ==
  /\ \E list \in Lists :
       /\ providerList = list
       /\ rows = [i \in DOMAIN list |-> [provider |-> list[i], time |-> 0, counts |-> Zero]]
  /\ windowCounts = [p \in Provider |-> Zero]
  /\ nextSnapshot = Interval
  /\ now = 0
  /\ listedSince = [p \in Provider |-> 0]
  /\ reported = [p \in Provider |-> Zero]
  /\ lost = [p \in Provider |-> Zero]
  /\ changes = 0

(* What a report adds: 429 is counted among the errors and by itself.       *)
Outcomes == {[success |-> 1, error |-> 0, count429 |-> 0],
             [success |-> 0, error |-> 1, count429 |-> 0],
             [success |-> 0, error |-> 1, count429 |-> 1]}

(* POST /report, also about providers that are not on the list.  The report *)
(* is counted, and then the statement of updateDailyStats() fails, which    *)
(* has more parameters bound to it than it has places: daily_stats stays    *)
(* empty and the answer is a 500, whatever was reported.                    *)
Report(p, outcome) ==
  /\ Requests < MaxReports
  /\ windowCounts' = [windowCounts EXCEPT ![p] = Plus(@, outcome)]
  /\ reported' = [reported EXCEPT ![p] = Plus(@, outcome)]
  /\ UNCHANGED <<providerList, nextSnapshot, rows, now, listedSince, lost, changes>>

(* Faulty variant: a new list starts new counts.                            *)
RefreshAnew(list) ==
  /\ changes < MaxChanges /\ changes' = changes + 1
  /\ providerList' = list
  /\ windowCounts' = [p \in Provider |-> IF p \in ToSet(list) THEN Zero ELSE windowCounts[p]]
  /\ listedSince' = [p \in Provider |->
       IF p \in ToSet(providerList) \/ p \notin ToSet(list) THEN listedSince[p] ELSE now]
  /\ UNCHANGED <<nextSnapshot, rows, now, reported, lost>>

(* POST /providers, refreshProviderList(): the counts of a provider that is *)
(* taken off the list wait until it is on it again.                         *)
Refresh(list) ==
  /\ changes < MaxChanges /\ changes' = changes + 1
  /\ providerList' = list
  /\ listedSince' = [p \in Provider |->
       IF p \in ToSet(providerList) \/ p \notin ToSet(list) THEN listedSince[p] ELSE now]
  /\ UNCHANGED <<windowCounts, nextSnapshot, rows, now, reported, lost>>

(* The timer.                                                               *)
Snapshot ==
  /\ now = nextSnapshot
  /\ nextSnapshot' = now + Interval
  /\ LET s == Snapshotted(providerList, Len(providerList), windowCounts)
     IN  rows' = s.rows /\ windowCounts' = s.counts
  /\ UNCHANGED <<providerList, now, history>>

(* The process ends, within a snapshot after n of its inserts or, with      *)
(* n = 0, at any moment, and starts again with the providers of the file.   *)
(* The server never calls stop(), which would write the counts first.       *)
EndAndRestart(n, list) ==
  /\ changes < MaxChanges /\ changes' = changes + 1
  /\ n <= Len(providerList) /\ (n > 0 => now = nextSnapshot)
  /\ LET s == Snapshotted(providerList, n, windowCounts)
         fresh == [p \in Provider |-> Zero]
     IN  /\ lost' = [p \in Provider |-> Plus(lost[p], s.counts[p])]
         /\ rows' = s.rows \o [i \in DOMAIN list |-> Row(list[i], Zero)]
  /\ Started(list)
  /\ UNCHANGED <<now, reported>>

Tick ==
  /\ now < nextSnapshot /\ now < MaxTime
  /\ now' = now + 1
  /\ UNCHANGED <<service, rows, history>>

Next ==
  \/ \E p \in Provider, outcome \in Outcomes : Report(p, outcome)
  \/ \E list \in Lists : Refresh(list) \/ \E n \in 0..Len(providerList) : EndAndRestart(n, list)
  \/ Snapshot
  \/ Tick

Spec == Init /\ [][Next]_vars

-----------------------------------------------------------------------------
(* getAllLatestSnapshots(): the rows, by their ids, that have the latest    *)
(* timestamp of their provider.                                             *)
Latest == {i \in DOMAIN rows :
             \A j \in DOMAIN rows : rows[j].provider = rows[i].provider => rows[j].time <= rows[i].time}

(* Every report is in exactly one place: written in a row, waiting in       *)
(* memory, or gone with a process that ended.  Neither a list that is       *)
(* posted nor a provider that is on it twice, nor an insert that fails in   *)
(* the middle of a snapshot counts one twice or drops one.                  *)
ReportsConserved ==
  \A p \in Provider : Plus(Plus(Written(p), windowCounts[p]), lost[p]) = reported[p]

(* The dashboard shows each provider that has been on the list for longer   *)
(* than an interval, and by a row that is not older than one, although the  *)
(* list, the timer and the end of the process come in any order.            *)
StatusIsFresh ==
  \A p \in ToSet(providerList) :
    now - listedSince[p] > Interval =>
      \E i \in Latest : rows[i].provider = p /\ now - rows[i].time <= Interval
=============================================================================
