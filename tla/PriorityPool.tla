------------------------------ MODULE PriorityPool ------------------------------
(***************************************************************************)
(* What the request scheduler promises, without queue, counters or timers: *)
(* a fixed number of slots; an arriving task waits only if all slots are   *)
(* held; a released slot goes at once to the best waiting task, by         *)
(* priority and then by arrival.                                           *)
(***************************************************************************)
EXTENDS Integers, FiniteSets

CONSTANTS Task, Priority, Slots

VARIABLES
  status,   \* "idle", "waiting", "holding" or "gone"
  arrival,  \* the number the task drew when it arrived
  arrivals  \* how many numbers have been drawn

poolVars == <<status, arrival, arrivals>>

With(st, s) == {t \in Task : st[t] = s}

Outranks(arr, t, u) ==
  \/ Priority[t] > Priority[u]
  \/ Priority[t] = Priority[u] /\ arr[t] < arr[u]

(* The waiting tasks that nobody waiting outranks.                          *)
Best(st, arr) ==
  {t \in With(st, "waiting") :
     \A u \in With(st, "waiting") \ {t} : Outranks(arr, t, u)}

(* The statuses that st may become once free slots have been granted.       *)
Granted(st, arr) ==
  IF Cardinality(With(st, "holding")) < Slots /\ With(st, "waiting") # {}
  THEN {[st EXCEPT ![t] = "holding"] : t \in Best(st, arr)}
  ELSE {st}

PoolInit ==
  /\ status = [t \in Task |-> "idle"]
  /\ arrival = [t \in Task |-> 0]
  /\ arrivals = 0

Arrive(t) ==
  /\ status[t] = "idle"
  /\ arrivals' = arrivals + 1
  /\ arrival' = [arrival EXCEPT ![t] = arrivals + 1]
  /\ status' \in Granted([status EXCEPT ![t] = "waiting"], arrival')

Leave(t) ==
  /\ status[t] = "holding"
  /\ status' \in Granted([status EXCEPT ![t] = "gone"], arrival)
  /\ UNCHANGED <<arrival, arrivals>>

PoolNext == \E t \in Task : Arrive(t) \/ Leave(t)

PoolSpec == PoolInit /\ [][PoolNext]_poolVars

=============================================================================
