---------------------------- MODULE RequestScheduler ----------------------------
(***************************************************************************)
(* src/src/performance/request-scheduler.ts: a priority queue in front of  *)
(* a bounded number of slots.  A call of add() makes one task; the task    *)
(* object lives as long as its promise does, so a task is identified with  *)
(* its add() call and is added once.                                       *)
(*                                                                         *)
(* Node runs one callback at a time, so each action below is one callback  *)
(* up to its next await: the add() call itself, the continuation after     *)
(* "await task.fn()", the setTimeout callback, and clear().  Every one of  *)
(* them ends in processNext(), which is therefore part of the action.      *)
(* Callbacks interleave freely.                                            *)
(***************************************************************************)
EXTENDS Integers, FiniteSets, Sequences

CONSTANTS
  Task,           \* the add() calls a client may make
  Priority,       \* options.priority of each call
  Timed,          \* the calls whose options.timeout is finite
  MaxConcurrent   \* config.maxConcurrent

ASSUME TaskAssumption == IsFiniteSet(Task)
ASSUME PriorityAssumption == Priority \in [Task -> Int]
ASSUME TimedAssumption == Timed \subseteq Task
ASSUME MaxConcurrentAssumption == MaxConcurrent \in Nat

VARIABLES
  queue,    \* this.queue: tasks in dispatch order
  active,   \* this.active: the slots the scheduler believes are taken
  phase,    \* where each task is; a settled phase is task.completed = true
  running,  \* tasks whose fn() has been called and has not come back
  timers,   \* tasks whose setTimeout is armed
  stats,    \* this.stats
  ticket    \* history: the value of stats.queued when the task was added

vars == <<queue, active, phase, running, timers, stats, ticket>>

Settled == {"resolved", "rejected", "timedOut"}
Phases == {"new", "queued", "active", "cleared"} \cup Settled

InPhase(p) == {t \in Task : phase[t] = p}

Init ==
  /\ queue = <<>>
  /\ active = 0
  /\ phase = [t \in Task |-> "new"]
  /\ running = {}
  /\ timers = {}
  /\ stats = [queued |-> 0, completed |-> 0, failed |-> 0, timedOut |-> 0]
  /\ ticket = [t \in Task |-> 0]

-----------------------------------------------------------------------------
(* queue.push(t) followed by the stable sort on descending priority.  The   *)
(* queue is already sorted when add() is called (QueueOrdered below), so    *)
(* the sort moves t alone, behind every task of the same or a higher        *)
(* priority.                                                                *)
NotLower(q, t) == {i \in 1..Len(q) : Priority[q[i]] >= Priority[t]}

(* Faulty variant: the new task overtakes its equals.                       *)
InsertBeforeEquals(q, t) ==
  LET k == Cardinality({i \in 1..Len(q) : Priority[q[i]] > Priority[t]})
  IN  SubSeq(q, 1, k) \o <<t>> \o SubSeq(q, k + 1, Len(q))

(* Faulty variant: an insertion that replaces the task standing there.      *)
InsertOverwriting(q, t) ==
  LET k == Cardinality(NotLower(q, t))
  IN  SubSeq(q, 1, k) \o <<t>> \o SubSeq(q, k + 2, Len(q))

Insert(q, t) ==
  LET k == Cardinality(NotLower(q, t))
  IN  SubSeq(q, 1, k) \o <<t>> \o SubSeq(q, k + 1, Len(q))

(* processNext(): called with the values the caller has just computed.  It  *)
(* starts at most one task: the head of the queue, when a slot is free.     *)
Dispatch(q, a, ph, run, tm) ==
  \/ /\ a >= MaxConcurrent \/ q = <<>>
     /\ queue' = q
     /\ active' = a
     /\ phase' = ph
     /\ running' = run
     /\ timers' = tm
  \/ /\ a < MaxConcurrent
     /\ q # <<>>
     /\ queue' = Tail(q)
     /\ active' = a + 1
     /\ phase' = [ph EXCEPT ![Head(q)] = "active"]
     /\ running' = run \cup {Head(q)}
     /\ timers' = tm \cup ({Head(q)} \cap Timed)

-----------------------------------------------------------------------------
(* add(fn, options), lines 24-42.                                           *)
Add(t) ==
  /\ phase[t] = "new"
  /\ stats' = [stats EXCEPT !.queued = @ + 1]
  /\ ticket' = [ticket EXCEPT ![t] = stats.queued + 1]
  /\ Dispatch(Insert(queue, t), active, [phase EXCEPT ![t] = "queued"],
              running, timers)

(* Faulty variant: completion does not call processNext().                  *)
ReleaseWithoutNext(t, p, field) ==
  /\ stats' = [stats EXCEPT ![field] = @ + 1]
  /\ queue' = queue
  /\ active' = active - 1
  /\ phase' = [phase EXCEPT ![t] = p]
  /\ running' = running \ {t}
  /\ timers' = timers \ {t}

(* The slot of t is given back, t's promise is settled as p and the next    *)
(* task is started: the tail shared by the three ways a task can end.       *)
Release(t, p, field) ==
  /\ stats' = [stats EXCEPT ![field] = @ + 1]
  /\ Dispatch(queue, active - 1, [phase EXCEPT ![t] = p],
              running \ {t}, timers \ {t})

(* fn() came back (lines 62-78): fulfilled (p = "resolved") or rejected.    *)
(* If the timer has already settled the task, the continuation returns.     *)
FnReturns(t, p, field) ==
  /\ t \in running
  /\ UNCHANGED ticket
  /\ \/ /\ phase[t] \in Settled
        /\ running' = running \ {t}
        /\ UNCHANGED <<queue, active, phase, timers, stats>>
     \/ /\ phase[t] \notin Settled
        /\ Release(t, p, field)

(* Faulty variant: the timer rejects the promise but keeps the slot.        *)
ExpireKeepingSlot(t) ==
  /\ t \in timers
  /\ phase' = [phase EXCEPT ![t] = "timedOut"]
  /\ timers' = timers \ {t}
  /\ stats' = [stats EXCEPT !.timedOut = @ + 1]
  /\ UNCHANGED <<queue, active, running, ticket>>

(* The setTimeout callback, lines 51-58.  Completion clears the timer, so   *)
(* an armed timer belongs to an unsettled task.  fn() keeps running.        *)
Expire(t) ==
  /\ t \in timers
  /\ phase[t] \notin Settled
  /\ UNCHANGED ticket
  /\ stats' = [stats EXCEPT !.timedOut = @ + 1]
  /\ Dispatch(queue, active - 1, [phase EXCEPT ![t] = "timedOut"],
              running, timers \ {t})

(* clear(), lines 85-88: the queued promises are forgotten and never        *)
(* settled, and the count of slots restarts at zero although the started    *)
(* tasks are still there.                                                   *)
Clear ==
  /\ queue' = <<>>
  /\ active' = 0
  /\ phase' = [t \in Task |-> IF phase[t] = "queued" THEN "cleared" ELSE phase[t]]
  /\ UNCHANGED <<running, timers, stats, ticket>>

-----------------------------------------------------------------------------
(* Serving requests, without anybody calling clear().                       *)
Serve ==
  \E t \in Task :
    \/ Add(t)
    \/ FnReturns(t, "resolved", "completed")
    \/ FnReturns(t, "rejected", "failed")
    \/ Expire(t)

Next == Serve \/ Clear

(* An armed timer fires.  Nothing makes fn() return: an upstream call may   *)
(* hang, which is what the timeout option is for.                           *)
Fairness == \A t \in Task : WF_vars(Expire(t))

ServingSpec == Init /\ [][Serve]_vars /\ Fairness
Spec == Init /\ [][Next]_vars /\ Fairness

-----------------------------------------------------------------------------
(* Type correctness.  The slot count never exceeds the limit, but it may go *)
(* below zero (see Clear).                                                  *)
TypeOK ==
  /\ queue \in Seq(Task)
  /\ active \in Int /\ active <= MaxConcurrent
  /\ phase \in [Task -> Phases]
  /\ running \subseteq Task
  /\ timers \subseteq Task
  /\ stats \in [queued : Nat, completed : Nat, failed : Nat, timedOut : Nat]
  /\ ticket \in [Task -> Nat]

(* The queue holds every waiting task exactly once: a task that add()       *)
(* accepted is never lost and never dispatched twice.                       *)
QueueExact ==
  /\ \A i, j \in 1..Len(queue) : queue[i] = queue[j] => i = j
  /\ \A i \in 1..Len(queue) : phase[queue[i]] = "queued"
  /\ \A t \in InPhase("queued") : \E i \in 1..Len(queue) : queue[i] = t

(* t is to be served before u.                                              *)
Before(t, u) ==
  \/ Priority[t] > Priority[u]
  \/ Priority[t] = Priority[u] /\ ticket[t] < ticket[u]

(* The queue is ordered by priority and, among equals, by arrival, whatever *)
(* the interleaving of additions and completions: push and a stable sort    *)
(* keep first-come-first-served.                                            *)
QueueOrdered ==
  \A i, j \in 1..Len(queue) : i < j => Before(queue[i], queue[j])

(* No task waits while a slot is free, even after clear(): although         *)
(* processNext() starts at most one task per call, no wake-up is ever       *)
(* missing.                                                                 *)
WorkConserving == queue # <<>> => active = MaxConcurrent

(* Nobody is forgotten: whoever waits is in the queue, once, and waits only *)
(* for a slot that somebody holds or held.                                  *)
NobodyForgotten == QueueExact /\ WorkConserving

(* A timer is armed only for a started, unsettled, timed task, and only a   *)
(* settled task's late fn() can still be running apart from those holding   *)
(* a slot: the guards on task.completed cover every ending.                 *)
TimersAndCalls ==
  /\ \A t \in Task : t \in timers <=> phase[t] = "active" /\ t \in Timed
  /\ \A t \in Task : phase[t] = "active" => t \in running
  /\ \A t \in running : phase[t] \in {"active", "timedOut"}

(* The slot counter agrees with the tasks that hold a slot: no ending gives *)
(* a slot back twice and none keeps it.  (While nobody calls clear().)      *)
SlotAccounting == active = Cardinality(InPhase("active"))

(* At most maxConcurrent tasks are started and unsettled.                   *)
ConcurrencyLimit == Cardinality(InPhase("active")) <= MaxConcurrent

(* getStats() adds up: every task counted as queued is waiting, active or   *)
(* counted in exactly one of the three outcomes.                            *)
StatsConserved ==
  stats.queued = stats.completed + stats.failed + stats.timedOut
                 + active + Len(queue)

(* A promise settles once: a late answer or a late timer never changes an   *)
(* outcome.                                                                 *)
SettlesOnce ==
  [][\A t \in Task : phase[t] \in Settled => phase'[t] = phase[t]]_vars

(* Whenever a task is started, every task left waiting ranks behind it.     *)
BestFirst ==
  [][\A t, u \in Task :
       /\ phase[t] # "active" /\ phase'[t] = "active"
       /\ phase'[u] = "queued"
       => Before(t, u)']_vars

(* Every added task with a timeout is settled in the end, even if every     *)
(* fn() hangs, as long as fewer untimed tasks than slots exist.             *)
TimedTasksSettle ==
  \A t \in Timed : phase[t] \in {"queued", "active"} ~> phase[t] \in Settled

=============================================================================
