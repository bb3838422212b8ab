-------------------------- MODULE HealthEngineProofs --------------------------
(***************************************************************************)
(* For every set of providers, all thresholds, every cooldown and every    *)
(* period of the checker: the record and the breaker of a provider agree,  *)
(* an open breaker is probed neither early nor late, and the breaker is    *)
(* where the reports have put it.                                          *)
(*                                                                         *)
(* The second is not inductive by itself: it needs to know that a breaker  *)
(* still open was not yet cooled at the previous check, which is one       *)
(* period before nextCheck.                                                *)
(***************************************************************************)
EXTENDS HealthEngine, FiniteSetTheorems, SequenceTheorems, TLAPS

(* How long ago a breaker opened, by the state it is in.                    *)
Aged(p) ==
  /\ breaker[p] = "open" =>
       openedAt[p] >= 1 /\ openedAt[p] >= nextCheck - CheckEvery - Cooldown
  /\ breaker[p] = "half-open" => now - openedAt[p] > Cooldown

(* What the two views of p say of each other.                               *)
Agrees(p) ==
  /\ status[p] = "healthy" => breaker[p] = "closed"
  /\ status[p] = "unhealthy" => breaker[p] \in {"open", "half-open"}
  /\ breaker[p] = "closed" => status[p] \in {"healthy", "degraded"}
  /\ p \notin known => breaker[p] = "none" /\ status[p] = "unknown"

HealthInv == TypeOK /\ \A p \in Provider : Agrees(p) /\ Aged(p)

(* The constants and the clock, as plain facts about numbers.               *)
LEMMA Numbers ==
  ASSUME TypeOK
  PROVE  /\ Cooldown \in Nat /\ CheckEvery \in Nat /\ CheckEvery >= 1
         /\ HealthyThreshold \in Nat /\ UnhealthyThreshold \in Nat
         /\ MaxTime \in Nat
         /\ now \in Nat /\ now >= 1 /\ now <= MaxTime
         /\ nextCheck \in Nat /\ now <= nextCheck /\ nextCheck <= now + CheckEvery
         /\ \A p \in Provider : openedAt[p] \in Nat /\ openedAt[p] <= now
<1>1. /\ Cooldown \in Nat /\ CheckEvery \in Nat /\ CheckEvery >= 1
      /\ HealthyThreshold \in Nat /\ UnhealthyThreshold \in Nat /\ MaxTime \in Nat
  BY HealthConfigAssumption, HealthBoundAssumption
<1>2. now \in Nat /\ now >= 1 /\ now <= MaxTime
  BY <1>1 DEF TypeOK
<1>3. nextCheck \in Nat /\ now <= nextCheck /\ nextCheck <= now + CheckEvery
  BY <1>1, <1>2 DEF TypeOK
<1>4. \A p \in Provider : openedAt[p] \in Nat /\ openedAt[p] <= now
  BY <1>2 DEF TypeOK
<1> QED BY <1>1, <1>2, <1>3, <1>4

LEMMA TransitionToTypes ==
  ASSUME TypeOK, NEW p \in Provider, NEW s \in BreakerStates, TransitionTo(p, s)
  PROVE  /\ breaker' \in [Provider -> BreakerStates] /\ breaker'[p] = s
         /\ openedAt' \in [Provider -> 0..now]
         /\ s = "open" => openedAt'[p] = now
         /\ \A q \in Provider \ {p} :
              breaker'[q] = breaker[q] /\ openedAt'[q] = openedAt[q]
<1>1. now \in 0..now
  BY Numbers
<1> QED BY <1>1 DEF TypeOK, TransitionTo

(* What a report about p does to its record and breaker, whichever way it   *)
(* turned out; counting apart, the rest of the state stays.                 *)
LEMMA ReportEffect ==
  ASSUME HealthInv, NEW p \in Provider, NEW answer \in {"up", "down"}, Report(p, answer)
  PROVE  /\ status' \in [Provider -> Statuses]
         /\ successes' \in [Provider -> Nat] /\ failures' \in [Provider -> Nat]
         /\ breaker' \in [Provider -> BreakerStates]
         /\ openedAt' \in [Provider -> 0..now]
         /\ \A q \in Provider \ {p} :
              status'[q] = status[q] /\ breaker'[q] = breaker[q] /\ openedAt'[q] = openedAt[q]
         /\ \/ status'[p] = "healthy" /\ breaker'[p] = "closed"
            \/ status'[p] = "unhealthy" /\ breaker'[p] = "open" /\ openedAt'[p] = now
            \/ /\ status'[p] \in {status[p], "degraded"}
               /\ breaker'[p] = breaker[p] /\ openedAt'[p] = openedAt[p]
<1>0. TypeOK
  BY DEF HealthInv
<1>1. CASE answer = "up"
  <2>1. ReportUp(p)
    BY <1>1 DEF Report
  <2>2. successes' \in [Provider -> Nat] /\ failures' \in [Provider -> Nat]
    BY <1>0, <2>1 DEF TypeOK, ReportUp
  <2>3. CASE status' = [status EXCEPT ![p] = "healthy"] /\ TransitionTo(p, "closed")
    <3>1. "closed" \in BreakerStates
      BY DEF BreakerStates
    <3>2. status' \in [Provider -> Statuses] /\ status'[p] = "healthy"
          /\ \A q \in Provider \ {p} : status'[q] = status[q]
      BY <1>0, <2>3 DEF TypeOK, Statuses
    <3> QED BY <1>0, <2>2, <2>3, <3>1, <3>2, TransitionToTypes
  <2>4. CASE UNCHANGED <<status, breakers>>
    BY <1>0, <2>2, <2>4 DEF TypeOK, breakers
  <2> QED BY <2>1, <2>3, <2>4 DEF ReportUp
<1>2. CASE answer = "down"
  <2>1. ReportDown(p)
    BY <1>2 DEF Report
  <2>2. successes' \in [Provider -> Nat] /\ failures' \in [Provider -> Nat]
    BY <1>0, <2>1 DEF TypeOK, ReportDown
  <2>3. CASE status' = [status EXCEPT ![p] = "unhealthy"] /\ TransitionTo(p, "open")
    <3>1. "open" \in BreakerStates
      BY DEF BreakerStates
    <3>2. status' \in [Provider -> Statuses] /\ status'[p] = "unhealthy"
          /\ \A q \in Provider \ {p} : status'[q] = status[q]
      BY <1>0, <2>3 DEF TypeOK, Statuses
    <3> QED BY <1>0, <2>2, <2>3, <3>1, <3>2, TransitionToTypes
  <2>4. CASE status' = [status EXCEPT ![p] = "degraded"] /\ UNCHANGED breakers
    BY <1>0, <2>2, <2>4 DEF TypeOK, Statuses, breakers
  <2> QED BY <2>1, <2>3, <2>4 DEF ReportDown
<1> QED BY <1>1, <1>2

LEMMA ReportKeeps ==
  ASSUME HealthInv, NEW p \in Provider, NEW answer \in {"up", "down"}, Report(p, answer)
  PROVE  HealthInv'
<1>0. TypeOK
  BY DEF HealthInv
<1>1. /\ known' = known \cup {p} /\ now' = now /\ nextCheck' = nextCheck
      /\ history' = [history EXCEPT ![p] = Append(@, answer)]
  BY DEF Report, clock
<1>2. history' \in [Provider -> Seq({"up", "down"})]
  BY <1>0, <1>1 DEF TypeOK
<1>3. TypeOK'
  <2>1. known' \subseteq Provider
    BY <1>0, <1>1 DEF TypeOK
  <2>2. now' \in 1..MaxTime /\ nextCheck' \in now'..now' + CheckEvery
    BY <1>0, <1>1 DEF TypeOK
  <2>3. /\ status' \in [Provider -> Statuses]
        /\ successes' \in [Provider -> Nat] /\ failures' \in [Provider -> Nat]
        /\ breaker' \in [Provider -> BreakerStates]
    BY ReportEffect
  <2>4. openedAt' \in [Provider -> 0..now']
    BY <1>1, ReportEffect
  <2> QED BY <1>2, <2>1, <2>2, <2>3, <2>4 DEF TypeOK
<1>4. \A q \in Provider : Agrees(q)'
  <2>1. \A q \in Provider \ {p} : Agrees(q)'
    BY <1>1, ReportEffect DEF HealthInv, Agrees
  <2>2. Agrees(p)'
    BY <1>1, ReportEffect DEF HealthInv, Agrees
  <2> QED BY <2>1, <2>2
<1>5. \A q \in Provider : Aged(q)'
  <2>1. \A q \in Provider \ {p} : Aged(q)'
    BY <1>1, ReportEffect DEF HealthInv, Aged
  <2>2. now >= 1 /\ now >= nextCheck - CheckEvery - Cooldown
    BY <1>0, Numbers
  <2>3. Aged(p)'
    BY <1>1, <2>2, ReportEffect DEF HealthInv, Aged
  <2> QED BY <2>1, <2>3
<1> QED BY <1>3, <1>4, <1>5 DEF HealthInv

LEMMA ResetKeeps ==
  ASSUME HealthInv, NEW P \in SUBSET Provider, Reset(P)
  PROVE  HealthInv'
<1>1. TypeOK'
  <2>1. TypeOK /\ 0 \in 0..now /\ <<>> \in Seq({"up", "down"})
    BY Numbers DEF HealthInv
  <2> QED BY <2>1 DEF TypeOK, Reset, Statuses, BreakerStates, clock
<1>2. \A q \in Provider : Agrees(q)' /\ Aged(q)'
  BY DEF HealthInv, TypeOK, Reset, clock, Agrees, Aged
<1> QED BY <1>1, <1>2 DEF HealthInv

LEMMA CheckKeeps ==
  ASSUME HealthInv, CheckTransitions
  PROVE  HealthInv'
<1>1. /\ now = nextCheck /\ nextCheck' = nextCheck + CheckEvery /\ now' = now
      /\ known' = known /\ status' = status /\ successes' = successes
      /\ failures' = failures /\ openedAt' = openedAt /\ history' = history
      /\ breaker' = [p \in Provider |-> IF p \in Cooled THEN "half-open" ELSE breaker[p]]
  BY DEF CheckTransitions, records
<1>2. TypeOK
  BY DEF HealthInv
<1>3. TypeOK'
  <2>1. nextCheck' \in now'..now' + CheckEvery
    BY <1>1, <1>2, Numbers
  <2> QED BY <1>1, <1>2, <2>1 DEF TypeOK, BreakerStates
<1>4. \A q \in Provider : Agrees(q)'
  BY <1>1 DEF HealthInv, Agrees, Cooled
<1>5. \A q \in Provider : Aged(q)'
  <2> SUFFICES ASSUME NEW q \in Provider PROVE Aged(q)'
    OBVIOUS
  <2>1. CASE q \in Cooled
    BY <1>1, <2>1 DEF Cooled, Aged
  <2>2. CASE q \notin Cooled /\ breaker[q] = "open"
    <3>1. openedAt[q] >= 1 /\ openedAt[q] \in Nat
      BY <1>2, <2>2, Numbers DEF HealthInv, Aged
    <3>2. now - openedAt[q] <= Cooldown
      BY <1>2, <2>2, <3>1, Numbers DEF Cooled
    <3>3. openedAt[q] >= nextCheck' - CheckEvery - Cooldown
      BY <1>1, <1>2, <3>1, <3>2, Numbers
    <3>4. breaker'[q] = "open" /\ openedAt'[q] = openedAt[q]
      BY <1>1, <2>2
    <3> QED BY <3>1, <3>3, <3>4 DEF Aged
  <2>3. CASE q \notin Cooled /\ breaker[q] # "open"
    BY <1>1, <2>3 DEF HealthInv, Aged
  <2> QED BY <2>1, <2>2, <2>3
<1> QED BY <1>3, <1>4, <1>5 DEF HealthInv

LEMMA TickKeeps ==
  ASSUME HealthInv, Tick
  PROVE  HealthInv'
<1>1. /\ now < nextCheck /\ now < MaxTime /\ now' = now + 1
      /\ known' = known /\ status' = status /\ successes' = successes
      /\ failures' = failures /\ breaker' = breaker /\ openedAt' = openedAt
      /\ nextCheck' = nextCheck /\ history' = history
  BY DEF Tick, records, breakers
<1>2. TypeOK
  BY DEF HealthInv
<1>3. TypeOK'
  <2>1. now' \in 1..MaxTime /\ nextCheck' \in now'..now' + CheckEvery
    BY <1>1, <1>2, Numbers
  <2>2. 0..now \subseteq 0..now'
    BY <1>1, <1>2, Numbers
  <2>3. openedAt' \in [Provider -> 0..now']
    BY <1>1, <1>2, <2>2 DEF TypeOK
  <2> QED BY <1>1, <1>2, <2>1, <2>3 DEF TypeOK
<1>4. \A q \in Provider : Agrees(q)' /\ Aged(q)'
  BY <1>1, <1>2, Numbers DEF HealthInv, Agrees, Aged
<1> QED BY <1>3, <1>4 DEF HealthInv

(* The inductive invariant of the health engine.                            *)
THEOREM HealthInvariant == Spec => []HealthInv
<1>1. Init => HealthInv
  <2> SUFFICES ASSUME Init PROVE HealthInv
    OBVIOUS
  <2>1. CheckEvery \in Nat /\ CheckEvery >= 1 /\ MaxTime \in Nat /\ MaxTime >= 1
    BY HealthConfigAssumption, HealthBoundAssumption
  <2>2. now \in 1..MaxTime /\ nextCheck \in now..now + CheckEvery /\ 0 \in 0..now
    BY <2>1 DEF Init
  <2>3. TypeOK
    BY <2>2 DEF Init, TypeOK, Statuses, BreakerStates
  <2>4. \A p \in Provider : Agrees(p) /\ Aged(p)
    BY DEF Init, Agrees, Aged
  <2> QED BY <2>3, <2>4 DEF HealthInv
<1>2. HealthInv /\ [Next]_vars => HealthInv'
  <2> SUFFICES ASSUME HealthInv, [Next]_vars PROVE HealthInv'
    OBVIOUS
  <2>1. ASSUME NEW p \in Provider, NEW answer \in {"up", "down"}, Report(p, answer)
        PROVE  HealthInv'
    BY <2>1, ReportKeeps
  <2>2. ASSUME NEW p \in Provider, Reset({p}) PROVE HealthInv'
    BY <2>2, ResetKeeps
  <2>3. CASE Reset(Provider)
    BY <2>3, ResetKeeps
  <2>4. CASE CheckTransitions
    BY <2>4, CheckKeeps
  <2>5. CASE Tick
    BY <2>5, TickKeeps
  <2>6. CASE UNCHANGED vars
    BY <2>6 DEF vars, records, breakers, clock, HealthInv, TypeOK, Agrees, Aged
  <2> QED BY <2>1, <2>2, <2>3, <2>4, <2>5, <2>6 DEF Next
<1> QED BY <1>1, <1>2, PTL DEF Spec

(* The engine's state has its types; the clock never passes a due check.    *)
THEOREM HealthTypeOK == Spec => []TypeOK
<1>1. HealthInv => TypeOK
  BY DEF HealthInv
<1> QED BY <1>1, HealthInvariant, PTL

(* /health and /health/circuit-breakers never contradict each other.        *)
THEOREM HealthStatusAgreesWithBreaker == Spec => []StatusAgreesWithBreaker
<1>1. HealthInv => StatusAgreesWithBreaker
  BY DEF HealthInv, Agrees, StatusAgreesWithBreaker
<1> QED BY <1>1, HealthInvariant, PTL

(* No breaker stays open for longer than the cooldown and one period of the *)
(* checker.                                                                 *)
THEOREM HealthProbedInTime == Spec => []ProbedInTime
<1>1. HealthInv => ProbedInTime
  <2> SUFFICES ASSUME HealthInv, NEW p \in Provider, breaker[p] = "open"
               PROVE  now - openedAt[p] <= Cooldown + CheckEvery
    BY DEF ProbedInTime
  <2>1. openedAt[p] >= nextCheck - CheckEvery - Cooldown
    BY DEF HealthInv, Aged
  <2> QED BY <2>1, Numbers DEF HealthInv
<1> QED BY <1>1, HealthInvariant, PTL

(* No breaker is half-open before its cooldown is over.                     *)
THEOREM HealthNotProbedEarly == Spec => []NotProbedEarly
<1>1. HealthInv => NotProbedEarly
  BY DEF HealthInv, Aged, NotProbedEarly
<1> QED BY <1>1, HealthInvariant, PTL

(* An open breaker is probed neither early nor late.                        *)
THEOREM HealthProbedOnTime == Spec => []ProbedOnTime
<1> QED
  BY HealthProbedInTime, HealthNotProbedEarly, PTL DEF ProbedOnTime

(* The checker never revives a closed or forgotten breaker, and a breaker   *)
(* opens only on a report.                                                  *)
THEOREM HealthBreakerSteps == Spec => BreakerSteps
<1> DEFINE Step == \A p \in Provider :
       /\ breaker'[p] = "half-open" /\ breaker[p] # "half-open" => breaker[p] = "open"
       /\ breaker'[p] = "open" /\ breaker[p] # "open" => history'[p] # history[p]
<1>1. HealthInv /\ [Next]_vars => [Step]_vars
  <2> SUFFICES ASSUME HealthInv, Next PROVE Step
    OBVIOUS
  <2>1. ASSUME NEW p \in Provider, NEW answer \in {"up", "down"}, Report(p, answer)
        PROVE  Step
    <3>1. history[p] \in Seq({"up", "down"}) /\ history'[p] = Append(history[p], answer)
      BY <2>1 DEF HealthInv, TypeOK, Report
    <3>2. history'[p] # history[p]
      <4>1. Len(history'[p]) = Len(history[p]) + 1 /\ Len(history[p]) \in Nat
        BY <3>1
      <4> QED BY <4>1
    <3> QED BY <2>1, <3>2, ReportEffect
  <2>2. ASSUME NEW P \in SUBSET Provider, Reset(P) PROVE Step
    BY <2>2 DEF Reset
  <2>3. CASE CheckTransitions
    BY <2>3 DEF CheckTransitions, Cooled
  <2>4. CASE Tick
    BY <2>4 DEF Tick, breakers
  <2> QED BY <2>1, <2>2, <2>3, <2>4 DEF Next
<1> QED BY <1>1, HealthInvariant, PTL DEF Spec, BreakerSteps

-----------------------------------------------------------------------------
(* The counters of the record against the reports received: successes is    *)
(* the number of good reports, failures the length of the run of bad ones   *)
(* the reports end in.                                                      *)
CountsReports(p) ==
  LET h == history[p]
      k == Len(h) - failures[p]
  IN  /\ successes[p] = Successes(h, Len(h))
      /\ k \in 0..Len(h)
      /\ \A i \in k + 1..Len(h) : h[i] = "down"
      /\ k > 0 => h[k] = "up"

FollowsReports(p) == breaker[p] \in {"open", "half-open"} <=> Tripped(history[p])

ReportsInv == \A p \in Provider : CountsReports(p) /\ FollowsReports(p)

(* Successes counts no report after the n-th, and a report adds its own.    *)
LEMMA SuccessesAppend ==
  ASSUME NEW h \in Seq({"up", "down"}), NEW a \in {"up", "down"}
  PROVE  /\ \A n \in 0..Len(h) :
              Successes(h, n) \in Nat /\ Successes(Append(h, a), n) = Successes(h, n)
         /\ Successes(Append(h, a), Len(h) + 1) =
              Successes(h, Len(h)) + (IF a = "up" THEN 1 ELSE 0)
<1> DEFINE L == Len(h)
           Ups(n) == {i \in 1..n : h[i] = "up"}
           UpsA(n) == {i \in 1..n : Append(h, a)[i] = "up"}
<1>1. L \in Nat /\ \A i \in 1..L : Append(h, a)[i] = h[i]
  OBVIOUS
<1>2. Append(h, a)[L + 1] = a
  OBVIOUS
<1>3. \A n \in 0..L : IsFiniteSet(Ups(n)) /\ UpsA(n) = Ups(n)
  <2> SUFFICES ASSUME NEW n \in 0..L PROVE IsFiniteSet(Ups(n)) /\ UpsA(n) = Ups(n)
    OBVIOUS
  <2>1. IsFiniteSet(1..n) /\ Ups(n) \subseteq 1..n
    BY <1>1, FS_Interval
  <2>2. UpsA(n) = Ups(n)
    BY <1>1
  <2> QED BY <2>1, <2>2, FS_Subset
<1>4. \A n \in 0..L :
        Successes(h, n) \in Nat /\ Successes(Append(h, a), n) = Successes(h, n)
  BY <1>3, FS_CardinalityType DEF Successes
<1>5. CASE a = "up"
  <2>1. UpsA(L + 1) = Ups(L) \cup {L + 1} /\ L + 1 \notin Ups(L)
    BY <1>1, <1>2, <1>5
  <2>2. IsFiniteSet(Ups(L))
    BY <1>1, <1>3
  <2>3. Cardinality(UpsA(L + 1)) = Cardinality(Ups(L)) + 1
    BY <2>1, <2>2, FS_AddElement
  <2> QED BY <1>4, <1>5, <2>3 DEF Successes
<1>6. CASE a = "down"
  <2>1. UpsA(L + 1) = Ups(L)
    BY <1>1, <1>2, <1>6
  <2>2. Cardinality(Ups(L)) \in Nat
    BY <1>1, <1>3, FS_CardinalityType
  <2> QED BY <1>4, <1>6, <2>1, <2>2 DEF Successes
<1> QED BY <1>4, <1>5, <1>6

(* A good report keeps the reports tripped while too few have been good.    *)
LEMMA TrippedUp ==
  ASSUME NEW h \in Seq({"up", "down"})
  PROVE  Tripped(Append(h, "up")) <=>
           Tripped(h) /\ Successes(h, Len(h)) + 1 < HealthyThreshold
<1> DEFINE L == Len(h)
           g == Append(h, "up")
           Trip(s, n) == /\ \A i \in n - UnhealthyThreshold + 1..n : s[i] = "down"
                         /\ \A m \in n + 1..Len(s) :
                              s[m] = "up" => Successes(s, m) < HealthyThreshold
<1>1. L \in Nat /\ UnhealthyThreshold \in Nat /\ UnhealthyThreshold >= 1
  BY HealthConfigAssumption
<1>2. Len(g) = L + 1 /\ g[L + 1] = "up" /\ \A i \in 1..L : g[i] = h[i]
  OBVIOUS
<1>3. /\ \A n \in 0..L : Successes(g, n) = Successes(h, n)
      /\ Successes(g, L + 1) = Successes(h, L) + 1
  BY SuccessesAppend
<1>4. ASSUME NEW n \in UnhealthyThreshold..L + 1, Trip(g, n)
      PROVE  n \in UnhealthyThreshold..L /\ Trip(h, n) /\ Successes(h, L) + 1 < HealthyThreshold
  <2>1. n # L + 1
    BY <1>1, <1>2, <1>4
  <2>2. n \in UnhealthyThreshold..L
    BY <1>1, <2>1
  <2>3. \A i \in n - UnhealthyThreshold + 1..n : h[i] = "down"
    BY <1>1, <1>2, <1>4, <2>2
  <2>4. \A m \in n + 1..L : h[m] = "up" => Successes(h, m) < HealthyThreshold
    BY <1>1, <1>2, <1>3, <1>4, <2>2
  <2>5. L + 1 \in n + 1..Len(g)
    BY <1>1, <1>2, <2>2
  <2>6. Successes(g, L + 1) < HealthyThreshold
    BY <1>2, <1>4, <2>5
  <2> QED BY <1>3, <2>2, <2>3, <2>4, <2>6
<1>5. ASSUME NEW n \in UnhealthyThreshold..L, Trip(h, n),
             Successes(h, L) + 1 < HealthyThreshold
      PROVE  n \in UnhealthyThreshold..L + 1 /\ Trip(g, n)
  <2>1. \A i \in n - UnhealthyThreshold + 1..n : g[i] = "down"
    BY <1>1, <1>2, <1>5
  <2>2. ASSUME NEW m \in n + 1..L + 1, g[m] = "up" PROVE Successes(g, m) < HealthyThreshold
    <3>1. CASE m = L + 1
      BY <1>3, <1>5, <3>1
    <3>2. CASE m # L + 1
      <4>1. m \in n + 1..L /\ m \in 0..L
        BY <1>1, <3>2
      <4>2. h[m] = "up"
        BY <1>1, <1>2, <2>2, <4>1
      <4> QED BY <1>3, <1>5, <4>1, <4>2
    <3> QED BY <3>1, <3>2
  <2>3. n \in UnhealthyThreshold..L + 1
    BY <1>1
  <2> QED BY <1>2, <2>1, <2>2, <2>3
<1>6. Tripped(g) <=> \E n \in UnhealthyThreshold..L + 1 : Trip(g, n)
  BY <1>2 DEF Tripped
<1>7. Tripped(h) <=> \E n \in UnhealthyThreshold..L : Trip(h, n)
  BY DEF Tripped
<1> QED BY <1>4, <1>5, <1>6, <1>7

(* A bad report trips them when it completes a run of UnhealthyThreshold.   *)
LEMMA TrippedDown ==
  ASSUME NEW h \in Seq({"up", "down"}), NEW k \in 0..Len(h),
         \A i \in k + 1..Len(h) : h[i] = "down",
         k > 0 => h[k] = "up"
  PROVE  Tripped(Append(h, "down")) <=>
           Tripped(h) \/ Len(h) + 1 - k >= UnhealthyThreshold
<1> DEFINE L == Len(h)
           g == Append(h, "down")
           Trip(s, n) == /\ \A i \in n - UnhealthyThreshold + 1..n : s[i] = "down"
                         /\ \A m \in n + 1..Len(s) :
                              s[m] = "up" => Successes(s, m) < HealthyThreshold
<1>1. L \in Nat /\ UnhealthyThreshold \in Nat /\ UnhealthyThreshold >= 1 /\ k \in Nat
  BY HealthConfigAssumption
<1>2. Len(g) = L + 1 /\ g[L + 1] = "down" /\ \A i \in 1..L : g[i] = h[i]
  OBVIOUS
<1>3. \A n \in 0..L : Successes(g, n) = Successes(h, n)
  BY SuccessesAppend
<1>4. ASSUME NEW n \in UnhealthyThreshold..L, Trip(g, n)
      PROVE  Trip(h, n)
  <2>1. \A i \in n - UnhealthyThreshold + 1..n : h[i] = "down"
    BY <1>1, <1>2, <1>4
  <2>2. \A m \in n + 1..L : h[m] = "up" => Successes(h, m) < HealthyThreshold
    BY <1>1, <1>2, <1>3, <1>4
  <2> QED BY <2>1, <2>2
<1>5. ASSUME Trip(g, L + 1), L + 1 - k < UnhealthyThreshold,
             L + 1 \in UnhealthyThreshold..L + 1
      PROVE  FALSE
  <2>1. k > 0 /\ k \in L + 1 - UnhealthyThreshold + 1..L + 1
    BY <1>1, <1>5
  <2>2. h[k] = "up" /\ g[k] = "down" /\ k \in 1..L
    BY <1>1, <1>5, <2>1
  <2> QED BY <1>2, <2>2
<1>6. ASSUME NEW n \in UnhealthyThreshold..L, Trip(h, n)
      PROVE  Trip(g, n)
  <2>1. \A i \in n - UnhealthyThreshold + 1..n : g[i] = "down"
    BY <1>1, <1>2, <1>6
  <2>2. ASSUME NEW m \in n + 1..L + 1, g[m] = "up" PROVE Successes(g, m) < HealthyThreshold
    <3>1. m # L + 1
      BY <1>2, <2>2
    <3>2. m \in n + 1..L /\ m \in 0..L /\ m \in 1..L
      BY <1>1, <3>1
    <3>3. h[m] = "up"
      BY <1>2, <2>2, <3>2
    <3> QED BY <1>3, <1>6, <3>2, <3>3
  <2> QED BY <1>2, <2>1, <2>2
<1>7. ASSUME L + 1 - k >= UnhealthyThreshold
      PROVE  L + 1 \in UnhealthyThreshold..L + 1 /\ Trip(g, L + 1)
  <2>1. ASSUME NEW i \in L + 1 - UnhealthyThreshold + 1..L + 1 PROVE g[i] = "down"
    <3>1. CASE i = L + 1
      BY <1>2, <3>1
    <3>2. CASE i # L + 1
      <4>1. i \in k + 1..L /\ i \in 1..L
        BY <1>1, <1>7, <3>2
      <4> QED BY <1>2, <4>1
    <3> QED BY <3>1, <3>2
  <2>2. L + 1 \in UnhealthyThreshold..L + 1
    BY <1>1, <1>7
  <2>3. ASSUME NEW m \in (L + 1) + 1..Len(g)
        PROVE  g[m] = "up" => Successes(g, m) < HealthyThreshold
    BY <1>1, <1>2
  <2> HIDE DEF L, g
  <2>4. Trip(g, L + 1)
    BY <1>1, <2>1, <2>3
  <2> QED BY <2>2, <2>4
<1>8. Tripped(g) <=> \E n \in UnhealthyThreshold..L + 1 : Trip(g, n)
  BY <1>2 DEF Tripped
<1>9. Tripped(h) <=> \E n \in UnhealthyThreshold..L : Trip(h, n)
  BY DEF Tripped
<1>10. ASSUME Tripped(g) PROVE Tripped(h) \/ L + 1 - k >= UnhealthyThreshold
  <2>1. PICK n \in UnhealthyThreshold..L + 1 : Trip(g, n)
    BY <1>8, <1>10
  <2>2. CASE n = L + 1
    BY <1>1, <1>5, <2>1, <2>2
  <2>3. CASE n # L + 1
    <3>1. n \in UnhealthyThreshold..L
      BY <1>1, <2>3
    <3> QED BY <1>4, <1>9, <2>1, <3>1
  <2> QED BY <2>2, <2>3
<1>11. ASSUME Tripped(h) PROVE Tripped(g)
  <2>1. PICK n \in UnhealthyThreshold..L : Trip(h, n)
    BY <1>9, <1>11
  <2>2. n \in UnhealthyThreshold..L + 1
    BY <1>1
  <2> QED BY <1>6, <1>8, <2>1, <2>2
<1> QED BY <1>7, <1>8, <1>10, <1>11

LEMMA ReportKeepsReports ==
  ASSUME HealthInv, ReportsInv, NEW p \in Provider, NEW answer \in {"up", "down"},
         Report(p, answer)
  PROVE  ReportsInv'
<1> DEFINE h == history[p]
           L == Len(h)
           k == L - failures[p]
<1>0. TypeOK
  BY DEF HealthInv
<1>1. h \in Seq({"up", "down"}) /\ L \in Nat /\ failures[p] \in Nat /\ successes[p] \in Nat
  BY <1>0 DEF TypeOK
<1>2. history' = [history EXCEPT ![p] = Append(h, answer)]
  BY DEF Report
<1>3. history'[p] = Append(h, answer) /\ Len(history'[p]) = L + 1
  BY <1>0, <1>1, <1>2 DEF TypeOK
<1>4. /\ history'[p][L + 1] = answer
      /\ \A i \in 1..L : history'[p][i] = h[i]
  BY <1>1, <1>3
<1>5. ASSUME NEW q \in Provider \ {p} PROVE (CountsReports(q) /\ FollowsReports(q))'
  <2>1. history'[q] = history[q]
    BY <1>0, <1>2 DEF TypeOK
  <2>2. breaker'[q] = breaker[q]
    BY ReportEffect
  <2>3. failures'[q] = failures[q] /\ successes'[q] = successes[q]
    BY <1>0 DEF TypeOK, Report, ReportUp, ReportDown
  <2> QED BY <2>1, <2>2, <2>3 DEF ReportsInv, CountsReports, FollowsReports
<1>6. /\ successes[p] = Successes(h, L)
      /\ k \in 0..L
      /\ \A i \in k + 1..L : h[i] = "down"
      /\ k > 0 => h[k] = "up"
      /\ breaker[p] \in {"open", "half-open"} <=> Tripped(h)
  BY DEF ReportsInv, CountsReports, FollowsReports
<1>7. Successes(history'[p], L + 1) = successes[p] + (IF answer = "up" THEN 1 ELSE 0)
  BY <1>1, <1>3, <1>6, SuccessesAppend
<1>8. ASSUME answer = "up" PROVE (CountsReports(p) /\ FollowsReports(p))'
  <2>1. ReportUp(p)
    BY <1>8 DEF Report
  <2>2. successes'[p] = successes[p] + 1 /\ failures'[p] = 0
    BY <1>0, <2>1 DEF TypeOK, ReportUp
  <2>3. CountsReports(p)'
    <3>1. Len(history'[p]) - failures'[p] = L + 1
      BY <1>1, <1>3, <2>2
    <3>2. L + 1 \in 0..L + 1 /\ (L + 1) + 1..L + 1 = {}
      BY <1>1
    <3> QED BY <1>3, <1>4, <1>7, <1>8, <2>2, <3>1, <3>2 DEF CountsReports
  <2>4. Tripped(history'[p]) <=> Tripped(h) /\ successes'[p] < HealthyThreshold
    BY <1>1, <1>3, <1>6, <1>8, <2>2, TrippedUp
  <2>5. CASE successes'[p] >= HealthyThreshold
    <3>1. ~Tripped(history'[p])
      BY <1>1, <2>2, <2>4, <2>5, HealthConfigAssumption
    <3>2. TransitionTo(p, "closed")
      BY <1>1, <2>1, <2>2, <2>5, HealthConfigAssumption DEF ReportUp
    <3>3. breaker'[p] = "closed"
      BY <1>0, <3>2 DEF TypeOK, TransitionTo
    <3> QED BY <2>3, <3>1, <3>3 DEF FollowsReports
  <2>6. CASE successes'[p] < HealthyThreshold
    <3>1. breaker' = breaker
      BY <1>1, <2>1, <2>2, <2>6, HealthConfigAssumption DEF ReportUp, breakers
    <3> QED BY <1>6, <2>3, <2>4, <2>6, <3>1 DEF FollowsReports
  <2> QED BY <1>1, <2>2, <2>5, <2>6, HealthConfigAssumption
<1>9. ASSUME answer = "down" PROVE (CountsReports(p) /\ FollowsReports(p))'
  <2>1. ReportDown(p)
    BY <1>9 DEF Report
  <2>2. successes'[p] = successes[p] /\ failures'[p] = failures[p] + 1
    BY <1>0, <2>1 DEF TypeOK, ReportDown
  <2>3. CountsReports(p)'
    <3>1. Len(history'[p]) - failures'[p] = k /\ k \in 0..L + 1 /\ k \in 0..L
      BY <1>1, <1>3, <1>6, <2>2
    <3>2. ASSUME NEW i \in k + 1..L + 1 PROVE history'[p][i] = "down"
      <4>1. CASE i = L + 1
        BY <1>4, <1>9, <4>1
      <4>2. CASE i # L + 1
        <5>1. i \in k + 1..L /\ i \in 1..L
          BY <1>1, <3>1, <4>2
        <5> QED BY <1>4, <1>6, <5>1
      <4> QED BY <4>1, <4>2
    <3>3. k > 0 => history'[p][k] = "up"
      BY <1>1, <1>4, <1>6
    <3>4. Successes(history'[p], L + 1) = successes'[p]
      BY <1>1, <1>7, <1>9, <2>2
    <3> QED BY <1>3, <3>1, <3>2, <3>3, <3>4 DEF CountsReports
  <2>4. Tripped(history'[p]) <=> Tripped(h) \/ failures'[p] >= UnhealthyThreshold
    <3>1. Tripped(Append(h, "down")) <=> Tripped(h) \/ L + 1 - k >= UnhealthyThreshold
      BY <1>1, <1>6, TrippedDown
    <3>2. L + 1 - k = failures'[p]
      BY <1>1, <2>2
    <3> QED BY <1>3, <1>9, <3>1, <3>2
  <2>5. CASE failures'[p] >= UnhealthyThreshold
    <3>1. TransitionTo(p, "open")
      BY <1>1, <2>1, <2>2, <2>5, HealthConfigAssumption DEF ReportDown
    <3>2. breaker'[p] = "open"
      BY <1>0, <3>1 DEF TypeOK, TransitionTo
    <3> QED BY <2>3, <2>4, <2>5, <3>2 DEF FollowsReports
  <2>6. CASE failures'[p] < UnhealthyThreshold
    <3>1. breaker' = breaker
      BY <1>1, <2>1, <2>2, <2>6, HealthConfigAssumption DEF ReportDown, breakers
    <3>2. ~(failures'[p] >= UnhealthyThreshold)
      BY <1>1, <2>2, <2>6, HealthConfigAssumption
    <3> QED BY <1>6, <2>3, <2>4, <3>1, <3>2 DEF FollowsReports
  <2> QED BY <1>1, <2>2, <2>5, <2>6, HealthConfigAssumption
<1> QED BY <1>5, <1>8, <1>9 DEF ReportsInv

(* No report at all has tripped nothing.                                    *)
LEMMA NoReports == ~Tripped(<<>>) /\ Successes(<<>>, 0) = 0
<1>1. UnhealthyThreshold..Len(<<>>) = {}
  BY HealthConfigAssumption
<1>2. {i \in 1..0 : <<>>[i] = "up"} = {}
  OBVIOUS
<1> QED BY <1>1, <1>2, FS_EmptySet DEF Tripped, Successes

LEMMA ResetKeepsReports ==
  ASSUME ReportsInv, NEW P \in SUBSET Provider, Reset(P)
  PROVE  ReportsInv'
<1>1. ASSUME NEW q \in P PROVE (CountsReports(q) /\ FollowsReports(q))'
  <2>1. /\ history'[q] = <<>> /\ failures'[q] = 0 /\ successes'[q] = 0
        /\ breaker'[q] = "none"
    BY DEF Reset
  <2> QED BY <2>1, NoReports DEF CountsReports, FollowsReports
<1>2. ASSUME NEW q \in Provider \ P PROVE (CountsReports(q) /\ FollowsReports(q))'
  <2>1. /\ history'[q] = history[q] /\ failures'[q] = failures[q]
        /\ successes'[q] = successes[q] /\ breaker'[q] = breaker[q]
    BY DEF Reset
  <2> QED BY <2>1 DEF ReportsInv, CountsReports, FollowsReports
<1> QED BY <1>1, <1>2 DEF ReportsInv

(* The breaker of a provider is tripped by exactly the reports that should  *)
(* trip it, whatever checks and resets fall between them.                   *)
THEOREM HealthBreakerFollowsReports == Spec => []BreakerFollowsReports
<1>1. Init => ReportsInv
  <2> SUFFICES ASSUME Init, NEW p \in Provider
               PROVE  CountsReports(p) /\ FollowsReports(p)
    BY DEF ReportsInv
  <2>1. history[p] = <<>> /\ failures[p] = 0 /\ successes[p] = 0 /\ breaker[p] = "none"
    BY DEF Init
  <2> QED BY <2>1, NoReports DEF CountsReports, FollowsReports
<1>2. HealthInv /\ ReportsInv /\ [Next]_vars => ReportsInv'
  <2> SUFFICES ASSUME HealthInv, ReportsInv, [Next]_vars PROVE ReportsInv'
    OBVIOUS
  <2>1. ASSUME NEW p \in Provider, NEW answer \in {"up", "down"}, Report(p, answer)
        PROVE  ReportsInv'
    BY <2>1, ReportKeepsReports
  <2>2. ASSUME NEW P \in SUBSET Provider, Reset(P) PROVE ReportsInv'
    BY <2>2, ResetKeepsReports
  <2>3. CASE CheckTransitions
    <3>1. /\ history' = history /\ failures' = failures /\ successes' = successes
          /\ breaker' = [q \in Provider |-> IF q \in Cooled THEN "half-open" ELSE breaker[q]]
      BY <2>3 DEF CheckTransitions, records
    <3>2. \A q \in Provider :
            breaker'[q] \in {"open", "half-open"} <=> breaker[q] \in {"open", "half-open"}
      BY <3>1 DEF Cooled
    <3>3. \A q \in Provider : CountsReports(q)'
      BY <3>1 DEF ReportsInv, CountsReports
    <3>4. \A q \in Provider : FollowsReports(q)'
      BY <3>1, <3>2 DEF ReportsInv, FollowsReports
    <3> QED BY <3>3, <3>4 DEF ReportsInv
  <2>4. CASE Tick
    BY <2>4 DEF Tick, records, breakers, ReportsInv, CountsReports, FollowsReports
  <2>5. CASE UNCHANGED vars
    BY <2>5 DEF vars, records, breakers, ReportsInv, CountsReports, FollowsReports
  <2> QED BY <2>1, <2>2, <2>3, <2>4, <2>5 DEF Next
<1>3. ReportsInv => BreakerFollowsReports
  BY DEF ReportsInv, FollowsReports, BreakerFollowsReports
<1> QED BY <1>1, <1>2, <1>3, HealthInvariant, PTL DEF Spec

=============================================================================
