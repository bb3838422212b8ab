------------------------------ MODULE SecurityGate ------------------------------
(***************************************************************************)
(* What every engine server puts before its routes: the middleware of      *)
(* SecurityIntegration, which asks the rate limiter about the address of   *)
(* the client and, when it is let in, the credentials.  The limiter keeps  *)
(* the times of the requests it let in, and a block for an address that    *)
(* had too many; a timer throws away what has grown old.                   *)
(*                                                                         *)
(* Time is a clock that ticks; 0 in blocked stands for a missing entry, an *)
(* empty window for a missing or an empty one.                             *)
(***************************************************************************)
EXTENDS Integers, Sequences, FiniteSets

CONSTANTS
    Client,         \* the addresses
    WindowMs,       \* how long a request is counted
    MaxRequests,    \* how many are let in within that time
    BlockDuration,  \* how long an address with too many stays blocked
    Second,         \* the unit in which Retry-After is rounded up
    CleanEvery,     \* the period of the clean-up timer
    MaxTime         \* bound of the clock

ASSUME GateAssumption ==
    /\ {WindowMs, MaxRequests, BlockDuration, Second, CleanEvery, MaxTime} \subseteq Nat \ {0}
    /\ BlockDuration > WindowMs

VARIABLES
    now,      \* Date.now()
    window,   \* for every address the times of the requests let in
    blocked,  \* for every address the end of its block
    cleanAt,  \* when the clean-up timer fires next
    served,   \* history: every request let in since the process started
    told      \* history: when a refused address was told to come back

gate == <<window, blocked, served, told>>
gateVars == <<now, cleanAt, gate>>

GateInit ==
    /\ window = [ip \in Client |-> <<>>]
    /\ blocked = [ip \in Client |-> 0]
    /\ served = [ip \in Client |-> <<>>]
    /\ told = [ip \in Client |-> 0]
    /\ cleanAt = now + CleanEvery

(* A process that starts anew has forgotten every address.                  *)
GateForgets ==
    /\ window' = [ip \in Client |-> <<>>]
    /\ blocked' = [ip \in Client |-> 0]
    /\ served' = [ip \in Client |-> <<>>]
    /\ told' = [ip \in Client |-> 0]
    /\ cleanAt' = now + CleanEvery

-----------------------------------------------------------------------------

(* How many times at the head of a window are before the cutoff.            *)
Expired(times, cutoff) ==
    CHOOSE n \in 0..Len(times) :
        /\ \A i \in 1..n : times[i] < cutoff
        /\ n < Len(times) => times[n + 1] >= cutoff

(* Faulty variant: a request is forgotten the moment it is windowMs old.    *)
RecentOpen(ip) ==
    SubSeq(window[ip], Expired(window[ip], now - WindowMs + 1) + 1, Len(window[ip]))

(* The window once they have been shifted out.                              *)
Recent(ip) == SubSeq(window[ip], Expired(window[ip], now - WindowMs) + 1, Len(window[ip]))

Blocked(ip) == now < blocked[ip]

Full(ip) == Len(Recent(ip)) >= MaxRequests

(* The answer 429 for so long, which Retry-After gives in whole seconds.    *)
ComeBackAfter(ip, wait) ==
    told' = [told EXCEPT ![ip] = now + Second * ((wait + Second - 1) \div Second)]

(* Faulty variant: a refused request starts the block anew.                 *)
RefuseBlockedAnew(ip) ==
    /\ Blocked(ip)
    /\ ComeBackAfter(ip, blocked[ip] - now)
    /\ blocked' = [blocked EXCEPT ![ip] = now + BlockDuration]
    /\ UNCHANGED <<window, served>>

(* An address that is blocked.                                              *)
RefuseBlocked(ip) ==
    /\ Blocked(ip)
    /\ ComeBackAfter(ip, blocked[ip] - now)
    /\ UNCHANGED <<window, blocked, served>>

(* One request too many blocks the address.                                 *)
RefuseFull(ip) ==
    /\ ~Blocked(ip)
    /\ Full(ip)
    /\ window' = [window EXCEPT ![ip] = Recent(ip)]
    /\ blocked' = [blocked EXCEPT ![ip] = now + BlockDuration]
    /\ ComeBackAfter(ip, BlockDuration)
    /\ UNCHANGED served

Refuse(ip) == RefuseBlocked(ip) \/ RefuseFull(ip)

LetIn(ip) ==
    /\ ~Blocked(ip)
    /\ ~Full(ip)
    /\ window' = [window EXCEPT ![ip] = Append(Recent(ip), now)]
    /\ blocked' = [blocked EXCEPT ![ip] = 0]
    /\ served' = [served EXCEPT ![ip] = Append(@, now)]
    /\ told' = [told EXCEPT ![ip] = 0]

(* The timer of the limiter.                                                *)
Clean ==
    /\ now = cleanAt
    /\ cleanAt' = now + CleanEvery
    /\ window' = [ip \in Client |-> Recent(ip)]
    /\ blocked' = [ip \in Client |-> IF Blocked(ip) THEN blocked[ip] ELSE 0]
    /\ UNCHANGED <<now, served, told>>

Tick ==
    /\ now < MaxTime
    /\ now < cleanAt
    /\ now' = now + 1
    /\ UNCHANGED <<cleanAt, gate>>

-----------------------------------------------------------------------------

(* Within no stretch of time as long as the window are more requests of an  *)
(* address let in than the limit, whenever the timer cleans and however     *)
(* blocks begin and end in between.                                         *)
RateKept ==
    \A ip \in Client : \A i \in DOMAIN served[ip] :
        Cardinality({j \in 1..i : served[ip][j] >= served[ip][i] - WindowMs}) <= MaxRequests

(* A client that comes back when Retry-After told it to is let in, however  *)
(* often it asked in between.                                               *)
RetryHonoured ==
    \A ip \in Client : told[ip] # 0 /\ now >= told[ip] => ~Blocked(ip) /\ ~Full(ip)

=============================================================================
