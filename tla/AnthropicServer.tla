---------------------------- MODULE AnthropicServer ----------------------------
(***************************************************************************)
(* The Anthropic compatibility server:                                     *)
(* src/src/compatibility/anthropic-server.ts with the middleware in front  *)
(* of it (anthropic-middleware.ts) and the parts of anthropic-harden.ts it *)
(* is built from: rate limiter, metrics, stream tracker and graceful       *)
(* shutdown.                                                               *)
(*                                                                         *)
(* From the moment the body of a request is read, its middleware, its      *)
(* checks and the first part of its handler run in one callback; the rest  *)
(* of the handler is one more callback, whose inside AnthropicStream has.  *)
(* Latencies, byte counts and counts by model and version are only shown   *)
(* and left out.  Every request has a trace ID of its own.                 *)
(***************************************************************************)
EXTENDS Integers, FiniteSets

CONSTANTS
  Request,      \* the requests of a behaviour
  Client,       \* the addresses they come from
  From,         \* [Request -> Client]: req.ip
  Streaming,    \* the requests with body.stream === true
  GateMax,      \* AnthropicMiddleware.maxRequests (200)
  MaxRequests,  \* RateLimiter.maxRequests (RATE_LIMIT_MAX)
  Window,       \* windowMs of both, in clock units
  MaxAge,       \* StreamTracker.maxStreamAge, in clock units
  SweepEvery,   \* period of the two clean-up timers, in clock units
  Drain,        \* timeoutMs of the graceful shutdown, in clock units
  MaxTime       \* bound on the clock while the server is up

ASSUME ServerAssumption ==
  /\ IsFiniteSet(Request)
  /\ From \in [Request -> Client]
  /\ Streaming \subseteq Request
  /\ GateMax \in Nat /\ MaxRequests \in Nat
  /\ {Window, MaxAge, SweepEvery, Drain, MaxTime} \subseteq Nat \ {0}

VARIABLES
  phase,      \* where the handling of a request is
  open,       \* the requests whose response nobody has ended
  at,         \* when the request was handed to the middleware, 0 before
  verdict,    \* history: what the checks decided
  gate,       \* AnthropicMiddleware.rateLimitMap
  limiter,    \* RateLimiter.store
  tracked,    \* keys of StreamTracker.activeStreams; createdAt is at
  metrics,    \* MetricsCollector.metrics
  server,     \* what the process is doing
  deadline,   \* when the forced exit is due, 0 before shutdown
  now,        \* Date.now(), counted from 1
  nextSweep   \* when the clean-up timers are due

requests == <<phase, open, at, verdict, tracked>>
limits == <<gate, limiter>>
process == <<server, deadline>>
clock == <<now, nextSweep>>
vars == <<requests, limits, metrics, process, clock>>

Phases == {"new", "reading", "handling", "done"}
Verdicts ==
  {"none", "turned away", "gated", "invalid", "too large", "limited", "accepted", "thrown"}
Servers == {"up", "draining", "closed", "forced"}
Running == server \in {"up", "draining"}

(* A client without an entry: any time is past its resetAt.                 *)
NoEntry == [count |-> 0, resetAt |-> 0]
NoMetrics ==
  [requests |-> 0, active |-> 0, completed |-> 0, failed |-> 0, statuses |-> 0, errors |-> 0]

Init ==
  /\ phase = [r \in Request |-> "new"]
  /\ open = {}
  /\ at = [r \in Request |-> 0]
  /\ verdict = [r \in Request |-> "none"]
  /\ gate = [c \in Client |-> NoEntry]
  /\ limiter = [c \in Client |-> NoEntry]
  /\ tracked = {}
  /\ metrics = NoMetrics
  /\ server = "up"
  /\ deadline = 0
  /\ now = 1
  /\ nextSweep = 1 + SweepEvery

-----------------------------------------------------------------------------
(* The limiters: an entry opens with the first request after the last       *)
(* window, and counts refused requests too.                                 *)

(* Faulty variant: a new window starts with the count of the last one.      *)
OpenedCounting(e) == IF now > e.resetAt THEN [e EXCEPT !.resetAt = now + Window] ELSE e

Opened(e) == IF now > e.resetAt THEN [count |-> 0, resetAt |-> now + Window] ELSE e

Hit(e) == [Opened(e) EXCEPT !.count = @ + 1]

(* The metrics, as functions on the collector's record.                     *)

RecordRequest(m) == [m EXCEPT !.requests = @ + 1]

StreamStart(m) == [m EXCEPT !.active = @ + 1]

StreamEnd(m, success) ==
  LET ended == [m EXCEPT !.active = IF @ > 0 THEN @ - 1 ELSE 0]
  IN IF success THEN [ended EXCEPT !.completed = @ + 1] ELSE [ended EXCEPT !.failed = @ + 1]

RecordStatus(m, code) ==
  [m EXCEPT !.statuses = @ + 1, !.errors = IF code >= 400 THEN @ + 1 ELSE @]

Accepted(m, r) == IF r \in Streaming THEN StreamStart(RecordRequest(m)) ELSE RecordRequest(m)

(* Faulty variant: a stream that failed is not taken off the active ones.   *)
FinalizedIfGood(m, r, code) ==
  IF r \in Streaming /\ code < 400 THEN StreamEnd(RecordStatus(m, code), TRUE)
  ELSE RecordStatus(m, code)

(* Section 6 of the route handler.                                          *)
Finalized(m, r, code) ==
  IF r \in Streaming THEN StreamEnd(RecordStatus(m, code), code < 400) ELSE RecordStatus(m, code)

(* A handler that throws has its status recorded in the catch block and     *)
(* again at the end.                                                        *)
Thrown(m, r) == Finalized(RecordStatus(m, 500), r, 500)

-----------------------------------------------------------------------------
(* A request.                                                               *)

(* A client sends the headers of a request, on a new connection or, after   *)
(* the server has stopped listening, on one that it still has.              *)
Connect(r) ==
  /\ Running /\ phase[r] = "new"
  /\ phase' = [phase EXCEPT ![r] = "reading"]
  /\ open' = open \cup {r}
  /\ UNCHANGED <<at, verdict, tracked, limits, metrics, process, clock>>

(* The body has been read; the request is answered in the same callback.    *)
Answer(r, v) ==
  /\ phase' = [phase EXCEPT ![r] = "done"]
  /\ open' = open \ {r}
  /\ at' = [at EXCEPT ![r] = now]
  /\ verdict' = [verdict EXCEPT ![r] = v]
  /\ UNCHANGED <<tracked, process, clock>>

Arriving(r) == Running /\ phase[r] = "reading" /\ r \in open

(* A version or an API key that the middleware does not take.               *)
TurnAway(r) ==
  /\ Arriving(r)
  /\ Answer(r, "turned away")
  /\ UNCHANGED <<limits, metrics>>

(* The middleware's own limiter says 429, which no metric counts; or it     *)
(* lets the request pass, to a wrong content type or to a body on which     *)
(* validateRequestBody() throws, neither of them counted either.            *)
StopAtGate(r) ==
  LET e == Hit(gate[From[r]])
  IN /\ Arriving(r)
     /\ gate' = [gate EXCEPT ![From[r]] = e]
     /\ Answer(r, IF e.count > GateMax THEN "gated" ELSE "turned away")
     /\ UNCHANGED <<limiter, metrics>>

PassGate(r) ==
  LET e == Hit(gate[From[r]])
  IN Arriving(r) /\ e.count <= GateMax /\ gate' = [gate EXCEPT ![From[r]] = e]

(* Section 1: validateRequestBody() finds errors.                           *)
Invalid(r) ==
  /\ PassGate(r)
  /\ Answer(r, "invalid")
  /\ metrics' = RecordStatus(metrics, 400)
  /\ UNCHANGED limiter

(* Section 2: a body beyond maxBodyBytes is refused without being counted.  *)
TooLarge(r) ==
  /\ PassGate(r)
  /\ limiter' = [limiter EXCEPT ![From[r]] = Opened(@)]
  /\ Answer(r, "too large")
  /\ metrics' = RecordStatus(metrics, 429)

(* Section 2: the client has used up its window.                            *)
Limited(r) ==
  LET e == Hit(limiter[From[r]])
  IN /\ PassGate(r) /\ e.count > MaxRequests
     /\ limiter' = [limiter EXCEPT ![From[r]] = e]
     /\ Answer(r, "limited")
     /\ metrics' = RecordStatus(metrics, 429)

Admitted(r) ==
  LET e == Hit(limiter[From[r]])
  IN PassGate(r) /\ e.count <= MaxRequests /\ limiter' = [limiter EXCEPT ![From[r]] = e]

(* Sections 3 to 6 in one callback: the controller's own validation says    *)
(* 400, or the translation of the request throws.                           *)
AcceptAndEnd(r) ==
  /\ Admitted(r)
  /\ \/ Answer(r, "accepted") /\ metrics' = Finalized(Accepted(metrics, r), r, 400)
     \/ Answer(r, "thrown") /\ metrics' = Thrown(Accepted(metrics, r), r)

(* Sections 3 to 5: the handler waits for an upstream.                      *)
Accept(r) ==
  /\ Admitted(r)
  /\ phase' = [phase EXCEPT ![r] = "handling"]
  /\ at' = [at EXCEPT ![r] = now]
  /\ verdict' = [verdict EXCEPT ![r] = "accepted"]
  /\ metrics' = Accepted(metrics, r)
  /\ tracked' = IF r \in Streaming THEN tracked \cup {r} ELSE tracked
  /\ UNCHANGED <<open, process, clock>>

(* The handler is over: its response ends and section 6 unregisters it.     *)
Conclude(r) ==
  /\ phase' = [phase EXCEPT ![r] = "done"]
  /\ open' = open \ {r}
  /\ tracked' = tracked \ {r}
  /\ UNCHANGED <<at, limits, process, clock>>

(* The handler returns.  A stream has had its status 200 since its          *)
(* preamble, however it ended.                                              *)
Return(r) ==
  /\ Running /\ phase[r] = "handling"
  /\ \E code \in {200, 500} :
       /\ r \in Streaming => code = 200
       /\ metrics' = Finalized(metrics, r, code)
  /\ Conclude(r)
  /\ UNCHANGED verdict

(* The handler of a plain request throws while it formats the response.     *)
Throw(r) ==
  /\ Running /\ phase[r] = "handling" /\ r \notin Streaming
  /\ metrics' = Thrown(metrics, r)
  /\ verdict' = [verdict EXCEPT ![r] = "thrown"]
  /\ Conclude(r)

(* The client goes away; a handler goes on without it.                      *)
ClientCloses(r) ==
  /\ Running /\ r \in open
  /\ phase' = [phase EXCEPT ![r] = IF @ = "reading" THEN "done" ELSE @]
  /\ open' = open \ {r}
  /\ tracked' = tracked \ {r}
  /\ UNCHANGED <<at, verdict, limits, metrics, process, clock>>

-----------------------------------------------------------------------------
(* The process.                                                             *)

(* Faulty variant: a stream's age is compared with its age and a period.    *)
StaleLate == {r \in tracked : now - at[r] > MaxAge + SweepEvery}

Stale == {r \in tracked : now - at[r] > MaxAge}

(* RateLimiter._cleanup().                                                  *)
Swept == [c \in Client |-> IF now > limiter[c].resetAt THEN NoEntry ELSE limiter[c]]

(* Both clean-up timers: they have the same period and the same start.      *)
(* Shutdown stops the limiter's.                                            *)
Sweep ==
  /\ Running /\ now = nextSweep
  /\ limiter' = IF server = "up" THEN Swept ELSE limiter
  /\ open' = open \ Stale
  /\ tracked' = tracked \ Stale
  /\ nextSweep' = now + SweepEvery
  /\ UNCHANGED <<phase, at, verdict, gate, metrics, process, now>>

(* A signal or an uncaught exception: every clean-up handler runs, the      *)
(* server stops listening and the forced exit is scheduled.                 *)
Shutdown ==
  /\ server = "up"
  /\ server' = "draining"
  /\ deadline' = now + Drain
  /\ limiter' = [c \in Client |-> NoEntry]
  /\ open' = open \ tracked
  /\ tracked' = {}
  /\ UNCHANGED <<phase, at, verdict, gate, metrics, clock>>

(* The callback of server.close(): no connection is left, so no response is *)
(* open.                                                                    *)
Close ==
  /\ server = "draining" /\ open = {}
  /\ server' = "closed"
  /\ UNCHANGED <<requests, limits, metrics, deadline, clock>>

(* Faulty variant: the timeout waits for the streams that are left.         *)
ForceExitWhenIdle ==
  /\ server = "draining" /\ now = deadline /\ tracked = {}
  /\ server' = "forced"
  /\ open' = {}
  /\ UNCHANGED <<phase, at, verdict, tracked, limits, metrics, deadline, clock>>

(* process.exit(1) after the timeout.                                       *)
ForceExit ==
  /\ server = "draining" /\ now = deadline
  /\ server' = "forced"
  /\ open' = {}
  /\ UNCHANGED <<phase, at, verdict, tracked, limits, metrics, deadline, clock>>

(* Time passes, but not beyond a timer that is due.                         *)
Tick ==
  /\ \/ server = "up" /\ now < MaxTime
     \/ server = "draining" /\ now < deadline
  /\ now < nextSweep
  /\ now' = now + 1
  /\ UNCHANGED <<requests, limits, metrics, process, nextSweep>>

Serve(r) ==
  \/ Connect(r)
  \/ TurnAway(r) \/ StopAtGate(r)
  \/ Invalid(r) \/ TooLarge(r) \/ Limited(r)
  \/ AcceptAndEnd(r) \/ Accept(r)
  \/ Return(r) \/ Throw(r) \/ ClientCloses(r)

Next == (\E r \in Request : Serve(r)) \/ Sweep \/ Shutdown \/ Close \/ ForceExit \/ Tick

(* Node runs timers that are due, and time passes.  Nothing makes an        *)
(* upstream answer, a client leave or a connection close.                   *)
Fairness == WF_vars(Tick) /\ WF_vars(Sweep) /\ WF_vars(ForceExit)

Spec == Init /\ [][Next]_vars /\ Fairness

-----------------------------------------------------------------------------
(* Properties.                                                              *)

Entries == [count : Nat, resetAt : Nat]
Metrics ==
  [requests : Nat, active : Nat, completed : Nat, failed : Nat, statuses : Nat, errors : Nat]

(* Types; what each verdict and phase goes with; the clock passes no timer. *)
TypeOK ==
  /\ phase \in [Request -> Phases]
  /\ open \subseteq {r \in Request : phase[r] \in {"reading", "handling"}}
  /\ at \in [Request -> 0..now]
  /\ verdict \in [Request -> Verdicts]
  /\ \A r \in Request : phase[r] = "handling" => verdict[r] = "accepted"
  /\ gate \in [Client -> Entries] /\ limiter \in [Client -> Entries]
  /\ tracked \subseteq Request
  /\ metrics \in Metrics
  /\ server \in Servers
  /\ now \in Nat \ {0} /\ nextSweep \in now..(now + SweepEvery)
  /\ deadline \in Nat /\ (server = "draining" => now <= deadline)

Those(V) == {r \in Request : verdict[r] \in V}
Handled(R) == {r \in R : phase[r] = "done"}

(* The numbers of /metrics and /health agree with the requests: a request   *)
(* is counted when it is accepted; a stream is active for as long as its    *)
(* handler runs - whatever the client, the tracker and the shutdown do to   *)
(* its response - and then ends once, as failed when its handler threw or   *)
(* refused it; and every request that got past the middleware has one       *)
(* status on record when it is over, two if its handler threw.              *)
MetricsConserved ==
  LET accepted == Those({"accepted", "thrown"})
      streams == accepted \cap Streaming
      refused == Those({"invalid", "too large", "limited"})
      thrown == Those({"thrown"})
  IN /\ metrics.requests = Cardinality(accepted)
     /\ metrics.active = Cardinality(streams \ Handled(streams))
     /\ metrics.completed + metrics.failed = Cardinality(Handled(streams))
     /\ metrics.failed >= Cardinality(thrown \cap Streaming)
     /\ metrics.statuses = Cardinality(refused \cup Handled(accepted)) + Cardinality(thrown)
     /\ metrics.errors >= Cardinality(refused) + metrics.failed + Cardinality(thrown)

(* While the process runs, the tracker holds exactly the streams whose      *)
(* handler runs and whose response is open, and none of these is older than *)
(* maxStreamAge and one period of the clean-up timer.                       *)
StreamsReaped ==
  Running =>
    /\ tracked = {r \in Streaming : phase[r] = "handling" /\ r \in open}
    /\ \A r \in tracked : now <= at[r] + MaxAge + SweepEvery

(* The two limiters: until the shutdown clears the second one, a client has *)
(* at most twice maxRequests accepted in any span of a window (the end of   *)
(* one and the start of the next); and a 429 is only for a client that made *)
(* as many requests as the limit allows within the last window.             *)
RateLimited ==
  LET During(c, t) == {r \in Request : From[r] = c /\ at[r] \in t..(t + Window) /\ at[r] > 0}
  IN \A c \in Client :
       /\ server = "up" =>
            \A t \in 1..now : Cardinality(During(c, t) \cap Those({"accepted", "thrown"})) <= 2 * MaxRequests
       /\ \A r \in Those({"gated", "limited"}) :
            From[r] = c => Cardinality(During(c, at[r] - Window) \ {r})
                             >= IF verdict[r] = "gated" THEN GateMax ELSE MaxRequests

(* Once a shutdown has begun the process ends, whatever the open responses  *)
(* do.                                                                      *)
ShutdownEnds == (server = "draining") ~> ~Running
=============================================================================
