--------------------------- MODULE StreamingFailover ---------------------------
(***************************************************************************)
(* src/src/services/streaming-failover.ts: execute() sends one streaming   *)
(* request down a chain of providers, through the retrying HTTP client of  *)
(* src/src/performance/http-agent.ts, and reports every outcome to the     *)
(* health tracker.  Several requests are served concurrently; they share   *)
(* nothing but the tracker.                                                *)
(*                                                                         *)
(* The code awaits only answers and backoff timers, and between two awaits *)
(* it reads and writes locals and the tracker, so one action runs from an  *)
(* upstream answer to the next upstream call; a backoff is part of the     *)
(* wait for that call's answer.                                            *)
(***************************************************************************)
EXTENDS Integers, Sequences

CONSTANTS
  Request,              \* calls of execute()
  Provider,
  Chain,                \* the provider chain of each call
  MaxFailoverAttempts,  \* config.maxFailoverAttempts
  AgentRetries,         \* maxRetries of the HttpAgent
  Chunks,               \* text deltas in a complete answer
  Answer,               \* what upstream may answer
  Latency, LatencyCap, LatencyWindow, RecentWindow, RecentCap, StreakCap

(* HTTP error statuses (404 stands for every unmapped one), error codes,    *)
(* and status 200 with a body that ends normally, ends too early, or is     *)
(* empty; "cut" is a body whose connection is lost.                         *)
StatusFailures == {"401", "429", "500", "502", "503", "504", "404"}
ErrorFailures == {"ETIMEDOUT", "ECONNRESET"}
Bodies == {"complete", "truncated", "empty"}

ASSUME FailoverAssumption ==
  /\ Answer \subseteq StatusFailures \cup ErrorFailures \cup Bodies \cup {"cut"}
  /\ Chain \in [Request -> Seq(Provider)]
  /\ MaxFailoverAttempts \in Nat \ {0}
  /\ AgentRetries \in Nat /\ Chunks \in Nat \ {0}

VARIABLES
  tracked, record, latencies, recentFailures,  \* the health tracker
  exec,      \* "idle", "calling", "done" (onDone was called), "failed" (onError)
             \* or "hung" (waiting for an answer that never settles)
  chain,     \* providerChain
  link,      \* i + 1: the chain entry being tried
  attempts,  \* attemptCount
  tries,     \* attempt, in HttpAgent.request()
  content,   \* fullContent, as the numbers of its deltas
  posts,     \* history: calls of httpAgent.post()
  answers    \* history: <<provider, answer>> of every upstream call

Tracker == INSTANCE ProviderHealthTracker

trackerVars == <<tracked, record, latencies, recentFailures>>
execVars == <<exec, chain, link, attempts, tries, content, posts, answers>>
failoverVars == <<trackerVars, execVars>>

ExecInit ==
  /\ exec = [r \in Request |-> "idle"]
  /\ chain = [r \in Request |-> <<>>]
  /\ link = [r \in Request |-> 0]
  /\ attempts = [r \in Request |-> 0]
  /\ tries = [r \in Request |-> 0]
  /\ content = [r \in Request |-> <<>>]
  /\ posts = [r \in Request |-> 0]
  /\ answers = [r \in Request |-> <<>>]

FailoverInit == Tracker!TrackerInit /\ ExecInit

-----------------------------------------------------------------------------
(* STATUS_TO_FAILURE and ERROR_CODE_TO_FAILURE.                             *)
FailureType(a) ==
  CASE a = "401"                 -> "auth_failure"
    [] a = "429"                 -> "rate_limited"
    [] a = "500"                 -> "server_error"
    [] a = "502"                 -> "bad_gateway"
    [] a = "503"                 -> "unavailable"
    [] a \in {"504", "ETIMEDOUT"} -> "timeout"
    [] a = "ECONNRESET"          -> "network_error"
    [] OTHER                     -> "unknown"

(* Faulty variant: a refused provider is asked again.                       *)
FailureActionRetryingAuth ==
  [rate_limited  |-> "skip_provider",    bad_gateway   |-> "retry_once",
   unavailable   |-> "retry_different",  timeout       |-> "next_provider",
   auth_failure  |-> "retry_once",       network_error |-> "retry_another",
   server_error  |-> "retry_with_backoff", unknown     |-> "retry_different"]

(* FAILURE_TO_ACTION.                                                       *)
FailureAction ==
  [rate_limited  |-> "skip_provider",    bad_gateway   |-> "retry_once",
   unavailable   |-> "retry_different",  timeout       |-> "next_provider",
   auth_failure  |-> "disable_provider", network_error |-> "retry_another",
   server_error  |-> "retry_with_backoff", unknown     |-> "retry_different"]

ActionFor(a) == FailureAction[FailureType(a)]

(* HttpAgent.request(), lines 110-128: whether the agent sends the request  *)
(* again instead of delivering the answer to its caller.                    *)
AgentRetriesAfter(r, a) ==
  /\ tries[r] < AgentRetries
  /\ a = "429" \/ a \in ErrorFailures \ {"ETIMEDOUT"}

(* Faulty variant: the end of the loop calls nobody back.                   *)
TrySilently(r, i, n) ==
  /\ link' = [link EXCEPT ![r] = i]
  /\ attempts' = [attempts EXCEPT ![r] = n]
  /\ tries' = [tries EXCEPT ![r] = 0]
  /\ IF i <= Len(chain'[r]) /\ n < MaxFailoverAttempts
     THEN /\ exec' = [exec EXCEPT ![r] = "calling"]
          /\ posts' = [posts EXCEPT ![r] = @ + 1]
     ELSE exec' = [exec EXCEPT ![r] = "returned"] /\ UNCHANGED posts

(* The for statement, line 106: httpAgent.post() to the next link, or the   *)
(* end of the loop and onError().                                           *)
Try(r, i, n) ==
  /\ link' = [link EXCEPT ![r] = i]
  /\ attempts' = [attempts EXCEPT ![r] = n]
  /\ tries' = [tries EXCEPT ![r] = 0]
  /\ \/ /\ i <= Len(chain'[r]) /\ n < MaxFailoverAttempts
        /\ exec' = [exec EXCEPT ![r] = "calling"]
        /\ posts' = [posts EXCEPT ![r] = @ + 1]
     \/ /\ ~(i <= Len(chain'[r]) /\ n < MaxFailoverAttempts)
        /\ exec' = [exec EXCEPT ![r] = "failed"]
        /\ UNCHANGED posts

Start(r, c) ==
  /\ exec[r] = "idle"
  /\ chain' = [chain EXCEPT ![r] = c]
  /\ Try(r, 1, 0)
  /\ UNCHANGED <<content, answers>>

Current(r) == chain[r][link[r]]
Answers(r, a) ==
  /\ exec[r] = "calling"
  /\ answers' = [answers EXCEPT ![r] = Append(@, <<Current(r), a>>)]
  /\ UNCHANGED chain

(* The agent repeats the request.                                           *)
Repeat(r, a) ==
  /\ Answers(r, a)
  /\ AgentRetriesAfter(r, a)
  /\ tries' = [tries EXCEPT ![r] = @ + 1]
  /\ UNCHANGED <<trackerVars, exec, link, attempts, content, posts>>

(* Faulty variant: retrying the same link does not use up an attempt.       *)
FailForFree(r, a) ==
  /\ a \in StatusFailures \cup ErrorFailures
  /\ Answers(r, a)
  /\ ~AgentRetriesAfter(r, a)
  /\ Tracker!RecordFailure(Current(r), FailureType(a) = "auth_failure")
  /\ IF ActionFor(a) \in {"retry_once", "retry_with_backoff"}
     THEN Try(r, link[r], attempts[r])
     ELSE Try(r, link[r] + 1, attempts[r])
  /\ UNCHANGED content

(* Faulty variant: the tracker hears only of the failures that move on.     *)
FailUnrecorded(r, a) ==
  /\ a \in StatusFailures \cup ErrorFailures
  /\ Answers(r, a)
  /\ ~AgentRetriesAfter(r, a)
  /\ IF ActionFor(a) \in {"retry_once", "retry_with_backoff"}
     THEN UNCHANGED trackerVars /\ Try(r, link[r], attempts[r] + 1)
     ELSE /\ Tracker!RecordFailure(Current(r), FailureType(a) = "auth_failure")
          /\ Try(r, link[r] + 1, attempts[r])
  /\ UNCHANGED content

(* Lines 135-193 for a status, 271-316 for an error: the failure is         *)
(* recorded; a 500 or 502 sends the same link again and counts as an        *)
(* attempt, everything else moves on to the next link.                      *)
Fail(r, a) ==
  /\ a \in StatusFailures \cup ErrorFailures
  /\ Answers(r, a)
  /\ ~AgentRetriesAfter(r, a)
  /\ Tracker!RecordFailure(Current(r), FailureType(a) = "auth_failure")
  /\ \/ /\ ActionFor(a) \in {"retry_once", "retry_with_backoff"}
        /\ Try(r, link[r], attempts[r] + 1)
     \/ /\ ActionFor(a) \notin {"retry_once", "retry_with_backoff"}
        /\ Try(r, link[r] + 1, attempts[r])
  /\ UNCHANGED content

(* The deltas of an answer that breaks off after n of them.                 *)
Deltas(n) == [k \in 1..n |-> k]

(* Lines 196-232: a body with [DONE] or a finish reason ends the call.      *)
Finish(r, latency) ==
  /\ Answers(r, "complete")
  /\ Tracker!RecordSuccess(Current(r), latency)
  /\ content' = [content EXCEPT ![r] = @ \o Deltas(Chunks)]
  /\ exec' = [exec EXCEPT ![r] = "done"]
  /\ UNCHANGED <<link, attempts, tries, posts>>

(* Faulty variant: a stream that broke off counts as finished.              *)
BreakOffFinished(r, a, n, latency) ==
  /\ a \in {"truncated", "empty"}
  /\ Answers(r, a)
  /\ Tracker!RecordSuccess(Current(r), latency)
  /\ content' = [content EXCEPT ![r] = @ \o Deltas(n)]
  /\ exec' = [exec EXCEPT ![r] = "done"]
  /\ UNCHANGED <<link, attempts, tries, posts>>

(* Lines 196-269: the success is recorded before the body is read; a body   *)
(* that breaks off, or an empty one, moves on, keeping what was delivered.  *)
BreakOff(r, a, n, latency) ==
  /\ a \in {"truncated", "empty"}
  /\ a = "empty" => n = 0
  /\ Answers(r, a)
  /\ Tracker!RecordSuccess(Current(r), latency)
  /\ content' = [content EXCEPT ![r] = @ \o Deltas(n)]
  /\ Try(r, link[r] + 1, attempts[r])

(* The connection is lost after the response headers.  doRequest() listens  *)
(* for neither 'aborted' nor 'error' of the response, and Node emits        *)
(* neither 'end' nor an error of the request: the await never settles.      *)
Hang(r) ==
  /\ Answers(r, "cut")
  /\ exec' = [exec EXCEPT ![r] = "hung"]
  /\ UNCHANGED <<trackerVars, link, attempts, tries, content, posts>>

Settle(r) ==
  \/ \E a \in Answer : Repeat(r, a) \/ Fail(r, a)
  \/ "cut" \in Answer /\ Hang(r)
  \/ \E latency \in Latency :
       \/ "complete" \in Answer /\ Finish(r, latency)
       \/ \E a \in Answer, n \in 0..Chunks : BreakOff(r, a, n, latency)

FailoverNext ==
  \E r \in Request :
    \/ Start(r, Chain[r]) /\ UNCHANGED trackerVars
    \/ Settle(r)

(* Something comes of every upstream call: the agent's timeout ends one     *)
(* that stays silent.                                                       *)
FailoverSpec ==
  /\ FailoverInit /\ [][FailoverNext]_failoverVars
  /\ \A r \in Request : WF_failoverVars(Settle(r))

-----------------------------------------------------------------------------
ExecTypeOK ==
  /\ exec \in [Request -> {"idle", "calling", "done", "failed", "hung"}]
  /\ chain \in [Request -> Seq(Provider)]
  /\ link \in [Request -> Nat]
  /\ attempts \in [Request -> 0..MaxFailoverAttempts]
  /\ tries \in [Request -> 0..AgentRetries]
  /\ content \in [Request -> Seq(1..Chunks)]
  /\ posts \in [Request -> Nat]
  /\ \A r \in Request :
       /\ exec[r] = "calling" => link[r] \in 1..Len(chain[r])
       /\ exec[r] = "idle" => posts[r] = 0 /\ link[r] = 0

(* A call of execute() makes few posts although the loop may step back: the *)
(* bound is met with equality.                                              *)
PostsBounded ==
  \A r \in Request : exec[r] # "idle" => posts[r] <= Len(chain[r]) + MaxFailoverAttempts - 1

(* The agent below multiplies them by no more than its own retries.         *)
RetriesBounded == \A r \in Request : Len(answers[r]) <= posts[r] * (AgentRetries + 1)

(* A request causes few upstream calls, whatever mixture of answers the two *)
(* layers of retries meet.                                                  *)
UpstreamCallsBounded == PostsBounded /\ RetriesBounded

(* A provider that refused the gateway's credentials is not asked again by  *)
(* the request that found out, not even by the agent's retries.             *)
NoCallAfterRefusal ==
  [][\A r \in Request : Len(answers'[r]) > Len(answers[r]) =>
       \A k \in 1..Len(answers[r]) :
         answers[r][k][2] = "401" => answers[r][k][1] # Current(r)]_failoverVars

(* Every call ends, with onDone() or onError(), however often the loop      *)
(* steps back; a connection that is lost in the middle of a body is the     *)
(* only thing that can keep it waiting for ever.                            *)
FailoverEnds ==
  \A r \in Request : exec[r] = "calling" ~> exec[r] \in {"done", "failed", "hung"}

=============================================================================
