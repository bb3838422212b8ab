---------------------------- MODULE GatewayPipeline ----------------------------
(***************************************************************************)
(* The pipeline server: src/src/pipline/pipline-server.ts runs every       *)
(* request through the stages of src/src/pipline/stages/ with the engine   *)
(* of pipeline-engine.ts.  Requests are served concurrently and meet in    *)
(* the health tracker only.                                                *)
(*                                                                         *)
(* A stage that touches nothing but its request's context is merged with   *)
(* the next one that does more: stages 2-6 (client, protocol, alias,       *)
(* prompt, combo) fill the context, 8, 9 and 12 configure what nobody      *)
(* reads.  Chain is the provider list of the combo that stage 6 selects.   *)
(***************************************************************************)
EXTENDS StreamingFailover, SequencesExt

CONSTANTS
  Streaming   \* the requests with stream: true

ASSUME PipelineAssumption ==
  /\ Streaming \subseteq Request
  /\ \A r \in Request : Chain[r] # <<>>
  /\ IsFiniteSet(Request) /\ IsFiniteSet(Provider)   \* the counts are summed

VARIABLES
  stage,     \* where the request is
  error,     \* ctx.error: NoError, or what the context's error says
  hasData,   \* whether ctx.responseData is set
  replies,   \* the status of every response sent to the client
  flushed,   \* the requests whose headers were sent without a response
  reported   \* monitoring.windowCounts: successCount and errorCount

pipelineVars == <<stage, error, hasData, replies, flushed, reported>>
vars == <<failoverVars, pipelineVars>>

Stages == {"new", "health", "execution", "formatter", "analytics", "handler",
           "closed", "abandoned"}

NoError == [code |-> "none", retryable |-> FALSE, status |-> 200]
Error(code, retryable, status) ==
  [code |-> code, retryable |-> retryable, status |-> status]

Init ==
  /\ FailoverInit
  /\ stage = [r \in Request |-> "new"]
  /\ error = [r \in Request |-> NoError]
  /\ hasData = [r \in Request |-> FALSE]
  /\ replies = [r \in Request |-> <<>>]
  /\ flushed = {}
  /\ reported = [p \in Provider |-> [success |-> 0, failure |-> 0]]

At(r, s) == stage[r] = s
GoTo(r, s) == stage' = [stage EXCEPT ![r] = s]
Send(r, status) == replies' = [replies EXCEPT ![r] = Append(@, status)]
HeadersSent(r) == replies[r] # <<>> \/ r \in flushed

(* The engine's loop after a stage (lines 75-82): an error that is not      *)
(* retryable leaves the pipeline, anything else goes on to the next stage.  *)
Proceed(r, next) ==
  IF error'[r].code # "none" /\ ~error'[r].retryable
  THEN GoTo(r, "handler") ELSE GoTo(r, next)

-----------------------------------------------------------------------------
(* Stage 1 when the middleware answers the client itself (401, 403 or 429): *)
(* it does not call next(), the stage's promise stays pending and execute() *)
(* never continues.                                                         *)
RejectAuth(r) ==
  /\ At(r, "new")
  /\ GoTo(r, "abandoned")
  /\ \E status \in {401, 429} : Send(r, status)
  /\ UNCHANGED <<failoverVars, error, hasData, flushed, reported>>

(* Stage 3 for a protocol without a parser.                                 *)
RejectProtocol(r) ==
  /\ At(r, "new")
  /\ error' = [error EXCEPT ![r] = Error("UNSUPPORTED_PROTOCOL", FALSE, 400)]
  /\ Proceed(r, "health")
  /\ UNCHANGED <<failoverVars, hasData, replies, flushed, reported>>

(* Stages 1 to 6 otherwise.                                                 *)
Admit(r) ==
  /\ At(r, "new")
  /\ GoTo(r, "health")
  /\ UNCHANGED <<failoverVars, error, hasData, replies, flushed, reported>>

Listed(r) == {Chain[r][i] : i \in DOMAIN Chain[r]}

(* filter(): the members of a list that are wanted, in its order.           *)
Filtered(list, wanted) ==
  FoldLeft(LAMBDA kept, p : IF p \in wanted THEN Append(kept, p) ELSE kept, <<>>, list)

(* Stages 7 to 10: providers below the threshold are dropped from the list. *)
(* If none is left the error is retryable, so the pipeline goes on: stages  *)
(* 10 and 11 return at once, stage 12 flushes the headers of a streaming    *)
(* request, and the request arrives at the analytics.                       *)
CheckHealth(r) ==
  LET healthy == Filtered(Chain[r], {p \in Listed(r) : Tracker!Healthy(p)})
  IN  /\ At(r, "health")
      /\ Tracker!Consult(Listed(r))
      /\ \/ /\ healthy # <<>>
            /\ Start(r, healthy)
            /\ GoTo(r, "execution")
            /\ UNCHANGED <<error, flushed>>
         \/ /\ healthy = <<>>
            /\ error' = [error EXCEPT ![r] = Error("NO_HEALTHY_PROVIDERS", TRUE, 503)]
            /\ GoTo(r, "analytics")
            /\ flushed' = IF r \in Streaming THEN flushed \cup {r} ELSE flushed
            /\ UNCHANGED execVars
      /\ UNCHANGED <<hasData, replies, reported>>

-----------------------------------------------------------------------------
(* _executeSingle(): the agent sends the request again.                     *)
SingleRepeat(r, a) == r \notin Streaming /\ Repeat(r, a) /\ UNCHANGED pipelineVars

(* _executeSingle(), lines 81-98 and 111-115: a refusal ends the request,   *)
(* any other failure tries the next provider; lines 118-125 at the end.     *)
SingleFail(r, a) ==
  /\ r \notin Streaming
  /\ a \in StatusFailures \cup ErrorFailures
  /\ Answers(r, a)
  /\ ~AgentRetriesAfter(r, a)
  /\ Tracker!RecordFailure(Current(r), FailureType(a) = "auth_failure")
  /\ \/ /\ a = "401"
        /\ error' = [error EXCEPT ![r] = Error("AUTH_FAILURE", FALSE, 401)]
        /\ exec' = [exec EXCEPT ![r] = "failed"]
        /\ UNCHANGED <<link, attempts, tries, posts>>
     \/ /\ a # "401"
        /\ Try(r, link[r] + 1, 0)
        /\ error' = IF exec'[r] = "failed"
                    THEN [error EXCEPT ![r] = Error("ALL_PROVIDERS_FAILED", FALSE, 503)]
                    ELSE error
  /\ IF exec'[r] = "failed" THEN Proceed(r, "formatter") ELSE UNCHANGED stage
  /\ UNCHANGED <<content, hasData, replies, flushed, reported>>

(* Lines 100-109: any body of a status below 400 is a success, an           *)
(* unparsable one with empty content.                                       *)
SingleSucceed(r, a) ==
  /\ r \notin Streaming
  /\ a \in Bodies
  /\ Answers(r, a)
  /\ Tracker!RecordSuccess(Current(r), 0)
  /\ exec' = [exec EXCEPT ![r] = "done"]
  /\ content' = [content EXCEPT ![r] = IF a = "complete" THEN Deltas(Chunks) ELSE <<>>]
  /\ hasData' = [hasData EXCEPT ![r] = TRUE]
  /\ GoTo(r, "formatter")
  /\ UNCHANGED <<link, attempts, tries, posts, error, replies, flushed, reported>>

(* _executeStream(): onDone() and onError(), lines 145-173, when the        *)
(* handler ends.  Partial content is kept beside the error.                 *)
StreamSettle(r) ==
  /\ r \in Streaming
  /\ Settle(r)
  /\ \/ /\ exec'[r] \in {"calling", "hung"}
        /\ UNCHANGED <<stage, error, hasData>>
     \/ /\ exec'[r] = "done"
        /\ hasData' = [hasData EXCEPT ![r] = TRUE]
        /\ UNCHANGED error
        /\ GoTo(r, "formatter")
     \/ /\ exec'[r] = "failed"
        /\ hasData' = [hasData EXCEPT ![r] = content'[r] # <<>>]
        /\ error' = [error EXCEPT ![r] = Error("STREAM_FAILOVER_EXHAUSTED", FALSE, 502)]
        /\ Proceed(r, "formatter")
  /\ UNCHANGED <<replies, flushed, reported>>

SingleHang(r) == r \notin Streaming /\ Hang(r) /\ UNCHANGED pipelineVars

-----------------------------------------------------------------------------
(* Stages 11 and 12: the response is written and ended.                     *)
FormatResponse(r) ==
  /\ At(r, "formatter")
  /\ hasData[r] /\ error[r].code = "none"
  /\ Send(r, 200)
  /\ GoTo(r, "analytics")
  /\ UNCHANGED <<failoverVars, error, hasData, flushed, reported>>

(* Stage 13: the outcome is recorded against the first provider of the      *)
(* list, whichever provider served the request.  monitoring.report() then   *)
(* counts it and always throws: updateDailyStats() (monitoring-db.ts:94-125) *)
(* passes 18 values to a statement with 17 parameters.  The engine turns    *)
(* the exception into an error of its own and stops, before stage 14.       *)
Analyze(r, latency) ==
  LET first == IF chain[r] = <<>> THEN Chain[r][1] ELSE chain[r][1]
  IN  /\ At(r, "analytics")
      /\ \/ /\ error[r].code = "none"
            /\ Tracker!RecordSuccess(first, latency)
            /\ reported' = [reported EXCEPT ![first].success = @ + 1]
         \/ /\ error[r].code # "none"
            /\ Tracker!RecordFailure(first, error[r].status = 401)
            /\ reported' = [reported EXCEPT ![first].failure = @ + 1]
      /\ error' = [error EXCEPT ![r] = Error("STAGE_ERROR", FALSE, 500)]
      /\ Proceed(r, "handler")
      /\ UNCHANGED <<execVars, hasData, replies, flushed>>

(* Faulty variant: the handler does not ask whether headers were sent.      *)
RespondAlways(r) ==
  /\ At(r, "handler")
  /\ IF error[r].code # "none" THEN Send(r, error[r].status) ELSE UNCHANGED replies
  /\ GoTo(r, "closed")
  /\ UNCHANGED <<failoverVars, error, hasData, flushed, reported>>

(* Faulty variant: a request with partial content is taken for answered.    *)
RespondWithoutData(r) ==
  /\ At(r, "handler")
  /\ IF error[r].code # "none" /\ ~HeadersSent(r) /\ ~hasData[r]
     THEN Send(r, error[r].status) ELSE UNCHANGED replies
  /\ GoTo(r, "closed")
  /\ UNCHANGED <<failoverVars, error, hasData, flushed, reported>>

(* The route handler after execute(), lines 134-169: an error is sent       *)
(* unless the response has begun.                                           *)
Respond(r) ==
  /\ At(r, "handler")
  /\ \/ /\ error[r].code # "none" /\ ~HeadersSent(r)
        /\ Send(r, error[r].status)
     \/ /\ error[r].code = "none" \/ HeadersSent(r)
        /\ UNCHANGED replies
  /\ GoTo(r, "closed")
  /\ UNCHANGED <<failoverVars, error, hasData, flushed, reported>>

-----------------------------------------------------------------------------
(* A request's own progress.                                                *)
Advance(r) ==
  \/ CheckHealth(r)
  \/ \E a \in Answer : SingleRepeat(r, a) \/ SingleFail(r, a) \/ SingleSucceed(r, a)
  \/ "cut" \in Answer /\ SingleHang(r)
  \/ StreamSettle(r)
  \/ FormatResponse(r)
  \/ \E latency \in Latency : Analyze(r, latency)
  \/ Respond(r)

Arrive(r) == RejectAuth(r) \/ RejectProtocol(r) \/ Admit(r)

Next == \E r \in Request : Arrive(r) \/ Advance(r)

(* Node runs every callback that is ready, and upstream calls settle.       *)
Spec == Init /\ [][Next]_vars /\ \A r \in Request : WF_vars(Advance(r))

-----------------------------------------------------------------------------
TypeOK ==
  /\ ExecTypeOK
  /\ stage \in [Request -> Stages]
  /\ \A r \in Request :
       /\ error[r].status \in {200, 400, 401, 500, 502, 503}
       /\ (exec[r] \in {"calling", "hung"}) <=> At(r, "execution")
       /\ hasData[r] => exec[r] \in {"done", "failed"}
  /\ replies \in [Request -> Seq(Nat)]

(* The client of a request never gets two responses, although the           *)
(* middleware, the formatter stage and the route handler each send one and  *)
(* the analytics stage fails after the formatter has sent.                  *)
AnsweredAtMostOnce == \A r \in Request : Len(replies[r]) <= 1

(* A client told 200 got an answer that a provider finished, with all its   *)
(* deltas at the end of the text, except that a non-streaming request takes *)
(* any body.                                                                *)
SuccessIsFinished ==
  \A r \in Streaming : 200 \in {replies[r][k] : k \in 1..Len(replies[r])} =>
    /\ \E k \in 1..Len(answers[r]) : answers[r][k][2] = "complete"
    /\ Len(content[r]) >= Chunks
    /\ SubSeq(content[r], Len(content[r]) - Chunks + 1, Len(content[r])) = Deltas(Chunks)

(* The posts of a call that have not been answered.                         *)
Pending(r) == IF exec[r] \in {"calling", "hung"} THEN 1 ELSE 0

(* Each upstream answer that reached a stage and each request that reached  *)
(* the analytics is recorded once, and the monitoring counts the latter.    *)
AnalyticsCounted ==
  LET settled == SumFunction([r \in Request |-> posts[r] - Pending(r)])
      analysed == SumFunction([p \in Provider |-> reported[p].success + reported[p].failure])
  IN  SumFunction([p \in Provider |-> record[p].total]) = settled + analysed

(* Every request that arrives is answered.  Only two things can leave it    *)
(* waiting: a connection lost in the middle of a body, and headers that     *)
(* stage 12 flushes for a response which nobody then writes.                *)
EveryRequestAnswered ==
  \A r \in Request : stage[r] # "new" ~> replies[r] # <<>> \/ r \in flushed \/ exec[r] = "hung"

-----------------------------------------------------------------------------
=============================================================================
