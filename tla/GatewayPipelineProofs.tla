------------------------- MODULE GatewayPipelineProofs -------------------------
(***************************************************************************)
(* First the proofs about execute() by itself, for every set of requests   *)
(* and providers, every chain, every limit and every kind of answer: it    *)
(* ends with no more upstream requests than the chain's length and the     *)
(* limit on attempts allow together, although its loop steps back to retry *)
(* a provider.  The argument is one equation: while a call is waited for,  *)
(* the posts made so far are link + attempts, because every post but the   *)
(* first follows a step to the next link or a counted attempt.             *)
(*                                                                         *)
(* Then the proofs about the pipeline: no client is answered twice, and a  *)
(* streaming request that is told 200 has been finished by a provider.     *)
(* Both follow from where a request is: before the formatter nobody has    *)
(* answered it, and a streaming request gets to the formatter only after a *)
(* provider has finished, since the errors of its stage are not retryable. *)
(* The tracker counts what the stages settle and what the analytics see,   *)
(* once each.                                                              *)
(***************************************************************************)
EXTENDS GatewayPipeline, FoldLemmas

Execs == {"idle", "calling", "done", "failed", "hung"}
Waiting == {"calling", "done", "hung"}

(* The types of what execute() keeps, by request.                           *)
Typed ==
  /\ exec \in [Request -> Execs]
  /\ chain \in [Request -> Seq(Provider)]
  /\ link \in [Request -> Nat]
  /\ attempts \in [Request -> 0..MaxFailoverAttempts]
  /\ tries \in [Request -> 0..AgentRetries]
  /\ content \in [Request -> Seq(1..Chunks)]
  /\ posts \in [Request -> Nat]

(* The posts of one request, by what its call of execute() is doing.        *)
Counted(r) ==
  /\ exec[r] = "idle" => posts[r] = 0 /\ link[r] = 0
  /\ exec[r] \in Waiting =>
       /\ link[r] \in 1..Len(chain[r])
       /\ attempts[r] < MaxFailoverAttempts
       /\ posts[r] = link[r] + attempts[r]
  /\ exec[r] = "failed" => posts[r] <= Len(chain[r]) + MaxFailoverAttempts - 1

Counting == \A r \in Request : Counted(r)

FailoverInv == Typed /\ Counting

(* What a step on behalf of r leaves alone.                                 *)
OthersKept(r) ==
  \A q \in Request \ {r} :
    /\ exec'[q] = exec[q] /\ chain'[q] = chain[q] /\ link'[q] = link[q]
    /\ attempts'[q] = attempts[q] /\ posts'[q] = posts[q]

(* What the step of r itself has to establish.                              *)
Kept(r) == Typed' /\ OthersKept(r) /\ Counted(r)'

LEMMA StepSuffices ==
  ASSUME FailoverInv, NEW r \in Request, Kept(r)
  PROVE  FailoverInv'
<1>1. \A q \in Request \ {r} : Counted(q)'
  BY DEF FailoverInv, Counting, Counted, Kept, OthersKept
<1>2. Counted(r)'
  BY DEF Kept
<1>3. Counting'
  BY <1>1, <1>2 DEF Counting
<1> QED BY <1>3 DEF FailoverInv, Kept

(* The for statement: a post if the loop goes on, onError() if not.  m is   *)
(* the number of posts that link and attempts account for.                  *)
LEMMA TryKeeps ==
  ASSUME FailoverAssumption, Typed, NEW r \in Request,
         NEW i \in Nat, NEW n \in 0..MaxFailoverAttempts,
         chain' \in [Request -> Seq(Provider)],
         content' \in [Request -> Seq(1..Chunks)],
         \A q \in Request \ {r} : chain'[q] = chain[q],
         Try(r, i, n),
         i >= 1, posts[r] = i + n - 1,
         i <= Len(chain'[r]) + 1,
         i <= Len(chain'[r]) \/ n < MaxFailoverAttempts
  PROVE  Kept(r)
<1>1. /\ MaxFailoverAttempts \in Nat /\ MaxFailoverAttempts >= 1
      /\ AgentRetries \in Nat /\ Len(chain'[r]) \in Nat
  BY DEF FailoverAssumption
<1>2. /\ link' = [link EXCEPT ![r] = i]
      /\ attempts' = [attempts EXCEPT ![r] = n]
      /\ tries' = [tries EXCEPT ![r] = 0]
  BY DEF Try
<1>3. /\ link' \in [Request -> Nat] /\ link'[r] = i
      /\ attempts' \in [Request -> 0..MaxFailoverAttempts] /\ attempts'[r] = n
      /\ tries' \in [Request -> 0..AgentRetries]
      /\ \A q \in Request \ {r} : link'[q] = link[q] /\ attempts'[q] = attempts[q]
  BY <1>1, <1>2 DEF Typed
<1>4. CASE i <= Len(chain'[r]) /\ n < MaxFailoverAttempts
  <2>1. exec' = [exec EXCEPT ![r] = "calling"] /\ posts' = [posts EXCEPT ![r] = @ + 1]
    BY <1>4 DEF Try
  <2>2. /\ exec' \in [Request -> Execs] /\ exec'[r] = "calling"
        /\ posts' \in [Request -> Nat] /\ posts'[r] = posts[r] + 1
        /\ \A q \in Request \ {r} : exec'[q] = exec[q] /\ posts'[q] = posts[q]
    BY <2>1 DEF Typed, Execs
  <2>3. posts'[r] = i + n
    BY <2>2, <1>1
  <2>4. Counted(r)'
    BY <1>1, <1>3, <1>4, <2>2, <2>3 DEF Counted, Waiting
  <2> QED BY <1>3, <2>2, <2>4 DEF Kept, Typed, OthersKept
<1>5. CASE ~(i <= Len(chain'[r]) /\ n < MaxFailoverAttempts)
  <2>1. exec' = [exec EXCEPT ![r] = "failed"] /\ posts' = posts
    BY <1>5 DEF Try
  <2>2. /\ exec' \in [Request -> Execs] /\ exec'[r] = "failed"
        /\ posts' \in [Request -> Nat] /\ posts'[r] = posts[r]
        /\ \A q \in Request \ {r} : exec'[q] = exec[q] /\ posts'[q] = posts[q]
    BY <2>1 DEF Typed, Execs
  <2>3. posts[r] <= Len(chain'[r]) + MaxFailoverAttempts - 1
    BY <1>1
  <2>4. Counted(r)'
    BY <2>2, <2>3 DEF Counted, Waiting
  <2> QED BY <1>3, <2>2, <2>4 DEF Kept, Typed, OthersKept
<1> QED BY <1>4, <1>5

LEMMA StartKeeps ==
  ASSUME FailoverAssumption, FailoverInv, NEW r \in Request, Start(r, Chain[r])
  PROVE  Kept(r)
<1>1. MaxFailoverAttempts \in Nat \ {0} /\ Chain[r] \in Seq(Provider)
  BY DEF FailoverAssumption
<1>2. posts[r] = 0 /\ Try(r, 1, 0) /\ content' = content
      /\ chain' = [chain EXCEPT ![r] = Chain[r]]
  BY DEF Start, FailoverInv, Counting, Counted
<1>3. /\ chain' \in [Request -> Seq(Provider)] /\ chain'[r] = Chain[r]
      /\ \A q \in Request \ {r} : chain'[q] = chain[q]
      /\ content' \in [Request -> Seq(1..Chunks)]
  BY <1>1, <1>2 DEF FailoverInv, Typed
<1>4. Len(chain'[r]) \in Nat
  BY <1>3
<1>5. /\ 1 \in Nat /\ 0 \in 0..MaxFailoverAttempts /\ posts[r] = 1 + 0 - 1
      /\ 1 <= Len(chain'[r]) + 1 /\ 0 < MaxFailoverAttempts
  BY <1>1, <1>2, <1>4
<1> QED BY <1>2, <1>3, <1>5, TryKeeps DEF FailoverInv

(* A call that is waited for, in the terms of TryKeeps.                     *)
LEMMA CallingFacts ==
  ASSUME FailoverAssumption, FailoverInv, NEW r \in Request, exec[r] = "calling"
  PROVE  /\ MaxFailoverAttempts \in Nat \ {0}
         /\ link[r] \in Nat /\ link[r] >= 1 /\ link[r] <= Len(chain[r])
         /\ Len(chain[r]) \in Nat
         /\ attempts[r] \in Nat /\ attempts[r] < MaxFailoverAttempts
         /\ posts[r] = link[r] + attempts[r]
<1>1. exec[r] \in Waiting
  BY DEF Waiting
<1>2. Counted(r) /\ Typed
  BY DEF FailoverInv, Counting
<1>3. chain[r] \in Seq(Provider) /\ MaxFailoverAttempts \in Nat \ {0}
  BY <1>2 DEF Typed, FailoverAssumption
<1>4. Len(chain[r]) \in Nat /\ attempts[r] \in 0..MaxFailoverAttempts
  BY <1>2, <1>3 DEF Typed
<1> QED BY <1>1, <1>2, <1>3, <1>4 DEF Counted

LEMMA NextLink ==
  ASSUME NEW l \in Nat, NEW n \in Nat
  PROVE  l + n = (l + 1) + n - 1
OBVIOUS

LEMMA FailKeeps ==
  ASSUME FailoverAssumption, FailoverInv, NEW r \in Request, NEW a \in Answer, Fail(r, a)
  PROVE  Kept(r)
<1>1. exec[r] = "calling" /\ chain' = chain /\ content' = content
  BY DEF Fail, Answers
<1>2. /\ Typed /\ chain' \in [Request -> Seq(Provider)]
      /\ content' \in [Request -> Seq(1..Chunks)]
      /\ \A q \in Request \ {r} : chain'[q] = chain[q]
  BY <1>1 DEF FailoverInv, Typed
<1>3. /\ MaxFailoverAttempts \in Nat \ {0}
      /\ link[r] \in Nat /\ link[r] >= 1 /\ link[r] <= Len(chain[r])
      /\ Len(chain[r]) \in Nat
      /\ attempts[r] \in Nat /\ attempts[r] < MaxFailoverAttempts
      /\ posts[r] = link[r] + attempts[r]
  BY <1>1, CallingFacts
<1>4. CASE Try(r, link[r], attempts[r] + 1)
  <2>1. /\ attempts[r] + 1 \in 0..MaxFailoverAttempts
        /\ posts[r] = link[r] + (attempts[r] + 1) - 1
        /\ link[r] <= Len(chain'[r]) /\ link[r] <= Len(chain'[r]) + 1
    BY <1>1, <1>3
  <2> QED BY <1>2, <1>3, <1>4, <2>1, TryKeeps
<1>5. CASE Try(r, link[r] + 1, attempts[r])
  <2>1. link[r] + 1 \in Nat /\ link[r] + 1 >= 1 /\ attempts[r] \in 0..MaxFailoverAttempts
    BY <1>3
  <2>2. posts[r] = (link[r] + 1) + attempts[r] - 1
    <3>1. link[r] + attempts[r] = (link[r] + 1) + attempts[r] - 1
      BY <1>3, NextLink
    <3> QED BY <3>1, <1>3
  <2>3. link[r] + 1 <= Len(chain'[r]) + 1
    BY <1>1, <1>3
  <2> QED BY <1>2, <1>3, <1>5, <2>1, <2>2, <2>3, TryKeeps
<1> QED BY <1>4, <1>5 DEF Fail

LEMMA DeltasType ==
  ASSUME FailoverAssumption, NEW n \in 0..Chunks
  PROVE  Deltas(n) \in Seq(1..Chunks)
<1>1. Chunks \in Nat /\ n \in Nat
  BY DEF FailoverAssumption
<1>2. Deltas(n) \in [1..n -> 1..Chunks]
  BY <1>1 DEF Deltas
<1> QED BY <1>1, <1>2

LEMMA BreakOffKeeps ==
  ASSUME FailoverAssumption, FailoverInv, NEW r \in Request, NEW a \in Answer,
         NEW n \in 0..Chunks, NEW latency \in Latency, BreakOff(r, a, n, latency)
  PROVE  Kept(r)
<1>1. exec[r] = "calling" /\ chain' = chain /\ Try(r, link[r] + 1, attempts[r])
      /\ content' = [content EXCEPT ![r] = @ \o Deltas(n)]
  BY DEF BreakOff, Answers
<1>2. Typed
  BY DEF FailoverInv
<1>3. content[r] \o Deltas(n) \in Seq(1..Chunks)
  BY <1>2, DeltasType DEF Typed
<1>4. /\ content' \in [Request -> Seq(1..Chunks)]
      /\ chain' \in [Request -> Seq(Provider)]
      /\ \A q \in Request \ {r} : chain'[q] = chain[q]
  BY <1>1, <1>2, <1>3 DEF Typed
<1>5. /\ MaxFailoverAttempts \in Nat \ {0}
      /\ link[r] \in Nat /\ link[r] >= 1 /\ link[r] <= Len(chain[r])
      /\ Len(chain[r]) \in Nat
      /\ attempts[r] \in Nat /\ attempts[r] < MaxFailoverAttempts
      /\ posts[r] = link[r] + attempts[r]
  BY <1>1, CallingFacts
<1>6. link[r] + 1 \in Nat /\ link[r] + 1 >= 1 /\ attempts[r] \in 0..MaxFailoverAttempts
  BY <1>5
<1>7. posts[r] = (link[r] + 1) + attempts[r] - 1
  <2>1. link[r] + attempts[r] = (link[r] + 1) + attempts[r] - 1
    BY <1>5, NextLink
  <2> QED BY <2>1, <1>5
<1>8. link[r] + 1 <= Len(chain'[r]) + 1
  BY <1>1, <1>5
<1> QED BY <1>1, <1>2, <1>4, <1>5, <1>6, <1>7, <1>8, TryKeeps

LEMMA RepeatKeeps ==
  ASSUME FailoverAssumption, FailoverInv, NEW r \in Request, NEW a \in Answer, Repeat(r, a)
  PROVE  Kept(r)
<1>1. /\ chain' = chain /\ exec' = exec /\ link' = link /\ attempts' = attempts
      /\ content' = content /\ posts' = posts
      /\ tries' = [tries EXCEPT ![r] = @ + 1] /\ tries[r] < AgentRetries
  BY DEF Repeat, Answers, AgentRetriesAfter
<1>2. Typed /\ Counted(r) /\ AgentRetries \in Nat
  BY DEF FailoverInv, Counting, FailoverAssumption
<1>3. tries[r] + 1 \in 0..AgentRetries
  BY <1>1, <1>2 DEF Typed
<1>4. tries' \in [Request -> 0..AgentRetries]
  BY <1>1, <1>2, <1>3 DEF Typed
<1>5. Typed'
  BY <1>1, <1>2, <1>4 DEF Typed
<1>6. OthersKept(r) /\ Counted(r)'
  BY <1>1, <1>2 DEF OthersKept, Counted
<1> QED BY <1>5, <1>6 DEF Kept

(* A call that ends, well or not at all, without another post.              *)
LEMMA SettledKeeps ==
  ASSUME FailoverAssumption, FailoverInv, NEW r \in Request, exec[r] = "calling",
         NEW e \in {"done", "hung"}, exec' = [exec EXCEPT ![r] = e],
         chain' = chain, link' = link, attempts' = attempts, tries' = tries,
         posts' = posts, content' \in [Request -> Seq(1..Chunks)]
  PROVE  Kept(r)
<1>1. Typed /\ Counted(r)
  BY DEF FailoverInv, Counting
<1>2. exec' \in [Request -> Execs] /\ exec'[r] = e
      /\ \A q \in Request \ {r} : exec'[q] = exec[q]
  BY <1>1 DEF Typed, Execs
<1>3. Counted(r)'
  BY <1>1, <1>2 DEF Counted, Waiting
<1> QED BY <1>1, <1>2, <1>3 DEF Kept, Typed, OthersKept

LEMMA SettleKeeps ==
  ASSUME FailoverAssumption, FailoverInv, NEW r \in Request, Settle(r)
  PROVE  Kept(r)
<1>1. ASSUME NEW a \in Answer, Repeat(r, a) PROVE Kept(r)
  BY <1>1, RepeatKeeps
<1>2. ASSUME NEW a \in Answer, Fail(r, a) PROVE Kept(r)
  BY <1>2, FailKeeps
<1>3. CASE Hang(r)
  <2>1. /\ exec[r] = "calling" /\ exec' = [exec EXCEPT ![r] = "hung"] /\ chain' = chain
        /\ link' = link /\ attempts' = attempts /\ tries' = tries /\ posts' = posts
        /\ content' = content
    BY <1>3 DEF Hang, Answers
  <2>2. content' \in [Request -> Seq(1..Chunks)]
    BY <2>1 DEF FailoverInv, Typed
  <2> QED BY <2>1, <2>2, SettledKeeps
<1>4. ASSUME NEW latency \in Latency, Finish(r, latency) PROVE Kept(r)
  <2>1. /\ exec[r] = "calling" /\ exec' = [exec EXCEPT ![r] = "done"] /\ chain' = chain
        /\ link' = link /\ attempts' = attempts /\ tries' = tries /\ posts' = posts
        /\ content' = [content EXCEPT ![r] = @ \o Deltas(Chunks)]
    BY <1>4 DEF Finish, Answers
  <2>2. content[r] \o Deltas(Chunks) \in Seq(1..Chunks)
    <3>1. Chunks \in 0..Chunks
      BY DEF FailoverAssumption
    <3>2. Deltas(Chunks) \in Seq(1..Chunks)
      BY <3>1, DeltasType
    <3> QED BY <3>2 DEF FailoverInv, Typed
  <2>3. content' \in [Request -> Seq(1..Chunks)]
    BY <2>1, <2>2 DEF FailoverInv, Typed
  <2> QED BY <2>1, <2>3, SettledKeeps
<1>5. ASSUME NEW latency \in Latency, NEW a \in Answer, NEW n \in 0..Chunks,
             BreakOff(r, a, n, latency)
      PROVE  Kept(r)
  BY <1>5, BreakOffKeeps
<1> QED BY <1>1, <1>2, <1>3, <1>4, <1>5 DEF Settle

-----------------------------------------------------------------------------
(* The invariant holds for every choice of the constants.                   *)
THEOREM FailoverInvariant == FailoverSpec => []FailoverInv
<1> USE FailoverAssumption
<1>1. FailoverInit => FailoverInv
  <2> SUFFICES ASSUME FailoverInit PROVE FailoverInv
    OBVIOUS
  <2>1. MaxFailoverAttempts \in Nat /\ AgentRetries \in Nat
    BY DEF FailoverAssumption
  <2>2. Typed
    BY <2>1 DEF FailoverInit, ExecInit, Typed, Execs
  <2>3. Counting
    BY DEF FailoverInit, ExecInit, Counting, Counted, Waiting
  <2> QED BY <2>2, <2>3 DEF FailoverInv
<1>2. FailoverInv /\ [FailoverNext]_failoverVars => FailoverInv'
  <2> SUFFICES ASSUME FailoverInv, [FailoverNext]_failoverVars PROVE FailoverInv'
    OBVIOUS
  <2>1. ASSUME NEW r \in Request, Start(r, Chain[r]) PROVE FailoverInv'
    BY <2>1, StartKeeps, StepSuffices
  <2>2. ASSUME NEW r \in Request, Settle(r) PROVE FailoverInv'
    BY <2>2, SettleKeeps, StepSuffices
  <2>3. CASE UNCHANGED failoverVars
    BY <2>3 DEF failoverVars, execVars, FailoverInv, Typed, Counting, Counted
  <2> QED BY <2>1, <2>2, <2>3 DEF FailoverNext
<1> QED BY <1>1, <1>2, PTL DEF FailoverSpec

(* What execute() keeps has its types: no link beyond the chain is called   *)
(* and no attempt is counted beyond the limit.                              *)
THEOREM FailoverTypeOK == FailoverSpec => []ExecTypeOK
<1>1. FailoverInv => ExecTypeOK
  BY DEF FailoverInv, Typed, Counting, Counted, ExecTypeOK, Execs, Waiting
<1> QED BY <1>1, FailoverInvariant, PTL

(* execute() makes at most Len(chain) + maxFailoverAttempts - 1 posts.      *)
THEOREM FailoverPostsBounded == FailoverSpec => []PostsBounded
<1>1. FailoverInv => PostsBounded
  <2> SUFFICES ASSUME FailoverInv, NEW r \in Request, exec[r] # "idle"
               PROVE  posts[r] <= Len(chain[r]) + MaxFailoverAttempts - 1
    BY DEF PostsBounded
  <2>1. Typed /\ Counted(r)
    BY DEF FailoverInv, Counting
  <2>2. chain[r] \in Seq(Provider) /\ attempts[r] \in 0..MaxFailoverAttempts
        /\ exec[r] \in Execs /\ MaxFailoverAttempts \in Nat
    BY <2>1, FailoverAssumption DEF Typed, FailoverAssumption
  <2>3. Len(chain[r]) \in Nat
    BY <2>2
  <2> QED BY <2>1, <2>2, <2>3 DEF Counted, Waiting, Execs
<1> QED BY <1>1, FailoverInvariant, PTL

-----------------------------------------------------------------------------
(* The upstream calls of one request: every finished post has used at most  *)
(* all retries of the agent, the pending one as many as it has counted.     *)
CallsOK(r) ==
  /\ exec[r] = "calling" =>
       Len(answers[r]) <= (posts[r] - 1) * (AgentRetries + 1) + tries[r]
  /\ exec[r] # "calling" => Len(answers[r]) <= posts[r] * (AgentRetries + 1)

CallsInv ==
  /\ answers \in [Request -> Seq(Provider \X Answer)]
  /\ \A r \in Request : CallsOK(r)

LEMMA Budget ==
  ASSUME NEW n \in Nat, n >= 1, NEW k \in Nat, NEW t \in Nat, t <= k
  PROVE  /\ (n - 1) * (k + 1) + t + 1 <= n * (k + 1)
         /\ (n + 1 - 1) * (k + 1) + 0 = n * (k + 1)
<1>1. (n - 1) * (k + 1) = n * (k + 1) - (k + 1)
  OBVIOUS
<1>2. n * (k + 1) \in Int
  OBVIOUS
<1>3. n + 1 - 1 = n
  OBVIOUS
<1> QED BY <1>1, <1>2, <1>3

(* An upstream answer uses up one call of the budget, in one of three ways. *)
LEMMA AnswerKeepsCalls ==
  ASSUME FailoverAssumption, FailoverInv, CallsInv, NEW r \in Request, NEW a \in Answer,
         Answers(r, a),
         \A q \in Request \ {r} :
           exec'[q] = exec[q] /\ posts'[q] = posts[q] /\ tries'[q] = tries[q],
         \/ exec'[r] = "calling" /\ posts'[r] = posts[r] /\ tries'[r] = tries[r] + 1
         \/ exec'[r] = "calling" /\ posts'[r] = posts[r] + 1 /\ tries'[r] = 0
         \/ exec'[r] # "calling" /\ posts'[r] = posts[r]
  PROVE  CallsInv'
<1>1. exec[r] = "calling" /\ answers' = [answers EXCEPT ![r] = Append(@, <<Current(r), a>>)]
  BY DEF Answers
<1>2. /\ link[r] \in Nat /\ link[r] >= 1 /\ link[r] <= Len(chain[r])
      /\ attempts[r] \in Nat /\ posts[r] = link[r] + attempts[r]
  BY <1>1, CallingFacts
<1>3. /\ posts[r] \in Nat /\ posts[r] >= 1
      /\ AgentRetries \in Nat /\ tries[r] \in Nat /\ tries[r] <= AgentRetries
      /\ chain[r] \in Seq(Provider)
  BY <1>2 DEF FailoverInv, Typed, FailoverAssumption
<1>4. Current(r) \in Provider
  BY <1>2, <1>3 DEF Current
<1>5. answers[r] \in Seq(Provider \X Answer) /\ <<Current(r), a>> \in Provider \X Answer
  BY <1>4 DEF CallsInv
<1>6. /\ Append(answers[r], <<Current(r), a>>) \in Seq(Provider \X Answer)
      /\ Len(Append(answers[r], <<Current(r), a>>)) = Len(answers[r]) + 1
      /\ Len(answers[r]) \in Nat
  BY <1>5
<1>7. /\ answers' \in [Request -> Seq(Provider \X Answer)]
      /\ Len(answers'[r]) = Len(answers[r]) + 1
      /\ \A q \in Request \ {r} : answers'[q] = answers[q]
  BY <1>1, <1>6 DEF CallsInv
<1>8. \A q \in Request \ {r} : CallsOK(q)'
  BY <1>7 DEF CallsInv, CallsOK
<1>9. CallsOK(r)'
  <2> DEFINE m == (posts[r] - 1) * (AgentRetries + 1)
             n == posts[r] * (AgentRetries + 1)
             l == Len(answers[r])
  <2>1. l <= m + tries[r]
    BY <1>1 DEF CallsInv, CallsOK
  <2>2. m + tries[r] + 1 <= n /\ (posts[r] + 1 - 1) * (AgentRetries + 1) + 0 = n
    BY <1>3, Budget
  <2>3. m \in Int /\ n \in Int /\ l \in Int
    BY <1>3, <1>6
  <2>4. l + 1 <= n /\ l + 1 <= m + (tries[r] + 1)
    <3> HIDE DEF m, n, l
    <3> QED BY <1>3, <2>1, <2>2, <2>3
  <2>5. CASE exec'[r] = "calling" /\ posts'[r] = posts[r] /\ tries'[r] = tries[r] + 1
    <3>1. (posts'[r] - 1) * (AgentRetries + 1) + tries'[r] = m + (tries[r] + 1)
      BY ONLY <2>5
    <3>2. Len(answers'[r]) <= (posts'[r] - 1) * (AgentRetries + 1) + tries'[r]
      <4> HIDE DEF m, n
      <4> QED BY ONLY <1>7, <2>4, <3>1
    <3> QED BY ONLY <2>5, <3>2 DEF CallsOK
  <2>6. CASE exec'[r] = "calling" /\ posts'[r] = posts[r] + 1 /\ tries'[r] = 0
    <3>1. (posts'[r] - 1) * (AgentRetries + 1) + tries'[r] = n
      <4>1. posts'[r] - 1 = posts[r] + 1 - 1 /\ tries'[r] = 0
        BY ONLY <1>3, <2>6
      <4> QED BY ONLY <1>3, <4>1, <2>2
    <3>2. Len(answers'[r]) <= (posts'[r] - 1) * (AgentRetries + 1) + tries'[r]
      <4> HIDE DEF m, n
      <4> QED BY ONLY <1>7, <2>4, <3>1
    <3> QED BY ONLY <2>6, <3>2 DEF CallsOK
  <2>7. CASE exec'[r] # "calling" /\ posts'[r] = posts[r]
    BY <1>7, <2>4, <2>7 DEF CallsOK
  <2> QED BY <2>5, <2>6, <2>7
<1> QED BY <1>7, <1>8, <1>9 DEF CallsInv

(* The for statement in the terms of that lemma.                            *)
LEMMA TryCounts ==
  ASSUME Typed, NEW r \in Request, NEW i, NEW n, Try(r, i, n)
  PROVE  /\ \A q \in Request \ {r} :
              exec'[q] = exec[q] /\ posts'[q] = posts[q] /\ tries'[q] = tries[q]
         /\ \/ exec'[r] = "calling" /\ posts'[r] = posts[r] + 1 /\ tries'[r] = 0
            \/ exec'[r] = "failed" /\ posts'[r] = posts[r]
BY DEF Try, Typed

LEMMA SettleKeepsCalls ==
  ASSUME FailoverAssumption, FailoverInv, CallsInv, NEW r \in Request, Settle(r)
  PROVE  CallsInv'
<1>0. Typed
  BY DEF FailoverInv
<1>1. ASSUME NEW a \in Answer, Repeat(r, a) PROVE CallsInv'
  <2>1. /\ Answers(r, a) /\ exec' = exec /\ posts' = posts
        /\ tries' = [tries EXCEPT ![r] = @ + 1]
    BY <1>1 DEF Repeat
  <2>2. /\ \A q \in Request \ {r} :
             exec'[q] = exec[q] /\ posts'[q] = posts[q] /\ tries'[q] = tries[q]
        /\ exec'[r] = "calling" /\ posts'[r] = posts[r] /\ tries'[r] = tries[r] + 1
    BY <1>0, <2>1 DEF Typed, Answers
  <2> QED BY <2>1, <2>2, AnswerKeepsCalls
<1>2. ASSUME NEW a \in Answer, Fail(r, a) PROVE CallsInv'
  <2>1. Answers(r, a) /\ \E i, n : Try(r, i, n)
    BY <1>2 DEF Fail
  <2>2. PICK i, n : Try(r, i, n)
    BY <2>1
  <2> QED BY <1>0, <2>1, <2>2, TryCounts, AnswerKeepsCalls
<1>3. CASE "cut" \in Answer /\ Hang(r)
  <2>1. /\ Answers(r, "cut") /\ exec' = [exec EXCEPT ![r] = "hung"]
        /\ posts' = posts /\ tries' = tries
    BY <1>3 DEF Hang
  <2>2. /\ \A q \in Request \ {r} :
             exec'[q] = exec[q] /\ posts'[q] = posts[q] /\ tries'[q] = tries[q]
        /\ exec'[r] # "calling" /\ posts'[r] = posts[r]
    BY <1>0, <2>1 DEF Typed
  <2> QED BY <1>3, <2>1, <2>2, AnswerKeepsCalls
<1>4. ASSUME NEW latency \in Latency, "complete" \in Answer, Finish(r, latency)
      PROVE  CallsInv'
  <2>1. /\ Answers(r, "complete") /\ exec' = [exec EXCEPT ![r] = "done"]
        /\ posts' = posts /\ tries' = tries
    BY <1>4 DEF Finish
  <2>2. /\ \A q \in Request \ {r} :
             exec'[q] = exec[q] /\ posts'[q] = posts[q] /\ tries'[q] = tries[q]
        /\ exec'[r] # "calling" /\ posts'[r] = posts[r]
    BY <1>0, <2>1 DEF Typed
  <2> QED BY <1>4, <2>1, <2>2, AnswerKeepsCalls
<1>5. ASSUME NEW latency \in Latency, NEW a \in Answer, NEW n \in 0..Chunks,
             BreakOff(r, a, n, latency)
      PROVE  CallsInv'
  <2>1. Answers(r, a) /\ Try(r, link[r] + 1, attempts[r])
    BY <1>5 DEF BreakOff
  <2> QED BY <1>0, <2>1, TryCounts, AnswerKeepsCalls
<1> QED BY <1>1, <1>2, <1>3, <1>4, <1>5 DEF Settle

LEMMA StartKeepsCalls ==
  ASSUME FailoverAssumption, FailoverInv, CallsInv, NEW r \in Request, Start(r, Chain[r])
  PROVE  CallsInv'
<1>1. /\ exec[r] = "idle" /\ answers' = answers /\ Try(r, 1, 0) /\ posts[r] = 0
      /\ AgentRetries \in Nat
  BY DEF Start, FailoverInv, Counting, Counted, FailoverAssumption
<1>2. /\ \A q \in Request \ {r} :
           exec'[q] = exec[q] /\ posts'[q] = posts[q] /\ tries'[q] = tries[q]
      /\ \/ exec'[r] = "calling" /\ posts'[r] = 1 /\ tries'[r] = 0
         \/ exec'[r] = "failed" /\ posts'[r] = 0
  BY <1>1, TryCounts DEF FailoverInv
<1>3. Len(answers[r]) <= 0
  <2>1. Len(answers[r]) <= posts[r] * (AgentRetries + 1)
    BY <1>1 DEF CallsInv, CallsOK
  <2>2. posts[r] * (AgentRetries + 1) = 0
    BY <1>1
  <2> QED BY <2>1, <2>2
<1>4. CallsOK(r)'
  <2>1. (1 - 1) * (AgentRetries + 1) + 0 = 0 /\ 0 * (AgentRetries + 1) = 0
    BY <1>1
  <2> QED BY <1>1, <1>2, <1>3, <2>1 DEF CallsOK
<1>5. \A q \in Request \ {r} : CallsOK(q)'
  BY <1>1, <1>2 DEF CallsInv, CallsOK
<1> QED BY <1>1, <1>4, <1>5 DEF CallsInv

(* A request causes no more upstream calls than its posts times one more    *)
(* than the agent's retries, whatever mixture of answers they meet.         *)
THEOREM FailoverRetriesBounded == FailoverSpec => []RetriesBounded
<1> USE FailoverAssumption
<1>1. FailoverInit => CallsInv
  BY DEF FailoverInit, ExecInit, CallsInv, CallsOK, FailoverAssumption
<1>2. FailoverInv /\ CallsInv /\ [FailoverNext]_failoverVars => CallsInv'
  <2> SUFFICES ASSUME FailoverInv, CallsInv, [FailoverNext]_failoverVars PROVE CallsInv'
    OBVIOUS
  <2>1. ASSUME NEW r \in Request, Start(r, Chain[r]) PROVE CallsInv'
    BY <2>1, StartKeepsCalls
  <2>2. ASSUME NEW r \in Request, Settle(r) PROVE CallsInv'
    BY <2>2, SettleKeepsCalls
  <2>3. CASE UNCHANGED failoverVars
    BY <2>3 DEF failoverVars, execVars, CallsInv, CallsOK
  <2> QED BY <2>1, <2>2, <2>3 DEF FailoverNext
<1>3. FailoverInv /\ CallsInv => RetriesBounded
  <2> SUFFICES ASSUME FailoverInv, CallsInv, NEW r \in Request
               PROVE  Len(answers[r]) <= posts[r] * (AgentRetries + 1)
    BY DEF RetriesBounded
  <2>1. CASE exec[r] = "calling"
    <3> DEFINE m == (posts[r] - 1) * (AgentRetries + 1)
               n == posts[r] * (AgentRetries + 1)
               l == Len(answers[r])
    <3>1. link[r] \in Nat /\ link[r] >= 1 /\ attempts[r] \in Nat
          /\ posts[r] = link[r] + attempts[r]
      BY <2>1, CallingFacts
    <3>2. /\ posts[r] \in Nat /\ posts[r] >= 1
          /\ AgentRetries \in Nat /\ tries[r] \in Nat /\ tries[r] <= AgentRetries
          /\ answers[r] \in Seq(Provider \X Answer)
      BY <3>1 DEF FailoverInv, Typed, FailoverAssumption, CallsInv
    <3>3. l <= m + tries[r]
      BY <2>1 DEF CallsInv, CallsOK
    <3>4. m + tries[r] + 1 <= n
      BY <3>2, Budget
    <3>5. m \in Int /\ n \in Int /\ l \in Int
      BY <3>2
    <3>6. l <= n
      <4> HIDE DEF m, n, l
      <4> QED BY <3>2, <3>3, <3>4, <3>5
    <3> QED BY <3>6
  <2>2. CASE exec[r] # "calling"
    BY <2>2 DEF CallsInv, CallsOK
  <2> QED BY <2>1, <2>2
<1> QED BY <1>1, <1>2, <1>3, FailoverInvariant, PTL DEF FailoverSpec

(* A request causes few upstream calls for every chain, every limit and     *)
(* every number of retries.                                                 *)
THEOREM FailoverUpstreamCallsBounded == FailoverSpec => []UpstreamCallsBounded
<1>1. PostsBounded /\ RetriesBounded => UpstreamCallsBounded
  BY DEF UpstreamCallsBounded
<1> QED BY <1>1, FailoverPostsBounded, FailoverRetriesBounded, PTL

-----------------------------------------------------------------------------
(* A chain names no provider twice: what NoCallAfterRefusal rests on.       *)
ChainsDistinct ==
  \A r \in Request : \A i, j \in 1..Len(Chain[r]) : i # j => Chain[r][i] # Chain[r][j]

(* The kth answer of r did not refuse, or came from a link behind r.        *)
Behind(r, k) ==
  answers[r][k][2] = "401" =>
    \E i \in 1..Len(chain[r]) : i < link[r] /\ chain[r][i] = answers[r][k][1]

LeftBehind(r) ==
  /\ exec[r] = "idle" => answers[r] = <<>>
  /\ exec[r] # "idle" => chain[r] = Chain[r]
  /\ \A k \in 1..Len(answers[r]) : Behind(r, k)

RefusalInv ==
  /\ answers \in [Request -> Seq(Provider \X Answer)]
  /\ \A r \in Request : LeftBehind(r)

(* A step of r that nobody else notices, with an answer in it.  The loop    *)
(* never turns back, and after a refusal it goes on.                        *)
Answered(r, a) ==
  /\ a \in Answer /\ Answers(r, a)
  /\ exec'[r] # "idle"
  /\ link'[r] \in Nat /\ link'[r] >= link[r]
  /\ a = "401" => link'[r] = link[r] + 1
  /\ \A q \in Request \ {r} : exec'[q] = exec[q] /\ link'[q] = link[q]

LEMMA TryMoves ==
  ASSUME Typed, NEW r \in Request, NEW i, NEW n, Try(r, i, n)
  PROVE  /\ exec'[r] # "idle" /\ link'[r] = i
         /\ \A q \in Request \ {r} : exec'[q] = exec[q] /\ link'[q] = link[q]
BY DEF Try, Typed

LEMMA SettleAnswers ==
  ASSUME FailoverAssumption, FailoverInv, NEW r \in Request, Settle(r)
  PROVE  \E a \in Answer : Answered(r, a)
<1>0. Typed /\ link[r] \in Nat
  BY DEF FailoverInv, Typed
<1>1. ASSUME NEW a \in Answer, Repeat(r, a) PROVE Answered(r, a)
  <2>1. Answers(r, a) /\ exec' = exec /\ link' = link /\ a # "401" /\ exec[r] = "calling"
    BY <1>1 DEF Repeat, Answers, AgentRetriesAfter, ErrorFailures
  <2> QED BY <1>0, <2>1 DEF Answered
<1>2. ASSUME NEW a \in Answer, Fail(r, a) PROVE Answered(r, a)
  <2>1. Answers(r, a)
    BY <1>2 DEF Fail
  <2>2. CASE /\ ActionFor(a) \in {"retry_once", "retry_with_backoff"}
             /\ Try(r, link[r], attempts[r] + 1)
    <3>1. a # "401"
      BY <2>2 DEF ActionFor, FailureAction, FailureType
    <3> QED BY <1>0, <2>1, <2>2, <3>1, TryMoves DEF Answered
  <2>3. CASE Try(r, link[r] + 1, attempts[r])
    BY <1>0, <2>1, <2>3, TryMoves DEF Answered
  <2> QED BY <1>2, <2>2, <2>3 DEF Fail
<1>3. CASE "cut" \in Answer /\ Hang(r)
  <2>1. Answers(r, "cut") /\ exec' = [exec EXCEPT ![r] = "hung"] /\ link' = link
    BY <1>3 DEF Hang
  <2>2. Answered(r, "cut")
    BY <1>0, <1>3, <2>1 DEF Answered, Typed
  <2> QED BY <1>3, <2>2
<1>4. ASSUME NEW latency \in Latency, "complete" \in Answer, Finish(r, latency)
      PROVE  Answered(r, "complete")
  <2>1. Answers(r, "complete") /\ exec' = [exec EXCEPT ![r] = "done"] /\ link' = link
    BY <1>4 DEF Finish
  <2> QED BY <1>0, <1>4, <2>1 DEF Answered, Typed
<1>5. ASSUME NEW latency \in Latency, NEW a \in Answer, NEW n \in 0..Chunks,
             BreakOff(r, a, n, latency)
      PROVE  Answered(r, a)
  <2>1. Answers(r, a) /\ Try(r, link[r] + 1, attempts[r])
    BY <1>5 DEF BreakOff
  <2> QED BY <1>0, <2>1, TryMoves DEF Answered
<1> QED BY <1>1, <1>2, <1>3, <1>4, <1>5 DEF Settle

LEMMA AnsweredKeepsRefusal ==
  ASSUME FailoverAssumption, FailoverInv, RefusalInv,
         NEW r \in Request, NEW a, Answered(r, a)
  PROVE  RefusalInv'
<1>1. /\ exec[r] = "calling" /\ chain' = chain /\ a \in Answer
      /\ answers' = [answers EXCEPT ![r] = Append(@, <<Current(r), a>>)]
  BY DEF Answered, Answers
<1>2. /\ link[r] \in Nat /\ link[r] >= 1 /\ link[r] <= Len(chain[r])
      /\ Len(chain[r]) \in Nat /\ chain[r] \in Seq(Provider)
  BY <1>1, CallingFacts DEF FailoverInv, Typed
<1>3. Current(r) \in Provider
  BY <1>2 DEF Current
<1>4. answers[r] \in Seq(Provider \X Answer) /\ <<Current(r), a>> \in Provider \X Answer
  BY <1>1, <1>3 DEF RefusalInv
<1>5. /\ answers'[r] = Append(answers[r], <<Current(r), a>>)
      /\ answers' \in [Request -> Seq(Provider \X Answer)]
      /\ \A q \in Request \ {r} : answers'[q] = answers[q]
  BY <1>1, <1>4 DEF RefusalInv
<1>6. /\ Len(answers'[r]) = Len(answers[r]) + 1 /\ Len(answers[r]) \in Nat
      /\ answers'[r][Len(answers[r]) + 1] = <<Current(r), a>>
      /\ \A k \in 1..Len(answers[r]) : answers'[r][k] = answers[r][k]
  BY <1>4, <1>5
<1>7. \A q \in Request \ {r} : LeftBehind(q)'
  <2> SUFFICES ASSUME NEW q \in Request \ {r} PROVE LeftBehind(q)'
    OBVIOUS
  <2>1. /\ answers'[q] = answers[q] /\ chain'[q] = chain[q]
        /\ exec'[q] = exec[q] /\ link'[q] = link[q] /\ LeftBehind(q)
    BY <1>1, <1>5 DEF RefusalInv, Answered
  <2> QED BY <2>1 DEF LeftBehind, Behind
<1>8. \A k \in 1..Len(answers'[r]) : Behind(r, k)'
  <2> SUFFICES ASSUME NEW k \in 1..Len(answers'[r]), answers'[r][k][2] = "401"
               PROVE  \E i \in 1..Len(chain[r]) :
                        i < link'[r] /\ chain[r][i] = answers'[r][k][1]
    BY <1>1 DEF Behind
  <2>1. CASE k \in 1..Len(answers[r])
    <3>1. LeftBehind(r) /\ answers'[r][k] = answers[r][k]
      BY <1>6, <2>1 DEF RefusalInv
    <3>2. PICK i \in 1..Len(chain[r]) : i < link[r] /\ chain[r][i] = answers[r][k][1]
      BY <2>1, <3>1 DEF LeftBehind, Behind
    <3>3. i < link'[r]
      BY <1>2, <3>2 DEF Answered
    <3> QED BY <3>1, <3>2, <3>3
  <2>2. CASE k \notin 1..Len(answers[r])
    <3>1. k = Len(answers[r]) + 1
      BY <1>6, <2>2
    <3>2. answers'[r][k] = <<Current(r), a>>
      BY <1>6, <3>1
    <3>3. a = "401" /\ answers'[r][k][1] = chain[r][link[r]]
      BY <3>2 DEF Current
    <3>4. link'[r] = link[r] + 1
      BY <3>3 DEF Answered
    <3>5. link[r] \in 1..Len(chain[r]) /\ link[r] < link'[r]
      BY <1>2, <3>4
    <3> QED BY <3>3, <3>5
  <2> QED BY <2>1, <2>2
<1>9. LeftBehind(r)'
  <2>1. exec'[r] # "idle" /\ chain'[r] = Chain[r]
    BY <1>1 DEF Answered, RefusalInv, LeftBehind
  <2> QED BY <1>8, <2>1 DEF LeftBehind
<1> QED BY <1>5, <1>7, <1>9 DEF RefusalInv

LEMMA StartKeepsRefusal ==
  ASSUME FailoverAssumption, FailoverInv, RefusalInv,
         NEW r \in Request, Start(r, Chain[r])
  PROVE  RefusalInv'
<1>1. /\ exec[r] = "idle" /\ answers' = answers /\ Try(r, 1, 0)
      /\ chain' = [chain EXCEPT ![r] = Chain[r]]
  BY DEF Start
<1>2. /\ exec'[r] # "idle" /\ chain'[r] = Chain[r]
      /\ \A q \in Request \ {r} :
           exec'[q] = exec[q] /\ link'[q] = link[q] /\ chain'[q] = chain[q]
  BY <1>1, TryMoves DEF FailoverInv, Typed
<1>3. answers'[r] = <<>>
  BY <1>1 DEF RefusalInv, LeftBehind
<1>4. LeftBehind(r)'
  BY <1>2, <1>3 DEF LeftBehind
<1>5. \A q \in Request \ {r} : LeftBehind(q)'
  <2> SUFFICES ASSUME NEW q \in Request \ {r} PROVE LeftBehind(q)'
    OBVIOUS
  <2>1. /\ answers'[q] = answers[q] /\ chain'[q] = chain[q]
        /\ exec'[q] = exec[q] /\ link'[q] = link[q] /\ LeftBehind(q)
    BY <1>1, <1>2 DEF RefusalInv
  <2> QED BY <2>1 DEF LeftBehind, Behind
<1> QED BY <1>1, <1>4, <1>5 DEF RefusalInv

LEMMA RefusalInvariant == FailoverSpec => []RefusalInv
<1> USE FailoverAssumption
<1>1. FailoverInit => RefusalInv
  BY DEF FailoverInit, ExecInit, RefusalInv, LeftBehind
<1>2. FailoverInv /\ RefusalInv /\ [FailoverNext]_failoverVars => RefusalInv'
  <2> SUFFICES ASSUME FailoverInv, RefusalInv, [FailoverNext]_failoverVars PROVE RefusalInv'
    OBVIOUS
  <2>1. ASSUME NEW r \in Request, Start(r, Chain[r]) PROVE RefusalInv'
    BY <2>1, StartKeepsRefusal
  <2>2. ASSUME NEW r \in Request, Settle(r) PROVE RefusalInv'
    BY <2>2, SettleAnswers, AnsweredKeepsRefusal
  <2>3. CASE UNCHANGED failoverVars
    <3>1. exec' = exec /\ chain' = chain /\ link' = link /\ answers' = answers
      BY <2>3 DEF failoverVars, execVars
    <3>2. ASSUME NEW q \in Request, LeftBehind(q) PROVE LeftBehind(q)'
      BY <3>1, <3>2 DEF LeftBehind, Behind
    <3> QED BY <3>1, <3>2 DEF RefusalInv
  <2> QED BY <2>1, <2>2, <2>3 DEF FailoverNext
<1> QED BY <1>1, <1>2, FailoverInvariant, PTL DEF FailoverSpec

(* A provider that refused the gateway's credentials is not asked again by  *)
(* the same request: every link that refused is behind the one being tried, *)
(* and no chain names a provider twice.                                     *)
THEOREM FailoverNoCallAfterRefusal ==
  ASSUME ChainsDistinct
  PROVE  FailoverSpec => NoCallAfterRefusal
<1> USE FailoverAssumption
<1> DEFINE Spared == \A r \in Request : Len(answers'[r]) > Len(answers[r]) =>
              \A k \in 1..Len(answers[r]) :
                answers[r][k][2] = "401" => answers[r][k][1] # Current(r)
<1>1. FailoverInv /\ RefusalInv /\ [FailoverNext]_failoverVars => [Spared]_failoverVars
  <2> SUFFICES ASSUME FailoverInv, RefusalInv, FailoverNext,
                      NEW q \in Request, Len(answers'[q]) > Len(answers[q]),
                      NEW k \in 1..Len(answers[q]), answers[q][k][2] = "401"
               PROVE  answers[q][k][1] # Current(q)
    OBVIOUS
  <2>0. Len(answers[q]) \in Nat
    BY DEF RefusalInv
  <2>1. exec[q] = "calling"
    <3>1. ASSUME NEW r \in Request, Start(r, Chain[r]) PROVE FALSE
      BY <2>0, <3>1 DEF Start
    <3>2. ASSUME NEW r \in Request, Settle(r) PROVE exec[q] = "calling"
      <4>1. PICK a \in Answer : Answered(r, a)
        BY <3>2, SettleAnswers
      <4>2. /\ exec[r] = "calling"
            /\ answers' = [answers EXCEPT ![r] = Append(@, <<Current(r), a>>)]
        BY <4>1 DEF Answered, Answers
      <4>3. q = r
        BY <2>0, <4>2 DEF RefusalInv
      <4> QED BY <4>2, <4>3
    <3> QED BY <3>1, <3>2 DEF FailoverNext
  <2>2. LeftBehind(q) /\ chain[q] = Chain[q] /\ link[q] \in 1..Len(chain[q])
    BY <2>1, CallingFacts DEF RefusalInv, LeftBehind
  <2>3. PICK i \in 1..Len(chain[q]) : i < link[q] /\ chain[q][i] = answers[q][k][1]
    BY <2>2 DEF LeftBehind, Behind
  <2>4. i # link[q]
    BY <2>2, <2>3
  <2> QED BY <2>2, <2>3, <2>4 DEF ChainsDistinct, Current
<1>2. NoCallAfterRefusal <=> [][Spared]_failoverVars
  BY DEF NoCallAfterRefusal
<1> QED BY <1>1, <1>2, FailoverInvariant, RefusalInvariant, PTL DEF FailoverSpec

-----------------------------------------------------------------------------
(* The pipeline.                                                            *)

Untold == {"new", "health", "execution", "formatter"}

(* A sequence of whatever was asked and answered.                           *)
IsHistory(h) == \E S : h \in Seq(S)

(* The types that the argument needs.                                       *)
PipelineTyped ==
  /\ exec \in [Request -> Execs]
  /\ content \in [Request -> Seq(1..Chunks)]
  /\ DOMAIN answers = Request /\ \A r \in Request : IsHistory(answers[r])
  /\ stage \in [Request -> Stages]
  /\ replies \in [Request -> Seq(Nat)]
  /\ DOMAIN error = Request

(* Some provider has finished, and its deltas end the text.                 *)
Finished(r) ==
  /\ \E k \in 1..Len(answers[r]) : answers[r][k][2] = "complete"
  /\ Len(content[r]) >= Chunks
  /\ SubSeq(content[r], Len(content[r]) - Chunks + 1, Len(content[r])) = Deltas(Chunks)

(* What a client may have been told.                                        *)
Told(r) ==
  /\ stage[r] \in Untold => replies[r] = <<>>
  /\ Len(replies[r]) <= 1
  /\ error[r].code # "none" => error[r].status \in Nat \ {200}

(* Where a request may be.                                                  *)
Placed(r) ==
  /\ exec[r] = "calling" => stage[r] = "execution"
  /\ r \in Streaming =>
       /\ stage[r] = "formatter" => exec[r] = "done"
       /\ exec[r] = "done" => Finished(r)
       /\ \A k \in 1..Len(replies[r]) : replies[r][k] = 200 => exec[r] = "done"

PipelineInv == PipelineTyped /\ \A r \in Request : Told(r) /\ Placed(r)

(* What a step of r leaves alone, and what it has to establish.             *)
OthersUntouched(r) ==
  \A q \in Request \ {r} :
    /\ exec'[q] = exec[q] /\ content'[q] = content[q] /\ answers'[q] = answers[q]
    /\ stage'[q] = stage[q] /\ replies'[q] = replies[q] /\ error'[q] = error[q]

Served(r) == PipelineTyped' /\ OthersUntouched(r) /\ Told(r)' /\ Placed(r)'

LEMMA ServedSuffices ==
  ASSUME PipelineInv, NEW r \in Request, Served(r)
  PROVE  PipelineInv'
<1>1. ASSUME NEW q \in Request \ {r} PROVE Told(q)' /\ Placed(q)'
  <2>1. /\ exec'[q] = exec[q] /\ content'[q] = content[q] /\ answers'[q] = answers[q]
        /\ stage'[q] = stage[q] /\ replies'[q] = replies[q] /\ error'[q] = error[q]
        /\ Told(q) /\ Placed(q)
    BY <1>1 DEF Served, OthersUntouched, PipelineInv
  <2>2. Told(q)'
    BY <2>1 DEF Told
  <2>3. Placed(q)'
    BY <2>1 DEF Placed, Finished
  <2> QED BY <2>2, <2>3
<1> QED BY <1>1 DEF Served, PipelineInv

-----------------------------------------------------------------------------
(* The text of a provider that finished is the end of what was delivered.   *)
LEMMA TailOfConcat ==
  ASSUME NEW S, NEW c \in Seq(S), NEW t \in Seq(S), Len(t) >= 1
  PROVE  /\ c \o t \in Seq(S) /\ Len(c \o t) >= Len(t)
         /\ SubSeq(c \o t, Len(c \o t) - Len(t) + 1, Len(c \o t)) = t
<1>1. c \o t \in Seq(S) /\ Len(c \o t) = Len(c) + Len(t)
  BY ConcatProperties
<1>2. Len(c) \in Nat /\ Len(t) \in Nat
  BY LenProperties
<1>3. SubSeq(c \o t, Len(c) + 1, Len(c) + Len(t)) = SubSeq(t, 1, Len(t))
  <2>1. Len(c) + 1 \in Len(c)+1 .. Len(c)+Len(t) /\ Len(c) + Len(t) \in Len(c)+1 .. Len(c)+Len(t)
    BY <1>2
  <2>2. SubSeq(c \o t, Len(c) + 1, Len(c) + Len(t))
          = SubSeq(t, Len(c) + 1 - Len(c), Len(c) + Len(t) - Len(c))
    BY <2>1, SubSeqOfConcat2
  <2>3. Len(c) + 1 - Len(c) = 1 /\ Len(c) + Len(t) - Len(c) = Len(t)
    BY <1>2
  <2> QED BY <2>2, <2>3
<1>4. SubSeq(t, 1, Len(t)) = t
  BY SubSeqFull
<1>5. Len(c \o t) - Len(t) + 1 = Len(c) + 1 /\ Len(c \o t) >= Len(t)
  BY <1>1, <1>2
<1> QED BY <1>1, <1>3, <1>4, <1>5

(* The for statement: a call, or the end of the loop.                       *)
LEMMA TryPlaces ==
  ASSUME PipelineTyped, NEW r \in Request, NEW i, NEW n, Try(r, i, n)
  PROVE  /\ exec' \in [Request -> Execs] /\ exec'[r] \in {"calling", "failed"}
         /\ \A q \in Request \ {r} : exec'[q] = exec[q]
<1>1. \/ exec' = [exec EXCEPT ![r] = "calling"]
      \/ exec' = [exec EXCEPT ![r] = "failed"]
  BY DEF Try
<1> QED BY <1>1 DEF PipelineTyped, Execs

LEMMA HistoryGrows ==
  ASSUME NEW h, IsHistory(h), NEW e
  PROVE  /\ IsHistory(Append(h, e)) /\ Len(h) \in Nat
         /\ Len(Append(h, e)) = Len(h) + 1
         /\ Append(h, e)[Len(h) + 1] = e
<1>1. PICK S : h \in Seq(S)
  BY DEF IsHistory
<1> DEFINE T == S \cup {e}
<1>2. h \in Seq(T) /\ e \in T
  BY <1>1
<1> HIDE DEF T
<1>3. /\ Append(h, e) \in Seq(T) /\ Len(h) \in Nat
      /\ Len(Append(h, e)) = Len(h) + 1 /\ Append(h, e)[Len(h) + 1] = e
  BY <1>2, AppendProperties
<1> QED BY <1>3 DEF IsHistory

(* An answer is added to the request's own history.                         *)
LEMMA AnswerAdded ==
  ASSUME PipelineInv, NEW r \in Request, NEW a, Answers(r, a)
  PROVE  /\ exec[r] = "calling" /\ stage[r] = "execution" /\ replies[r] = <<>>
         /\ DOMAIN answers' = Request /\ \A q \in Request : IsHistory(answers'[q])
         /\ \A q \in Request \ {r} : answers'[q] = answers[q]
         /\ \E k \in 1..Len(answers'[r]) : answers'[r][k][2] = a
<1> DEFINE e == <<Current(r), a>>
<1>1. exec[r] = "calling" /\ answers' = [answers EXCEPT ![r] = Append(@, e)]
  BY DEF Answers
<1>2. PipelineTyped /\ Placed(r) /\ Told(r)
  BY DEF PipelineInv
<1>3. stage[r] = "execution" /\ replies[r] = <<>>
  BY <1>1, <1>2 DEF Placed, Told, Untold
<1>4. e[2] = a /\ IsHistory(answers[r])
  BY <1>2 DEF PipelineTyped
<1> HIDE DEF e
<1>5. /\ IsHistory(Append(answers[r], e)) /\ Len(answers[r]) \in Nat
      /\ Len(Append(answers[r], e)) = Len(answers[r]) + 1
      /\ Append(answers[r], e)[Len(answers[r]) + 1] = e
  BY <1>4, HistoryGrows
<1>6. /\ answers'[r] = Append(answers[r], e) /\ DOMAIN answers' = Request
      /\ \A q \in Request \ {r} : answers'[q] = answers[q]
  BY <1>1, <1>2 DEF PipelineTyped
<1>7. \A q \in Request : IsHistory(answers'[q])
  BY <1>2, <1>5, <1>6 DEF PipelineTyped
<1>8. Len(answers[r]) + 1 \in 1..Len(answers'[r])
  BY <1>5, <1>6
<1>9. answers'[r][Len(answers[r]) + 1] = e
  BY <1>5, <1>6
<1> QED BY <1>1, <1>3, <1>4, <1>6, <1>7, <1>8, <1>9

-----------------------------------------------------------------------------
(* A step that moves a request on to s without touching its execution.      *)
Moved(r, s) ==
  /\ s \in Stages /\ GoTo(r, s) /\ exec[r] # "calling"
  /\ exec' = exec /\ content' = content /\ answers' = answers
  /\ DOMAIN error' = Request /\ \A q \in Request \ {r} : error'[q] = error[q]
  /\ error'[r].code # "none" => error'[r].status \in Nat \ {200}

LEMMA MovedStage ==
  ASSUME PipelineTyped, NEW r \in Request, NEW s, Moved(r, s)
  PROVE  /\ stage' \in [Request -> Stages] /\ stage'[r] = s
         /\ \A q \in Request \ {r} : stage'[q] = stage[q]
BY DEF PipelineTyped, Moved, GoTo

LEMMA MovedSilently ==
  ASSUME PipelineInv, NEW r \in Request, NEW s, Moved(r, s), s # "formatter",
         replies' = replies, s \in Untold => stage[r] \in Untold
  PROVE  Served(r)
<1>1. PipelineTyped /\ Told(r) /\ Placed(r)
  BY DEF PipelineInv
<1>2. /\ stage' \in [Request -> Stages] /\ stage'[r] = s
      /\ \A q \in Request \ {r} : stage'[q] = stage[q]
  BY <1>1, MovedStage
<1>3. PipelineTyped' /\ OthersUntouched(r)
  BY <1>1, <1>2 DEF Moved, PipelineTyped, OthersUntouched
<1>4. Told(r)'
  BY <1>1, <1>2 DEF Moved, Told
<1>5. Placed(r)'
  BY <1>1, <1>2 DEF Moved, Placed, Finished
<1> QED BY <1>3, <1>4, <1>5 DEF Served

LEMMA MovedWithReply ==
  ASSUME PipelineInv, NEW r \in Request, NEW s, Moved(r, s),
         s \notin Untold, replies[r] = <<>>,
         NEW status \in Nat, Send(r, status),
         status = 200 => r \notin Streaming \/ exec[r] = "done"
  PROVE  Served(r)
<1>1. PipelineTyped /\ Told(r) /\ Placed(r)
  BY DEF PipelineInv
<1>2. /\ stage' \in [Request -> Stages] /\ stage'[r] = s
      /\ \A q \in Request \ {r} : stage'[q] = stage[q]
  BY <1>1, MovedStage
<1>3. /\ replies' \in [Request -> Seq(Nat)] /\ replies'[r] = Append(<<>>, status)
      /\ \A q \in Request \ {r} : replies'[q] = replies[q]
  BY <1>1 DEF Send, PipelineTyped
<1>4. Len(replies'[r]) = 1 /\ \A k \in 1..Len(replies'[r]) : replies'[r][k] = status
  BY <1>3
<1>5. PipelineTyped' /\ OthersUntouched(r)
  BY <1>1, <1>2, <1>3 DEF Moved, PipelineTyped, OthersUntouched
<1>6. Told(r)'
  BY <1>2, <1>4 DEF Moved, Told
<1>7. Placed(r)'
  BY <1>1, <1>2, <1>4 DEF Moved, Placed, Finished, Untold
<1> QED BY <1>5, <1>6, <1>7 DEF Served

(* A step that settles an upstream call: how the execution may go on.       *)
LEMMA SettledServed ==
  ASSUME PipelineInv, NEW r \in Request, NEW a, Answers(r, a),
         exec' \in [Request -> Execs],
         content' \in [Request -> Seq(1..Chunks)], stage' \in [Request -> Stages],
         \A q \in Request \ {r} :
           /\ exec'[q] = exec[q] /\ content'[q] = content[q]
           /\ stage'[q] = stage[q] /\ error'[q] = error[q],
         DOMAIN error' = Request, replies' = replies,
         error'[r].code # "none" => error'[r].status \in Nat \ {200},
         exec'[r] = "calling" => stage'[r] = "execution",
         r \in Streaming => /\ stage'[r] = "formatter" => exec'[r] = "done"
                            /\ exec'[r] = "done" => Finished(r)'
  PROVE  Served(r)
<1>1. /\ stage[r] = "execution" /\ replies[r] = <<>>
      /\ DOMAIN answers' = Request /\ \A q \in Request : IsHistory(answers'[q])
      /\ \A q \in Request \ {r} : answers'[q] = answers[q]
  BY AnswerAdded
<1>2. PipelineTyped
  BY DEF PipelineInv
<1>3. PipelineTyped' /\ OthersUntouched(r)
  BY <1>1, <1>2 DEF PipelineTyped, OthersUntouched
<1>4. Len(replies'[r]) = 0
  BY <1>1
<1>5. Told(r)'
  BY <1>1, <1>4 DEF Told
<1>6. Placed(r)'
  BY <1>1, <1>4 DEF Placed
<1> QED BY <1>3, <1>5, <1>6 DEF Served

-----------------------------------------------------------------------------
(* An error with a status of its own.                                       *)
LEMMA ErrorSet ==
  ASSUME PipelineTyped, NEW r \in Request, NEW e, e.status \in Nat \ {200},
         error' = [error EXCEPT ![r] = e]
  PROVE  /\ DOMAIN error' = Request /\ \A q \in Request \ {r} : error'[q] = error[q]
         /\ error'[r] = e /\ error'[r].status \in Nat \ {200}
BY DEF PipelineTyped

(* The steps before the execution, and those after it.                      *)
LEMMA ArriveServed ==
  ASSUME PipelineInv, NEW r \in Request, Arrive(r)
  PROVE  Served(r)
<1>1. PipelineTyped /\ Told(r) /\ Placed(r)
  BY DEF PipelineInv
<1>2. stage[r] = "new" /\ replies[r] = <<>> /\ exec[r] # "calling" /\ "new" \in Untold
  BY <1>1 DEF Arrive, RejectAuth, RejectProtocol, Admit, At, Told, Placed, Untold
<1>3. exec' = exec /\ content' = content /\ answers' = answers
  BY DEF Arrive, RejectAuth, RejectProtocol, Admit, failoverVars, execVars
<1>4. {"abandoned", "handler", "health"} \subseteq Stages /\ "abandoned" \notin Untold
  BY DEF Stages, Untold
<1>5. CASE RejectAuth(r)
  <2>1. GoTo(r, "abandoned") /\ error' = error
    BY <1>5 DEF RejectAuth
  <2>2. PICK status \in {401, 429} : Send(r, status)
    BY <1>5 DEF RejectAuth
  <2>3. Moved(r, "abandoned")
    BY <1>1, <1>2, <1>3, <1>4, <2>1 DEF Moved, PipelineTyped, Told
  <2> QED BY <1>2, <1>4, <2>2, <2>3, MovedWithReply
<1>6. CASE RejectProtocol(r)
  <2>1. /\ error' = [error EXCEPT ![r] = Error("UNSUPPORTED_PROTOCOL", FALSE, 400)]
        /\ replies' = replies
    BY <1>6 DEF RejectProtocol
  <2>2. PICK s \in {"handler", "health"} : GoTo(r, s)
    BY <1>6 DEF RejectProtocol, Proceed
  <2>3. Error("UNSUPPORTED_PROTOCOL", FALSE, 400).status \in Nat \ {200}
    BY DEF Error
  <2>4. /\ DOMAIN error' = Request /\ \A q \in Request \ {r} : error'[q] = error[q]
        /\ error'[r].status \in Nat \ {200}
    BY <1>1, <2>1, <2>3, ErrorSet, ZenonT(60)
  <2>5. Moved(r, s)
    BY <1>2, <1>3, <1>4, <2>2, <2>4 DEF Moved
  <2> QED BY <1>2, <2>1, <2>5, MovedSilently
<1>7. CASE Admit(r)
  <2>1. GoTo(r, "health") /\ error' = error /\ replies' = replies
    BY <1>7 DEF Admit
  <2>2. Moved(r, "health")
    BY <1>1, <1>2, <1>3, <1>4, <2>1 DEF Moved, PipelineTyped, Told
  <2> QED BY <1>2, <2>1, <2>2, MovedSilently
<1> QED BY <1>5, <1>6, <1>7 DEF Arrive

LEMMA FormatServed ==
  ASSUME PipelineInv, NEW r \in Request, FormatResponse(r)
  PROVE  Served(r)
<1>1. PipelineTyped /\ Told(r) /\ Placed(r)
  BY DEF PipelineInv
<1>2. /\ stage[r] = "formatter" /\ Send(r, 200) /\ GoTo(r, "analytics")
      /\ exec' = exec /\ content' = content /\ answers' = answers /\ error' = error
  BY DEF FormatResponse, At, failoverVars, execVars
<1>3. replies[r] = <<>> /\ exec[r] # "calling" /\ (r \in Streaming => exec[r] = "done")
  BY <1>1, <1>2 DEF Told, Placed, Untold
<1>4. "analytics" \in Stages /\ "analytics" \notin Untold
  BY DEF Stages, Untold
<1>5. Moved(r, "analytics")
  BY <1>1, <1>2, <1>3, <1>4 DEF Moved, PipelineTyped, Told
<1>6. 200 \in Nat
  OBVIOUS
<1> QED BY <1>2, <1>3, <1>4, <1>5, <1>6, MovedWithReply

LEMMA AnalyzeServed ==
  ASSUME PipelineInv, NEW r \in Request, NEW latency, Analyze(r, latency)
  PROVE  Served(r)
<1>1. PipelineTyped /\ Told(r) /\ Placed(r)
  BY DEF PipelineInv
<1>2. /\ stage[r] = "analytics" /\ replies' = replies
      /\ error' = [error EXCEPT ![r] = Error("STAGE_ERROR", FALSE, 500)]
      /\ exec' = exec /\ content' = content /\ answers' = answers
      /\ Proceed(r, "handler")
  BY DEF Analyze, At, execVars
<1>3. GoTo(r, "handler") /\ exec[r] # "calling"
  BY <1>1, <1>2 DEF Proceed, Placed
<1>4. "handler" \in Stages /\ "handler" \notin Untold /\ "handler" # "formatter"
  BY DEF Stages, Untold
<1>5. Error("STAGE_ERROR", FALSE, 500).status \in Nat \ {200}
  BY DEF Error
<1>6. /\ DOMAIN error' = Request /\ \A q \in Request \ {r} : error'[q] = error[q]
      /\ error'[r].status \in Nat \ {200}
  BY <1>1, <1>2, <1>5, ErrorSet, ZenonT(60)
<1>7. Moved(r, "handler")
  BY <1>2, <1>3, <1>4, <1>6 DEF Moved
<1> QED BY <1>2, <1>4, <1>7, MovedSilently

LEMMA RespondServed ==
  ASSUME PipelineInv, NEW r \in Request, Respond(r)
  PROVE  Served(r)
<1>1. PipelineTyped /\ Told(r) /\ Placed(r)
  BY DEF PipelineInv
<1>2. /\ stage[r] = "handler" /\ GoTo(r, "closed") /\ error' = error
      /\ exec' = exec /\ content' = content /\ answers' = answers
  BY DEF Respond, At, failoverVars, execVars
<1>3. /\ "closed" \in Stages /\ "closed" \notin Untold /\ "closed" # "formatter"
      /\ exec[r] # "calling"
  BY <1>1, <1>2 DEF Stages, Untold, Placed
<1>4. Moved(r, "closed")
  BY <1>1, <1>2, <1>3 DEF Moved, PipelineTyped, Told
<1>5. CASE error[r].code # "none" /\ ~HeadersSent(r) /\ Send(r, error[r].status)
  <2>1. error[r].status \in Nat /\ error[r].status # 200 /\ replies[r] = <<>>
    BY <1>1, <1>5 DEF Told, HeadersSent
  <2> QED BY <1>3, <1>4, <1>5, <2>1, MovedWithReply
<1>6. CASE replies' = replies
  BY <1>3, <1>4, <1>6, MovedSilently
<1> QED BY <1>5, <1>6 DEF Respond

(* Stages 7 to 10: the execution begins, or the request passes over it.     *)
LEMMA CheckHealthServed ==
  ASSUME PipelineInv, NEW r \in Request, CheckHealth(r)
  PROVE  Served(r)
<1> DEFINE healthy == Filtered(Chain[r], {p \in Listed(r) : Tracker!Healthy(p)})
<1>1. PipelineTyped /\ Told(r) /\ Placed(r)
  BY DEF PipelineInv
<1>2. /\ stage[r] = "health" /\ replies' = replies /\ replies[r] = <<>>
      /\ exec[r] # "calling" /\ "health" \in Untold
  BY <1>1 DEF CheckHealth, At, Told, Placed, Untold
<1> HIDE DEF healthy
<1>3. CASE /\ healthy # <<>> /\ Start(r, healthy) /\ GoTo(r, "execution")
           /\ UNCHANGED <<error, flushed>>
  <2>2. Try(r, 1, 0) /\ content' = content /\ answers' = answers /\ error' = error
    BY <1>3 DEF Start
  <2>4. /\ exec' \in [Request -> Execs] /\ exec'[r] \in {"calling", "failed"}
        /\ \A q \in Request \ {r} : exec'[q] = exec[q]
    BY <1>1, <2>2, TryPlaces
  <2>5. /\ stage' \in [Request -> Stages] /\ stage'[r] = "execution"
        /\ \A q \in Request \ {r} : stage'[q] = stage[q]
    BY <1>1, <1>3 DEF PipelineTyped, GoTo, Stages
  <2>6. PipelineTyped' /\ OthersUntouched(r)
    BY <1>1, <1>2, <2>2, <2>4, <2>5 DEF PipelineTyped, OthersUntouched
  <2>7. Told(r)'
    BY <1>1, <1>2, <2>2, <2>5 DEF Told
  <2>8. Placed(r)'
    BY <1>2, <2>4, <2>5 DEF Placed
  <2> QED BY <2>6, <2>7, <2>8 DEF Served
<1>4. CASE /\ error' = [error EXCEPT ![r] = Error("NO_HEALTHY_PROVIDERS", TRUE, 503)]
           /\ GoTo(r, "analytics") /\ UNCHANGED execVars
  <2>1. /\ "analytics" \in Stages /\ "analytics" # "formatter"
        /\ exec' = exec /\ content' = content /\ answers' = answers
    BY <1>4 DEF Stages, execVars
  <2>2. Error("NO_HEALTHY_PROVIDERS", TRUE, 503).status \in Nat \ {200}
    BY DEF Error
  <2>3. /\ DOMAIN error' = Request /\ \A q \in Request \ {r} : error'[q] = error[q]
        /\ error'[r].status \in Nat \ {200}
    <3>1. PICK e : e.status \in Nat \ {200} /\ error' = [error EXCEPT ![r] = e]
      BY <1>4, <2>2
    <3> QED BY <1>1, <3>1, ErrorSet
  <2>4. Moved(r, "analytics")
    BY <1>2, <1>4, <2>1, <2>3 DEF Moved
  <2> QED BY <1>2, <2>1, <2>4, MovedSilently
<1> QED BY <1>3, <1>4 DEF CheckHealth, healthy

-----------------------------------------------------------------------------
(* Stage 10: what comes of an upstream call.                                *)
LEMMA SingleServed ==
  ASSUME FailoverAssumption, PipelineInv, NEW r \in Request, NEW a,
         SingleRepeat(r, a) \/ SingleFail(r, a) \/ SingleSucceed(r, a)
  PROVE  Served(r)
<1>1. PipelineTyped /\ Told(r) /\ Placed(r)
  BY DEF PipelineInv
<1>2. Answers(r, a) /\ r \notin Streaming
  BY DEF SingleRepeat, Repeat, SingleFail, SingleSucceed
<1>3. exec[r] = "calling" /\ stage[r] = "execution"
  BY <1>2, AnswerAdded
<1>4. CASE SingleRepeat(r, a)
  <2>1. /\ exec' = exec /\ content' = content /\ stage' = stage /\ error' = error
        /\ replies' = replies
    BY <1>4 DEF SingleRepeat, Repeat, pipelineVars
  <2> QED BY <1>1, <1>2, <1>3, <2>1, SettledServed DEF PipelineTyped, Told
<1>5. CASE SingleFail(r, a)
  <2>1. content' = content /\ replies' = replies
    BY <1>5 DEF SingleFail
  <2>2. /\ exec' \in [Request -> Execs] /\ exec'[r] \in {"calling", "failed"}
        /\ \A q \in Request \ {r} : exec'[q] = exec[q]
    <3>1. CASE exec' = [exec EXCEPT ![r] = "failed"]
      BY <1>1, <3>1 DEF PipelineTyped, Execs
    <3>2. CASE Try(r, link[r] + 1, 0)
      BY <1>1, <3>2, TryPlaces
    <3> QED BY <1>5, <3>1, <3>2 DEF SingleFail
  <2>3. \/ error' = error
        \/ \E e : e.status \in Nat \ {200} /\ error' = [error EXCEPT ![r] = e]
    <3>1. /\ Error("AUTH_FAILURE", FALSE, 401).status \in Nat \ {200}
          /\ Error("ALL_PROVIDERS_FAILED", FALSE, 503).status \in Nat \ {200}
      BY DEF Error
    <3> QED BY <1>5, <3>1, ZenonT(60) DEF SingleFail
  <2>4. /\ DOMAIN error' = Request /\ \A q \in Request \ {r} : error'[q] = error[q]
        /\ error'[r].code # "none" => error'[r].status \in Nat \ {200}
    <3>1. CASE error' = error
      BY <1>1, <3>1 DEF PipelineTyped, Told
    <3>2. ASSUME NEW e, e.status \in Nat \ {200}, error' = [error EXCEPT ![r] = e]
          PROVE  <2>4!1
      BY <1>1, <3>2, ErrorSet
    <3> QED BY <2>3, <3>1, <3>2
  <2>5. /\ stage' \in [Request -> Stages] /\ \A q \in Request \ {r} : stage'[q] = stage[q]
        /\ exec'[r] = "calling" => stage'[r] = "execution"
    <3>1. CASE exec'[r] = "failed" /\ Proceed(r, "formatter")
      <4>1. PICK s \in {"handler", "formatter"} : stage' = [stage EXCEPT ![r] = s]
        BY <3>1 DEF Proceed, GoTo
      <4> QED BY <1>1, <3>1, <4>1 DEF PipelineTyped, Stages
    <3>2. CASE stage' = stage
      BY <1>1, <1>3, <3>2 DEF PipelineTyped
    <3> QED BY <1>5, <3>1, <3>2 DEF SingleFail
  <2> QED BY <1>1, <1>2, <2>1, <2>2, <2>4, <2>5, SettledServed DEF PipelineTyped
<1>6. CASE SingleSucceed(r, a)
  <2>1. /\ exec' = [exec EXCEPT ![r] = "done"] /\ error' = error /\ replies' = replies
        /\ content' = [content EXCEPT ![r] = IF a = "complete" THEN Deltas(Chunks) ELSE <<>>]
        /\ stage' = [stage EXCEPT ![r] = "formatter"]
    BY <1>6 DEF SingleSucceed, GoTo
  <2>2. Deltas(Chunks) \in Seq(1..Chunks) /\ <<>> \in Seq(1..Chunks)
    <3>1. Chunks \in 0..Chunks
      BY DEF FailoverAssumption
    <3> QED BY <3>1, DeltasType
  <2>3. /\ exec' \in [Request -> Execs] /\ exec'[r] = "done"
        /\ content' \in [Request -> Seq(1..Chunks)]
        /\ stage' \in [Request -> Stages]
        /\ \A q \in Request \ {r} :
             exec'[q] = exec[q] /\ content'[q] = content[q] /\ stage'[q] = stage[q]
    BY <1>1, <2>1, <2>2 DEF PipelineTyped, Execs, Stages
  <2> QED BY <1>1, <1>2, <2>1, <2>3, SettledServed DEF PipelineTyped, Told
<1> QED BY <1>4, <1>5, <1>6

(* A stream that a provider finished.                                       *)
LEMMA FinishFinishes ==
  ASSUME FailoverAssumption, PipelineInv, NEW r \in Request, NEW latency,
         Finish(r, latency)
  PROVE  /\ Answers(r, "complete") /\ exec' = [exec EXCEPT ![r] = "done"]
         /\ content' \in [Request -> Seq(1..Chunks)]
         /\ \A q \in Request \ {r} : content'[q] = content[q]
         /\ Finished(r)'
<1> DEFINE t == Deltas(Chunks)
<1>1. /\ Answers(r, "complete") /\ exec' = [exec EXCEPT ![r] = "done"]
      /\ content' = [content EXCEPT ![r] = @ \o t] /\ PipelineTyped
  BY DEF Finish, PipelineInv
<1>2. t \in Seq(1..Chunks) /\ Len(t) = Chunks /\ Chunks >= 1
  <2>1. Chunks \in 0..Chunks /\ Chunks \in Nat /\ Chunks >= 1
    BY DEF FailoverAssumption
  <2> QED BY <2>1, DeltasType DEF Deltas
<1> HIDE DEF t
<1>3. content[r] \in Seq(1..Chunks)
  BY <1>1 DEF PipelineTyped
<1>4. /\ content[r] \o t \in Seq(1..Chunks) /\ Len(content[r] \o t) >= Len(t)
      /\ SubSeq(content[r] \o t, Len(content[r] \o t) - Len(t) + 1, Len(content[r] \o t)) = t
  BY <1>2, <1>3, TailOfConcat
<1>5. /\ content' \in [Request -> Seq(1..Chunks)] /\ content'[r] = content[r] \o t
      /\ \A q \in Request \ {r} : content'[q] = content[q]
  BY <1>1, <1>4 DEF PipelineTyped
<1>6. \E k \in 1..Len(answers'[r]) : answers'[r][k][2] = "complete"
  BY <1>1, AnswerAdded
<1>7. /\ Len(content'[r]) >= Chunks
      /\ SubSeq(content'[r], Len(content'[r]) - Chunks + 1, Len(content'[r])) = t
  BY <1>2, <1>4, <1>5
<1>8. Finished(r)'
  BY <1>6, <1>7 DEF Finished, t
<1> QED BY <1>1, <1>5, <1>8

(* What a stream's upstream call comes to, before the handler continues.    *)
LEMMA SettleComes ==
  ASSUME FailoverAssumption, PipelineInv, NEW r \in Request, Settle(r)
  PROVE  /\ \E a : Answers(r, a)
         /\ exec' \in [Request -> Execs]
         /\ content' \in [Request -> Seq(1..Chunks)]
         /\ \A q \in Request \ {r} : exec'[q] = exec[q] /\ content'[q] = content[q]
         /\ exec'[r] = "done" => Finished(r)'
<1>1. PipelineTyped
  BY DEF PipelineInv
<1> DEFINE Goal == /\ exec' \in [Request -> Execs]
                   /\ content' \in [Request -> Seq(1..Chunks)]
                   /\ \A q \in Request \ {r} : exec'[q] = exec[q] /\ content'[q] = content[q]
                   /\ exec'[r] = "done" => Finished(r)'
<1>2. \E a : Answers(r, a)
  BY DEF Settle, Repeat, Fail, Hang, Finish, BreakOff
<1>3. exec[r] = "calling"
  BY <1>2 DEF Answers
<1>4. ASSUME NEW a \in Answer, Repeat(r, a) PROVE Goal
  <2>1. exec' = exec /\ content' = content
    BY <1>4 DEF Repeat
  <2> QED BY <1>1, <1>3, <2>1 DEF PipelineTyped
<1>5. ASSUME NEW a \in Answer, Fail(r, a) PROVE Goal
  <2>1. content' = content /\ \E i, n : Try(r, i, n)
    BY <1>5 DEF Fail
  <2>2. PICK i, n : Try(r, i, n)
    BY <2>1
  <2>3. /\ exec' \in [Request -> Execs] /\ exec'[r] # "done"
        /\ \A q \in Request \ {r} : exec'[q] = exec[q]
    BY <1>1, <2>2, TryPlaces
  <2> QED BY <1>1, <2>1, <2>3 DEF PipelineTyped
<1>6. ASSUME Hang(r) PROVE Goal
  <2>1. exec' = [exec EXCEPT ![r] = "hung"] /\ content' = content
    BY <1>6 DEF Hang
  <2>2. /\ exec' \in [Request -> Execs] /\ exec'[r] # "done"
        /\ \A q \in Request \ {r} : exec'[q] = exec[q]
    BY <1>1, <2>1 DEF PipelineTyped, Execs
  <2> QED BY <1>1, <2>1, <2>2 DEF PipelineTyped
<1>7. ASSUME NEW latency \in Latency, Finish(r, latency) PROVE Goal
  <2>1. exec' \in [Request -> Execs] /\ \A q \in Request \ {r} : exec'[q] = exec[q]
    BY <1>1, <1>7 DEF Finish, PipelineTyped, Execs
  <2> QED BY <1>7, <2>1, FinishFinishes
<1>8. ASSUME NEW latency \in Latency, NEW a \in Answer, NEW n \in 0..Chunks,
             BreakOff(r, a, n, latency)
      PROVE  Goal
  <2>1. /\ content' = [content EXCEPT ![r] = @ \o Deltas(n)]
        /\ Try(r, link[r] + 1, attempts[r])
    BY <1>8 DEF BreakOff
  <2>2. Deltas(n) \in Seq(1..Chunks) /\ content[r] \in Seq(1..Chunks)
    BY <1>1, DeltasType DEF PipelineTyped
  <2>3. content[r] \o Deltas(n) \in Seq(1..Chunks)
    BY <2>2, ConcatProperties
  <2>4. /\ content' \in [Request -> Seq(1..Chunks)]
        /\ \A q \in Request \ {r} : content'[q] = content[q]
    BY <1>1, <2>1, <2>3 DEF PipelineTyped
  <2> QED BY <1>1, <2>1, <2>4, TryPlaces
<1> HIDE DEF Goal
<1>9. Goal
  <2>1. ASSUME \E a \in Answer : Repeat(r, a) \/ Fail(r, a) PROVE Goal
    BY <1>4, <1>5, <2>1
  <2>2. ASSUME NEW latency \in Latency,
               \/ Finish(r, latency)
               \/ \E a \in Answer, n \in 0..Chunks : BreakOff(r, a, n, latency)
        PROVE  Goal
    BY <1>7, <1>8, <2>2
  <2>3. \/ \E a \in Answer : Repeat(r, a) \/ Fail(r, a)
        \/ Hang(r)
        \/ \E latency \in Latency :
             \/ Finish(r, latency)
             \/ \E a \in Answer, n \in 0..Chunks : BreakOff(r, a, n, latency)
    BY DEF Settle
  <2> QED BY <1>6, <2>1, <2>2, <2>3
<1> QED BY <1>2, <1>9 DEF Goal

LEMMA StreamServed ==
  ASSUME FailoverAssumption, PipelineInv, NEW r \in Request, StreamSettle(r)
  PROVE  Served(r)
<1>1. PipelineTyped /\ Told(r) /\ Placed(r)
  BY DEF PipelineInv
<1>2. Settle(r) /\ replies' = replies
  BY DEF StreamSettle
<1>3. PICK a : Answers(r, a)
  BY <1>2, SettleComes
<1>4. /\ exec' \in [Request -> Execs]
      /\ content' \in [Request -> Seq(1..Chunks)]
      /\ \A q \in Request \ {r} : exec'[q] = exec[q] /\ content'[q] = content[q]
      /\ exec'[r] = "done" => Finished(r)'
  BY <1>2, SettleComes
<1>5. stage[r] = "execution"
  BY <1>3, AnswerAdded
<1>6. CASE exec'[r] \in {"calling", "hung"} /\ stage' = stage /\ error' = error
  BY <1>1, <1>2, <1>3, <1>4, <1>5, <1>6, SettledServed DEF PipelineTyped, Told
<1>7. CASE exec'[r] = "done" /\ error' = error /\ GoTo(r, "formatter")
  <2>1. stage' \in [Request -> Stages] /\ \A q \in Request \ {r} : stage'[q] = stage[q]
    BY <1>1, <1>7 DEF PipelineTyped, GoTo, Stages
  <2> QED BY <1>1, <1>2, <1>3, <1>4, <1>7, <2>1, SettledServed DEF PipelineTyped, Told
<1>8. CASE /\ exec'[r] = "failed" /\ Proceed(r, "formatter")
           /\ error' = [error EXCEPT ![r] = Error("STREAM_FAILOVER_EXHAUSTED", FALSE, 502)]
  <2> DEFINE e == Error("STREAM_FAILOVER_EXHAUSTED", FALSE, 502)
  <2>1. e.status \in Nat \ {200} /\ e.code # "none" /\ e.retryable = FALSE
    BY DEF Error
  <2>2. /\ DOMAIN error' = Request /\ \A q \in Request \ {r} : error'[q] = error[q]
        /\ error'[r] = e /\ error'[r].status \in Nat \ {200}
    BY <1>1, <1>8, <2>1, ErrorSet, ZenonT(60)
  <2>3. GoTo(r, "handler")
    BY <1>8, <2>1, <2>2 DEF Proceed
  <2>4. /\ stage' \in [Request -> Stages] /\ stage'[r] = "handler"
        /\ \A q \in Request \ {r} : stage'[q] = stage[q]
    BY <1>1, <2>3 DEF PipelineTyped, GoTo, Stages
  <2>5. error'[r].code # "none" => error'[r].status \in Nat \ {200}
    BY <2>2
  <2>6. exec'[r] # "calling" /\ exec'[r] # "done" /\ stage'[r] # "formatter"
    BY <1>8, <2>4
  <2> HIDE DEF e
  <2> QED BY <1>2, <1>3, <1>4, <2>2, <2>4, <2>5, <2>6, SettledServed, ZenonT(60)
<1> QED BY <1>6, <1>7, <1>8 DEF StreamSettle

LEMMA HangServed ==
  ASSUME PipelineInv, NEW r \in Request, SingleHang(r)
  PROVE  Served(r)
<1>1. PipelineTyped /\ Told(r)
  BY DEF PipelineInv
<1>2. /\ r \notin Streaming /\ Answers(r, "cut") /\ exec' = [exec EXCEPT ![r] = "hung"]
      /\ content' = content /\ stage' = stage /\ error' = error /\ replies' = replies
  BY DEF SingleHang, Hang, pipelineVars
<1>3. /\ exec' \in [Request -> Execs] /\ exec'[r] = "hung"
      /\ \A q \in Request \ {r} : exec'[q] = exec[q]
  BY <1>1, <1>2 DEF PipelineTyped, Execs
<1> QED BY <1>1, <1>2, <1>3, SettledServed DEF PipelineTyped, Told

-----------------------------------------------------------------------------
(* The invariant holds for every choice of the constants.                   *)
THEOREM PipelineInvariant == Spec => []PipelineInv
<1> USE FailoverAssumption
<1>1. Init => PipelineInv
  <2> SUFFICES ASSUME Init PROVE PipelineInv
    OBVIOUS
  <2>1. PipelineTyped
    <3>1. <<>> \in Seq({}) /\ <<>> \in Seq(1..Chunks) /\ <<>> \in Seq(Nat)
      OBVIOUS
    <3>2. IsHistory(<<>>)
      BY <3>1 DEF IsHistory
    <3> QED BY <3>1, <3>2 DEF Init, FailoverInit, ExecInit, PipelineTyped, Execs, Stages
  <2>2. ASSUME NEW r \in Request PROVE Told(r) /\ Placed(r)
    <3>1. /\ stage[r] = "new" /\ replies[r] = <<>> /\ exec[r] = "idle"
          /\ error[r].code = "none" /\ Len(replies[r]) = 0
      BY DEF Init, FailoverInit, ExecInit, NoError
    <3> QED BY <3>1 DEF Told, Placed
  <2> QED BY <2>1, <2>2 DEF PipelineInv
<1>2. PipelineInv /\ [Next]_vars => PipelineInv'
  <2> SUFFICES ASSUME PipelineInv, [Next]_vars PROVE PipelineInv'
    OBVIOUS
  <2>1. ASSUME NEW r \in Request, Arrive(r) PROVE PipelineInv'
    BY <2>1, ArriveServed, ServedSuffices
  <2>2. ASSUME NEW r \in Request, Advance(r) PROVE Served(r)
    BY <2>2, CheckHealthServed, SingleServed, HangServed, StreamServed, FormatServed,
       AnalyzeServed, RespondServed DEF Advance
  <2>3. CASE UNCHANGED vars
    <3>1. /\ exec' = exec /\ content' = content /\ answers' = answers /\ stage' = stage
          /\ replies' = replies /\ error' = error
      BY <2>3 DEF vars, failoverVars, execVars, pipelineVars
    <3>2. ASSUME NEW q \in Request, Told(q), Placed(q) PROVE Told(q)' /\ Placed(q)'
      BY <3>1, <3>2 DEF Told, Placed, Finished
    <3>3. PipelineTyped'
      BY <3>1 DEF PipelineInv, PipelineTyped
    <3> QED BY <3>2, <3>3 DEF PipelineInv
  <2> QED BY <2>1, <2>2, <2>3, ServedSuffices DEF Next
<1> QED BY <1>1, <1>2, PTL DEF Spec

(* No client gets two responses, although the middleware, the formatter     *)
(* stage and the route handler each send one.                               *)
THEOREM PipelineAnsweredAtMostOnce == Spec => []AnsweredAtMostOnce
<1>1. PipelineInv => AnsweredAtMostOnce
  BY DEF PipelineInv, Told, AnsweredAtMostOnce
<1> QED BY <1>1, PipelineInvariant, PTL

(* A streaming client told 200 got an answer that a provider finished, with *)
(* all its deltas at the end of the text.                                   *)
THEOREM PipelineSuccessIsFinished == Spec => []SuccessIsFinished
<1>1. PipelineInv => SuccessIsFinished
  <2> SUFFICES ASSUME PipelineInv, NEW r \in Streaming,
                      NEW k \in 1..Len(replies[r]), replies[r][k] = 200
               PROVE  Finished(r)
    BY DEF SuccessIsFinished, Finished
  <2>1. r \in Request
    BY PipelineAssumption DEF PipelineAssumption
  <2> QED BY <2>1 DEF PipelineInv, Placed
<1> QED BY <1>1, PipelineInvariant, PTL

-----------------------------------------------------------------------------
(* The counts.                                                              *)

LEMMA FilteredType ==
  ASSUME NEW S, NEW list \in Seq(S), NEW wanted
  PROVE  Filtered(list, wanted) \in Seq(S)
<1> DEFINE D == Seq(S)
           G == [x \in D \X S |-> IF x[2] \in wanted THEN Append(x[1], x[2]) ELSE x[1]]
           Folded(f) == f = [s \in SUBSET (DOMAIN list) |->
             IF s = {} THEN <<>>
             ELSE IF list[Max(s)] \in wanted
                  THEN Append(f[s \ {Max(s)}], list[Max(s)])
                  ELSE f[s \ {Max(s)}]]
<1>1. <<>> \in D /\ Len(list) \in Nat /\ DOMAIN list = 1..Len(list)
  OBVIOUS
<1>2. /\ \A k \in D, p \in S : G[<<k, p>>] = IF p \in wanted THEN Append(k, p) ELSE k
      /\ G \in [D \X S -> D]
  <2>1. ASSUME NEW k \in D, NEW p \in S
        PROVE  Append(k, p) \in D
    OBVIOUS
  <2> QED
    BY <2>1
<1> HIDE DEF G
<1>3. ASSUME NEW s \in SUBSET (DOMAIN list), s # {}
      PROVE  list[Max(s)] \in S /\ s \ {Max(s)} \in SUBSET (DOMAIN list)
  <2>1. Max(s) \in DOMAIN list
    BY <1>1, <1>3, MaxIs
  <2> QED
    BY <1>1, <2>1
<1>4. PICK h \in [SUBSET (DOMAIN list) -> D] : IsRun(h, G, <<>>, list)
  BY <1>1, <1>2, RunExists
<1>5. Folded(h)
  <2>1. ASSUME NEW s \in SUBSET (DOMAIN list), s # {}
        PROVE  h[s] = IF list[Max(s)] \in wanted
                      THEN Append(h[s \ {Max(s)}], list[Max(s)])
                      ELSE h[s \ {Max(s)}]
    BY <1>2, <1>3, <1>4, <2>1 DEF IsRun
  <2>2. {} \in SUBSET (DOMAIN list) => h[{}] = <<>>
    BY <1>4 DEF IsRun
  <2> QED
    BY <1>4, <2>1, <2>2
<1>6. PICK f : Folded(f) /\ Filtered(list, wanted) = f[DOMAIN list]
  BY <1>5 DEF Filtered, FoldLeft, MapThenFoldSet
<1>7. f[{}] = <<>> /\ Follows(f, D, G, list)
  <2>1. {} \in SUBSET (DOMAIN list)
    OBVIOUS
  <2>2. ASSUME NEW s \in SUBSET (DOMAIN list), s # {}, f[s \ {Max(s)}] \in D
        PROVE  f[s] = G[<<f[s \ {Max(s)}], list[Max(s)]>>]
    BY <1>2, <1>3, <1>6, <2>2
  <2> QED
    BY <1>6, <2>1, <2>2 DEF Follows
<1>8. Foldable(D, S, G, <<>>, list)
  BY <1>1, <1>2 DEF Foldable
<1>9. f[DOMAIN list] = FoldOf(G, <<>>, list) /\ FoldOf(G, <<>>, list) \in D
  <2> HIDE DEF D, Folded
  <2> QED
    BY <1>7, <1>8, FoldIs
<1> QED
  BY <1>6, <1>9

Settled == [r \in Request |-> posts[r] - Pending(r)]
Analysed == [p \in Provider |-> reported[p].success + reported[p].failure]
Totals == [p \in Provider |-> record[p].total]

Counts == 
  SumFunctionOnSet(Totals, Provider)
    = SumFunctionOnSet(Settled, Request) + SumFunctionOnSet(Analysed, Provider)

(* What is called is a link of the chain, and so a provider.                *)
CallTyped ==
  /\ chain \in [Request -> Seq(Provider)]
  /\ link \in [Request -> Nat]
  /\ posts \in [Request -> Nat]
  /\ \A r \in Request : exec[r] = "calling" => link[r] \in 1..Len(chain[r])

TotalsTyped ==
  /\ DOMAIN record = Provider
  /\ \A p \in Provider : "total" \in DOMAIN record[p] /\ record[p].total \in Nat

ReportedTyped == reported \in [Provider -> [success : Nat, failure : Nat]]

CountInv == CallTyped /\ TotalsTyped /\ ReportedTyped /\ Counts

LEMMA CountsSum ==
  ASSUME PipelineTyped, CountInv
  PROVE  /\ Summable(Totals, Provider) /\ Summable(Settled, Request) /\ Summable(Analysed, Provider)
         /\ SumFunctionOnSet(Totals, Provider) \in Int
         /\ SumFunctionOnSet(Settled, Request) \in Int
         /\ SumFunctionOnSet(Analysed, Provider) \in Int
<1>1. IsFiniteSet(Provider) /\ IsFiniteSet(Request)
  BY PipelineAssumption DEF PipelineAssumption
<1>2. Summable(Totals, Provider)
  BY <1>1 DEF Summable, Totals, CountInv, TotalsTyped
<1>3. Summable(Settled, Request)
  <2>1. ASSUME NEW r \in Request
        PROVE  Settled[r] \in Int
    BY DEF Settled, Pending, CountInv, CallTyped
  <2> QED
    BY <1>1, <2>1 DEF Summable
<1>4. Summable(Analysed, Provider)
  <2>1. ASSUME NEW p \in Provider
        PROVE  Analysed[p] \in Int
    <3>1. reported[p].success \in Nat /\ reported[p].failure \in Nat
      BY DEF CountInv, ReportedTyped
    <3> QED
      BY <3>1 DEF Analysed
  <2> QED
    BY <1>1, <2>1 DEF Summable
<1> QED
  BY <1>2, <1>3, <1>4, SumType

(* The tracker's records: one more for p, or as they were.                  *)
LEMMA OneRecorded ==
  ASSUME PipelineTyped, CountInv, NEW p \in Provider,
         \/ \E latency : Tracker!RecordSuccess(p, latency)
         \/ \E auth : Tracker!RecordFailure(p, auth)
  PROVE  /\ TotalsTyped'
         /\ SumFunctionOnSet(Totals', Provider) = SumFunctionOnSet(Totals, Provider) + 1
<1>1. TotalsTyped /\ Summable(Totals, Provider)
  BY CountsSum DEF CountInv
<1> DEFINE Grown ==
             /\ DOMAIN record' = Provider /\ \A q \in Provider \ {p} : record'[q] = record[q]
             /\ "total" \in DOMAIN record'[p] /\ record'[p].total = record[p].total + 1
<1>2. Grown
  <2>1. ASSUME NEW latency, Tracker!RecordSuccess(p, latency)
        PROVE  Grown
    BY <1>1, <2>1 DEF Tracker!RecordSuccess, TotalsTyped
  <2>2. ASSUME NEW auth, Tracker!RecordFailure(p, auth)
        PROVE  Grown
    BY <1>1, <2>2 DEF Tracker!RecordFailure, Tracker!Failed, TotalsTyped
  <2> HIDE DEF Grown
  <2> QED
    BY <2>1, <2>2
<1>3. TotalsTyped'
  BY <1>1, <1>2 DEF TotalsTyped
<1>4. PICK v : v = Totals'
  OBVIOUS
<1>5. v[p] = Totals[p] + 1 /\ SameOn(v, Totals, Provider \ {p})
  BY <1>2, <1>4 DEF Totals, SameOn
<1>6. SumFunctionOnSet(v, Provider) = SumFunctionOnSet(Totals, Provider) + 1
  <2>1. 1 \in Int
    OBVIOUS
  <2> QED
    BY <1>1, <1>5, <2>1, SumChanges
<1> QED
  BY <1>3, <1>4, <1>6

LEMMA NoneRecorded ==
  ASSUME CountInv, record' = record
  PROVE  TotalsTyped' /\ Totals' = Totals
BY DEF CountInv, TotalsTyped, Totals

(* The posts of r, settled or pending, and those of the others.             *)
LEMMA SettledChanges ==
  ASSUME PipelineTyped, CountInv, NEW r \in Request, NEW d \in Int,
         (posts[r] - Pending(r))' = posts[r] - Pending(r) + d,
         \A q \in Request \ {r} : posts'[q] = posts[q] /\ exec'[q] = exec[q]
  PROVE  SumFunctionOnSet(Settled', Request) = SumFunctionOnSet(Settled, Request) + d
<1>1. Summable(Settled, Request)
  BY CountsSum
<1>2. PICK v : v = Settled'
  OBVIOUS
<1>3. v[r] = Settled[r] + d /\ SameOn(v, Settled, Request \ {r})
  BY <1>2 DEF Settled, SameOn, Pending
<1>4. SumFunctionOnSet(v, Request) = SumFunctionOnSet(Settled, Request) + d
  BY <1>1, <1>3, SumChanges
<1> QED
  BY <1>2, <1>4

(* The for statement leaves the call pending, with a post more, or ends it. *)
LEMMA TryPosts ==
  ASSUME PipelineTyped, CountInv, NEW r \in Request, NEW i \in Nat, NEW n, Try(r, i, n), i >= 1,
         chain' \in [Request -> Seq(Provider)],
         \A q \in Request \ {r} : chain'[q] = chain[q]
  PROVE  /\ CallTyped'
         /\ (posts[r] - Pending(r))' = posts[r]
         /\ \A q \in Request \ {r} : posts'[q] = posts[q] /\ exec'[q] = exec[q]
<1>1. CallTyped /\ exec \in [Request -> Execs] /\ posts[r] \in Nat
  BY DEF CountInv, CallTyped, PipelineTyped
<1>2. /\ link' \in [Request -> Nat] /\ link'[r] = i
      /\ \A q \in Request \ {r} : link'[q] = link[q]
  BY <1>1 DEF Try, CallTyped
<1>3. /\ posts' \in [Request -> Nat]
      /\ \A q \in Request \ {r} : posts'[q] = posts[q] /\ exec'[q] = exec[q]
      /\ \/ exec'[r] = "calling" /\ posts'[r] = posts[r] + 1 /\ i <= Len(chain'[r])
         \/ exec'[r] = "failed" /\ posts'[r] = posts[r]
  BY <1>1 DEF Try, CallTyped
<1>4. exec'[r] = "calling" => link'[r] \in 1..Len(chain'[r])
  <2>1. Len(chain'[r]) \in Nat
    OBVIOUS
  <2> QED
    BY <1>2, <1>3, <2>1
<1>5. CallTyped'
  BY <1>1, <1>2, <1>3, <1>4 DEF CallTyped
<1>6. (posts[r] - Pending(r))' = posts[r]
  BY <1>1, <1>3 DEF Pending
<1> QED
  BY <1>3, <1>5, <1>6

(* An upstream answer that is counted.                                      *)
LEMMA AnswerCounted ==
  ASSUME PipelineTyped, CountInv, NEW r \in Request, exec[r] = "calling",
         \/ \E latency : Tracker!RecordSuccess(Current(r), latency)
         \/ \E auth : Tracker!RecordFailure(Current(r), auth),
         CallTyped', (posts[r] - Pending(r))' = posts[r],
         \A q \in Request \ {r} : posts'[q] = posts[q] /\ exec'[q] = exec[q],
         reported' = reported
  PROVE  CountInv'
<1>1. Current(r) \in Provider
  BY DEF CountInv, CallTyped, Current
<1>2. TotalsTyped' /\ SumFunctionOnSet(Totals', Provider) = SumFunctionOnSet(Totals, Provider) + 1
  BY <1>1, OneRecorded
<1>3. posts[r] = posts[r] - Pending(r) + 1
  BY DEF CountInv, CallTyped, Pending
<1>4. SumFunctionOnSet(Settled', Request) = SumFunctionOnSet(Settled, Request) + 1
  BY <1>3, SettledChanges
<1>5. ReportedTyped' /\ Analysed' = Analysed
  BY DEF CountInv, ReportedTyped, Analysed
<1>6. /\ SumFunctionOnSet(Totals, Provider) \in Int
      /\ SumFunctionOnSet(Settled, Request) \in Int
      /\ SumFunctionOnSet(Analysed, Provider) \in Int
  BY CountsSum
<1>7. Counts'
  <2>1. SumFunctionOnSet(Analysed', Provider) = SumFunctionOnSet(Analysed, Provider)
    BY <1>5
  <2> QED
    BY <1>2, <1>4, <1>6, <2>1 DEF Counts, CountInv
<1> QED
  BY <1>2, <1>5, <1>7 DEF CountInv

(* A step that counts nothing.                                              *)
LEMMA NothingCounted ==
  ASSUME PipelineTyped, CountInv, CallTyped', record' = record, reported' = reported,
         \A q \in Request : (posts[q] - Pending(q))' = posts[q] - Pending(q)
  PROVE  CountInv'
<1>1. TotalsTyped' /\ Totals' = Totals
  BY NoneRecorded
<1>2. Settled' = Settled
  BY DEF Settled
<1>3. ReportedTyped' /\ Analysed' = Analysed
  BY DEF CountInv, ReportedTyped, Analysed
<1>4. Counts'
  BY <1>1, <1>2, <1>3 DEF Counts, CountInv
<1> QED
  BY <1>1, <1>3, <1>4 DEF CountInv

(* A step outside the execution.                                            *)
LEMMA ElsewhereCounted ==
  ASSUME PipelineTyped, CountInv, UNCHANGED execVars, record' = record, reported' = reported
  PROVE  CountInv'
<1>1. exec' = exec /\ chain' = chain /\ link' = link /\ posts' = posts
  BY DEF execVars
<1>2. CallTyped'
  BY <1>1 DEF CountInv, CallTyped
<1>3. \A q \in Request : (posts[q] - Pending(q))' = posts[q] - Pending(q)
  BY <1>1 DEF Pending
<1> QED
  BY <1>2, <1>3, NothingCounted

(* The call of r is waited for: it is asked of a provider.                  *)
LEMMA CalledLink ==
  ASSUME PipelineTyped, CountInv, NEW r \in Request, NEW a, Answers(r, a)
  PROVE  /\ exec[r] = "calling" /\ chain' = chain
         /\ chain' \in [Request -> Seq(Provider)]
         /\ link[r] + 1 \in Nat /\ link[r] + 1 >= 1 /\ link[r] \in Nat /\ link[r] >= 1
BY DEF Answers, CountInv, CallTyped

(* The call ends without another post.                                      *)
LEMMA EndedPosts ==
  ASSUME PipelineTyped, CountInv, NEW r \in Request, NEW a, Answers(r, a),
         NEW e \in {"done", "failed"}, exec' = [exec EXCEPT ![r] = e],
         link' = link, posts' = posts
  PROVE  /\ CallTyped'
         /\ (posts[r] - Pending(r))' = posts[r]
         /\ \A q \in Request \ {r} : posts'[q] = posts[q] /\ exec'[q] = exec[q]
<1>1. chain' = chain /\ CallTyped /\ exec \in [Request -> Execs]
  BY CalledLink DEF CountInv, PipelineTyped
<1>2. /\ exec' \in [Request -> Execs] /\ exec'[r] = e
      /\ \A q \in Request \ {r} : exec'[q] = exec[q]
  BY <1>1 DEF Execs
<1>3. CallTyped'
  BY <1>1, <1>2 DEF CallTyped
<1>4. (posts[r] - Pending(r))' = posts[r]
  BY <1>1, <1>2 DEF Pending, CallTyped
<1> QED
  BY <1>2, <1>3, <1>4

LEMMA RepeatCounted ==
  ASSUME PipelineTyped, CountInv, NEW r \in Request, NEW a, Repeat(r, a), reported' = reported
  PROVE  CountInv'
<1>1. /\ Answers(r, a) /\ record' = record
      /\ exec' = exec /\ link' = link /\ posts' = posts
  BY DEF Repeat, trackerVars
<1>2. chain' = chain
  BY <1>1, CalledLink
<1>3. CallTyped'
  BY <1>1, <1>2 DEF CountInv, CallTyped
<1>4. \A q \in Request : (posts[q] - Pending(q))' = posts[q] - Pending(q)
  BY <1>1 DEF Pending
<1> QED
  BY <1>1, <1>3, <1>4, NothingCounted

LEMMA HangCounted ==
  ASSUME PipelineTyped, CountInv, NEW r \in Request, Hang(r), reported' = reported
  PROVE  CountInv'
<1>1. /\ Answers(r, "cut") /\ record' = record
      /\ exec' = [exec EXCEPT ![r] = "hung"] /\ link' = link /\ posts' = posts
  BY DEF Hang, trackerVars
<1>2. chain' = chain /\ exec[r] = "calling"
  BY <1>1, CalledLink
<1>3. exec'[r] = "hung" /\ \A q \in Request \ {r} : exec'[q] = exec[q]
  BY <1>1 DEF PipelineTyped
<1>4. CallTyped'
  BY <1>1, <1>2, <1>3 DEF CountInv, CallTyped
<1>5. \A q \in Request : (posts[q] - Pending(q))' = posts[q] - Pending(q)
  BY <1>1, <1>2, <1>3 DEF Pending
<1> QED
  BY <1>1, <1>4, <1>5, NothingCounted

(* On to another post, or to the end of the loop, with an answer recorded.  *)
LEMMA TryCounted ==
  ASSUME PipelineTyped, CountInv, NEW r \in Request, NEW a, Answers(r, a),
         \/ \E latency : Tracker!RecordSuccess(Current(r), latency)
         \/ \E auth : Tracker!RecordFailure(Current(r), auth),
         NEW i \in {link[r], link[r] + 1}, NEW n, Try(r, i, n), reported' = reported
  PROVE  CountInv'
<1>1. /\ exec[r] = "calling" /\ chain' = chain /\ chain' \in [Request -> Seq(Provider)]
      /\ i \in Nat /\ i >= 1
  BY CalledLink
<1>2. \A q \in Request \ {r} : chain'[q] = chain[q]
  BY <1>1
<1>3. /\ CallTyped' /\ (posts[r] - Pending(r))' = posts[r]
      /\ \A q \in Request \ {r} : posts'[q] = posts[q] /\ exec'[q] = exec[q]
  BY <1>1, <1>2, TryPosts
<1> QED
  BY <1>1, <1>3, AnswerCounted

LEMMA EndCounted ==
  ASSUME PipelineTyped, CountInv, NEW r \in Request, NEW a, Answers(r, a),
         \/ \E latency : Tracker!RecordSuccess(Current(r), latency)
         \/ \E auth : Tracker!RecordFailure(Current(r), auth),
         NEW e \in {"done", "failed"}, exec' = [exec EXCEPT ![r] = e],
         link' = link, posts' = posts, reported' = reported
  PROVE  CountInv'
<1>1. exec[r] = "calling"
  BY CalledLink
<1>2. /\ CallTyped' /\ (posts[r] - Pending(r))' = posts[r]
      /\ \A q \in Request \ {r} : posts'[q] = posts[q] /\ exec'[q] = exec[q]
  BY EndedPosts
<1> QED
  BY <1>1, <1>2, AnswerCounted

LEMMA SettleCounted ==
  ASSUME PipelineTyped, CountInv, NEW r \in Request, Settle(r), reported' = reported
  PROVE  CountInv'
<1>1. ASSUME NEW a \in Answer, Fail(r, a)
      PROVE  CountInv'
  <2>1. /\ Answers(r, a)
        /\ \E auth : Tracker!RecordFailure(Current(r), auth)
        /\ \E i \in {link[r], link[r] + 1} : \E n : Try(r, i, n)
    BY <1>1 DEF Fail
  <2> QED
    BY <2>1, TryCounted
<1>2. ASSUME NEW latency, Finish(r, latency)
      PROVE  CountInv'
  <2>1. /\ Answers(r, "complete") /\ Tracker!RecordSuccess(Current(r), latency)
        /\ exec' = [exec EXCEPT ![r] = "done"] /\ link' = link /\ posts' = posts
    BY <1>2 DEF Finish
  <2> QED
    BY <2>1, EndCounted
<1>3. ASSUME NEW a, NEW n, NEW latency, BreakOff(r, a, n, latency)
      PROVE  CountInv'
  <2>1. /\ Answers(r, a) /\ Tracker!RecordSuccess(Current(r), latency)
        /\ Try(r, link[r] + 1, attempts[r])
    BY <1>3 DEF BreakOff
  <2> QED
    BY <2>1, TryCounted
<1>4. ASSUME NEW a \in Answer, Repeat(r, a)
      PROVE  CountInv'
  BY <1>4, RepeatCounted
<1>5. CASE Hang(r)
  BY <1>5, HangCounted
<1>6. \/ \E a \in Answer : Repeat(r, a)
      \/ \E a \in Answer : Fail(r, a)
      \/ Hang(r)
      \/ \E latency : Finish(r, latency)
      \/ \E latency, a, n : BreakOff(r, a, n, latency)
  BY DEF Settle
<1> QED
  BY <1>1, <1>2, <1>3, <1>4, <1>5, <1>6, Zenon

LEMMA SingleCounted ==
  ASSUME PipelineTyped, CountInv, NEW r \in Request, NEW a,
         SingleFail(r, a) \/ SingleSucceed(r, a)
  PROVE  CountInv'
<1>1. CASE SingleFail(r, a)
  <2>1. /\ Answers(r, a) /\ \E auth : Tracker!RecordFailure(Current(r), auth)
        /\ reported' = reported
    BY <1>1 DEF SingleFail
  <2>2. \/ exec' = [exec EXCEPT ![r] = "failed"] /\ link' = link /\ posts' = posts
        \/ Try(r, link[r] + 1, 0)
    BY <1>1 DEF SingleFail
  <2> QED
    BY <2>1, <2>2, TryCounted, EndCounted
<1>2. CASE SingleSucceed(r, a)
  <2>1. /\ Answers(r, a) /\ Tracker!RecordSuccess(Current(r), 0)
        /\ exec' = [exec EXCEPT ![r] = "done"] /\ link' = link /\ posts' = posts
        /\ reported' = reported
    BY <1>2 DEF SingleSucceed
  <2> QED
    BY <2>1, EndCounted
<1> QED
  BY <1>1, <1>2

LEMMA CheckHealthCounted ==
  ASSUME FailoverAssumption, PipelineTyped, CountInv, NEW r \in Request, CheckHealth(r)
  PROVE  CountInv'
<1> DEFINE healthy == Filtered(Chain[r], {p \in Listed(r) : Tracker!Healthy(p)})
<1>1. record' = record /\ reported' = reported
  BY DEF CheckHealth, Tracker!Consult
<1>2. healthy \in Seq(Provider)
  BY FilteredType DEF FailoverAssumption
<1>3. Start(r, healthy) \/ UNCHANGED execVars
  BY DEF CheckHealth
<1> HIDE DEF healthy
<1>4. CASE Start(r, healthy)
  <2>1. /\ exec[r] = "idle" /\ Try(r, 1, 0)
        /\ chain' = [chain EXCEPT ![r] = healthy]
    BY <1>4 DEF Start
  <2>2. /\ chain' \in [Request -> Seq(Provider)]
        /\ \A q \in Request \ {r} : chain'[q] = chain[q]
    BY <1>2, <2>1 DEF CountInv, CallTyped
  <2>3. /\ CallTyped' /\ (posts[r] - Pending(r))' = posts[r]
        /\ \A q \in Request \ {r} : posts'[q] = posts[q] /\ exec'[q] = exec[q]
    <3>1. 1 \in Nat /\ 1 >= 1
      OBVIOUS
    <3> QED
      BY <2>1, <2>2, <3>1, TryPosts
  <2>4. posts[r] - Pending(r) = posts[r]
    BY <2>1 DEF Pending, CountInv, CallTyped
  <2>5. \A q \in Request : (posts[q] - Pending(q))' = posts[q] - Pending(q)
    BY <2>3, <2>4 DEF Pending
  <2> QED
    BY <1>1, <2>3, <2>5, NothingCounted
<1>5. CASE UNCHANGED execVars
  BY <1>1, <1>5, ElsewhereCounted
<1> QED
  BY <1>3, <1>4, <1>5

(* The analytics count the outcome against the first provider, in the       *)
(* tracker and in the monitoring.                                           *)
LEMMA AnalyzeCounted ==
  ASSUME FailoverAssumption, PipelineTyped, CountInv, NEW r \in Request, NEW latency,
         Analyze(r, latency)
  PROVE  CountInv'
<1>1. PICK first : 
        /\ first = IF chain[r] = <<>> THEN Chain[r][1] ELSE chain[r][1]
        /\ \/ /\ Tracker!RecordSuccess(first, latency)
              /\ reported' = [reported EXCEPT ![first].success = @ + 1]
           \/ /\ Tracker!RecordFailure(first, error[r].status = 401)
              /\ reported' = [reported EXCEPT ![first].failure = @ + 1]
  BY DEF Analyze
<1>2. first \in Provider
  <2>1. chain[r] \in Seq(Provider) /\ Chain[r] \in Seq(Provider) /\ Chain[r] # <<>>
    BY PipelineAssumption DEF PipelineAssumption, FailoverAssumption, CountInv, CallTyped
  <2>2. ASSUME NEW q \in Seq(Provider), q # <<>>
        PROVE  q[1] \in Provider
    <3>1. Len(q) \in Nat /\ Len(q) # 0
      BY <2>2, EmptySeq
    <3>2. 1 \in 1..Len(q)
      BY <3>1
    <3> QED
      BY <3>2
  <2> QED
    BY <1>1, <2>1, <2>2
<1>3. TotalsTyped' /\ SumFunctionOnSet(Totals', Provider) = SumFunctionOnSet(Totals, Provider) + 1
  BY <1>1, <1>2, OneRecorded
<1>4. /\ ReportedTyped'
      /\ \A q \in Provider \ {first} : reported'[q] = reported[q]
      /\ reported'[first].success + reported'[first].failure
           = reported[first].success + reported[first].failure + 1
  <2>1. /\ reported \in [Provider -> [success : Nat, failure : Nat]]
        /\ reported[first].success \in Nat /\ reported[first].failure \in Nat
    BY <1>2 DEF CountInv, ReportedTyped
  <2>2. CASE reported' = [reported EXCEPT ![first].success = @ + 1]
    <3>1. /\ ReportedTyped'
          /\ \A q \in Provider \ {first} : reported'[q] = reported[q]
          /\ reported'[first].success = reported[first].success + 1
          /\ reported'[first].failure = reported[first].failure
      BY <1>2, <2>1, <2>2 DEF ReportedTyped
    <3>2. PICK a \in Nat, b \in Nat : a = reported[first].success /\ b = reported[first].failure
      BY <2>1
    <3>3. reported'[first].success + reported'[first].failure = (a + 1) + b
      BY <3>1, <3>2
    <3>4. (a + 1) + b = (a + b) + 1
      OBVIOUS
    <3> QED
      BY <3>1, <3>2, <3>3, <3>4
  <2>3. CASE reported' = [reported EXCEPT ![first].failure = @ + 1]
    <3>1. /\ ReportedTyped'
          /\ \A q \in Provider \ {first} : reported'[q] = reported[q]
          /\ reported'[first].success = reported[first].success
          /\ reported'[first].failure = reported[first].failure + 1
      BY <1>2, <2>1, <2>3 DEF ReportedTyped
    <3>2. PICK a \in Nat, b \in Nat : a = reported[first].success /\ b = reported[first].failure
      BY <2>1
    <3>3. reported'[first].success + reported'[first].failure = a + (b + 1)
      BY <3>1, <3>2
    <3>4. a + (b + 1) = (a + b) + 1
      OBVIOUS
    <3> QED
      BY <3>1, <3>2, <3>3, <3>4
  <2> QED
    BY <1>1, <2>2, <2>3
<1>5. /\ Summable(Analysed, Provider)
      /\ SumFunctionOnSet(Totals, Provider) \in Int
      /\ SumFunctionOnSet(Settled, Request) \in Int
      /\ SumFunctionOnSet(Analysed, Provider) \in Int
  BY CountsSum
<1>6. SumFunctionOnSet(Analysed', Provider) = SumFunctionOnSet(Analysed, Provider) + 1
  <2>1. PICK v : v = Analysed'
    OBVIOUS
  <2>2. v[first] = Analysed[first] + 1 /\ SameOn(v, Analysed, Provider \ {first})
    BY <1>2, <1>4, <2>1 DEF Analysed, SameOn
  <2>3. 1 \in Int
    OBVIOUS
  <2>4. SumFunctionOnSet(v, Provider) = SumFunctionOnSet(Analysed, Provider) + 1
    BY <1>2, <1>5, <2>2, <2>3, SumChanges
  <2> QED
    BY <2>1, <2>4
<1>7. exec' = exec /\ chain' = chain /\ link' = link /\ posts' = posts
  BY DEF Analyze, execVars
<1>8. CallTyped' /\ Settled' = Settled
  BY <1>7 DEF CountInv, CallTyped, Settled, Pending
<1>9. Counts'
  <2>1. SumFunctionOnSet(Settled', Request) = SumFunctionOnSet(Settled, Request)
    BY <1>8
  <2> QED
    BY <1>3, <1>5, <1>6, <2>1 DEF Counts, CountInv
<1> QED
  BY <1>3, <1>4, <1>8, <1>9 DEF CountInv

LEMMA StepCounted ==
  ASSUME FailoverAssumption, PipelineInv, CountInv, [Next]_vars
  PROVE  CountInv'
<1>0. PipelineTyped
  BY DEF PipelineInv
<1>1. ASSUME NEW r \in Request, Arrive(r) \/ FormatResponse(r) \/ Respond(r)
      PROVE  CountInv'
  <2>1. UNCHANGED execVars /\ record' = record /\ reported' = reported
    BY <1>1 DEF Arrive, RejectAuth, RejectProtocol, Admit, FormatResponse, Respond,
                failoverVars, trackerVars
  <2> QED
    BY <1>0, <2>1, ElsewhereCounted
<1>2. ASSUME NEW r \in Request, NEW a, SingleRepeat(r, a)
      PROVE  CountInv'
  BY <1>0, <1>2, RepeatCounted DEF SingleRepeat, pipelineVars
<1>3. ASSUME NEW r \in Request, SingleHang(r)
      PROVE  CountInv'
  BY <1>0, <1>3, HangCounted DEF SingleHang, pipelineVars
<1>4. ASSUME NEW r \in Request, StreamSettle(r)
      PROVE  CountInv'
  BY <1>0, <1>4, SettleCounted DEF StreamSettle
<1>5. CASE UNCHANGED vars
  <2>1. UNCHANGED execVars /\ record' = record /\ reported' = reported
    BY <1>5 DEF vars, failoverVars, trackerVars, pipelineVars
  <2> QED
    BY <1>0, <2>1, ElsewhereCounted
<1>6. ASSUME NEW r \in Request, Advance(r)
      PROVE  CountInv'
  BY <1>0, <1>1, <1>2, <1>3, <1>4, <1>6, CheckHealthCounted, SingleCounted, AnalyzeCounted
     DEF Advance
<1> QED
  BY <1>1, <1>5, <1>6 DEF Next

(* Each upstream answer that reached a stage and each request that reached  *)
(* the analytics is recorded once, however the requests interleave, and the *)
(* monitoring counts the latter.                                            *)
THEOREM PipelineAnalyticsCounted == Spec => []AnalyticsCounted
<1> USE FailoverAssumption
<1>1. Init => CountInv
  <2> SUFFICES ASSUME Init PROVE CountInv
    OBVIOUS
  <2>1. CallTyped /\ TotalsTyped /\ ReportedTyped
    BY DEF Init, FailoverInit, ExecInit, Tracker!TrackerInit, Tracker!Fresh,
           CallTyped, TotalsTyped, ReportedTyped
  <2>2. Totals = [p \in Provider |-> 0] /\ Settled = [r \in Request |-> 0]
        /\ Analysed = [p \in Provider |-> 0]
    BY DEF Init, FailoverInit, ExecInit, Tracker!TrackerInit, Tracker!Fresh,
           Totals, Settled, Pending, Analysed
  <2>3. /\ SumFunctionOnSet([p \in Provider |-> 0], Provider) = 0
        /\ SumFunctionOnSet([r \in Request |-> 0], Request) = 0
    BY SumZero, PipelineAssumption DEF PipelineAssumption
  <2> QED
    BY <2>1, <2>2, <2>3 DEF CountInv, Counts
<1>2. PipelineInv /\ CountInv /\ [Next]_vars => CountInv'
  BY StepCounted
<1>3. CountInv => AnalyticsCounted
  BY DEF CountInv, Counts, AnalyticsCounted, Totals, Settled, Analysed, SumFunction
<1> QED
  BY <1>1, <1>2, <1>3, PipelineInvariant, PTL DEF Spec

=============================================================================
