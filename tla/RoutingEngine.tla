----------------------------- MODULE RoutingEngine -----------------------------
(***************************************************************************)
(* The routing engine: RoutingService, which resolves by the configuration *)
(* it has loaded, and IntelligentRouter, which ranks by the health scores  *)
(* of ProviderHealthTracker the providers of the file as it is now.  An    *)
(* administrator edits the two files at any moment, also between the two   *)
(* reads of a reload; everything else in the process is synchronous.       *)
(*                                                                         *)
(* A providers file is known by the providers it enables and by whether it *)
(* is valid, JSON that the schema refuses, broken, or missing; a policy    *)
(* file by its tiers or by being refused.  Aliases are the subject of      *)
(* AliasStore.                                                             *)
(***************************************************************************)
EXTENDS ProviderHealthTracker, FiniteSets, SequencesExt

CONSTANTS
  FileOrder,    \* the providers in the order of providers.json
  Policies,     \* the policies an administrator may write, as sequences of tiers
  Refused,      \* a policy file that the schema refuses or that cannot be parsed
  Missing,      \* no policy file
  Contents,     \* the contents of providers.json an administrator may write
  MaxSteps      \* bound of the requests recorded and the writes together

ASSUME RoutingAssumption ==
  /\ FileOrder \in Seq(Provider) /\ IsInjective(FileOrder) /\ ToSet(FileOrder) = Provider
  /\ Policies \subseteq Seq(Seq(Provider)) /\ {Refused, Missing} \cap Policies = {}
  /\ Contents \subseteq [on : SUBSET Provider, state : {"valid", "invalid"}]
                    \cup [on : {{}}, state : {"broken", "missing"}]
  /\ MaxSteps \in Nat

VARIABLES
  policyFile,     \* routing-policy.json: one of Policies, Refused or Missing
  providersFile,  \* providers.json: what it enables and its state
  policy,         \* this.routingPolicy, its tiers
  providers,      \* this.providers, those enabled
  reloading,      \* a reload has taken over the policy and not read the providers
  writes,         \* history: the number of writes
  began,          \* history: writes before the reload that is running
  agreed          \* history: writes before the last reload that reported success

files == <<policyFile, providersFile, writes>>
loaded == <<policy, providers, reloading, began, agreed>>
routingVars == <<trackerVars, files, loaded>>

(* The constructor has loaded both files; an error in one ends the process. *)
RoutingInit ==
  /\ TrackerInit
  /\ policyFile \in Policies
  /\ providersFile = [on |-> Provider, state |-> "valid"]
  /\ policy = policyFile
  /\ providers = providersFile.on
  /\ reloading = FALSE
  /\ writes = 0 /\ began = 0 /\ agreed = 0

-----------------------------------------------------------------------------
(* Resolution by what is loaded.                                            *)

(* resolveModel() of a model of provider p: whether it is resolved.         *)
Resolves(p) == p \in providers

(* filter(): the members of a list that are wanted, in its order.           *)
Filtered(list, wanted) ==
  FoldLeft(LAMBDA kept, p : IF p \in wanted THEN Append(kept, p) ELSE kept, <<>>, list)

(* getChain() by tiers pol and the enabled providers on: those of all tiers, *)
(* one tier after another.                                                  *)
Chain(pol, on) == Filtered(FlattenSeq(pol), on)

-----------------------------------------------------------------------------
(* Ranking by health.                                                       *)

(* Hundredths h for which the difference of h/100 and (h-1)/100, as doubles *)
(* of 64 bits, is not above 0.01: for the other neighbours rounding makes   *)
(* it larger.                                                               *)
NoApart == {1, 2, 3, 6, 8, 9, 11, 12, 15, 18, 21, 24, 29, 35, 41, 47, 57, 69, 82, 94}

(* Faulty variant: the sign of the comparison of scores is turned round.    *)
BeforeReversed(p, q) ==
  IF HealthScore(p) # HealthScore(q) THEN HealthScore(p) < HealthScore(q)
  ELSE record[p].total > record[q].total

(* The comparator puts p before q: by score, unless the scores are within   *)
(* 0.01 of each other, and then by the requests seen.                       *)
Before(p, q) ==
  LET s == HealthScore(p)
      r == HealthScore(q)
  IN  IF s = r \/ (s - r = 1 /\ s \in NoApart) \/ (r - s = 1 /\ r \in NoApart)
      THEN record[p].total > record[q].total
      ELSE s > r

(* Array.prototype.sort() of a short array: the run it begins with, in      *)
(* order or, then reversed, in strictly the opposite order, and binary      *)
(* insertion of the others.  Where a comparator is not transitive the       *)
(* result depends on which elements are compared.                           *)
Position(s, p) ==
  LET search[span \in (0..Len(s)) \X (0..Len(s))] ==
        LET left == span[1]
            right == span[2]
            mid == (left + right) \div 2
        IN  IF left = right THEN left
            ELSE IF Before(p, s[mid + 1]) THEN search[<<left, mid>>] ELSE search[<<mid + 1, right>>]
  IN  search[<<0, Len(s)>>]

Inserted(s, p) == SubSeq(s, 1, Position(s, p)) \o <<p>> \o SubSeq(s, Position(s, p) + 1, Len(s))

Ranked(ids) ==
  LET descending == Before(ids[2], ids[1])
      run == Max({n \in 2..Len(ids) :
                    \A i \in 2..n : Before(ids[i], ids[i - 1]) <=> descending})
      first == SubSeq(ids, 1, run)
  IN  IF Len(ids) < 2 THEN ids
      ELSE FoldLeft(Inserted, IF descending THEN Reverse(first) ELSE first,
                    SubSeq(ids, run + 1, Len(ids)))

(* getRoutingOrder() without a model: the providers the file enables, not   *)
(* switched off and with a score above 0.                                   *)
Candidates == {p \in providersFile.on : ~record[p].authDisabled /\ HealthScore(p) > 0}
RoutingOrder == Ranked(Filtered(FileOrder, Candidates))

(* Whom handleFailure() names after a failure of p: the first of the others. *)
FailoverTargets(p) ==
  LET order == RoutingOrder IN
  {order[i] : i \in {i \in DOMAIN order : order[i] # p /\ \A j \in 1..(i - 1) : order[j] = p}}

-----------------------------------------------------------------------------
Work == FoldFunction(LAMBDA rec, n : rec.total + n, writes, record)

(* The requests.  A file that cannot be parsed fails a request before it    *)
(* does anything; the schema is not asked.                                  *)

ReportSuccess(p, latency) ==
  /\ Work < MaxSteps
  /\ RecordSuccess(p, latency)

(* The failure is recorded and, unless it switches the provider off, the    *)
(* others are ranked, which makes records of them.                          *)
ReportFailure(p, auth) ==
  /\ Work < MaxSteps
  /\ providersFile.state # "broken"
  /\ tracked' = tracked \cup {p} \cup (IF auth THEN {} ELSE providersFile.on)
  /\ Failed(p, auth)

(* GET .../order                                                            *)
Order ==
  /\ providersFile.state \in {"valid", "invalid"}
  /\ Consult(providersFile.on)

Handle ==
  /\ ~reloading
  /\ \/ \E p \in Provider :
          \/ \E latency \in Latency : ReportSuccess(p, latency)
          \/ \E auth \in BOOLEAN : ReportFailure(p, auth)
          \/ Reenable(p)
     \/ Order
  /\ UNCHANGED <<files, loaded>>

-----------------------------------------------------------------------------
(* POST /routing/reload.                                                    *)

(* The first file: a policy that is refused ends the reload with an error,  *)
(* one that is missing leaves the old one.                                  *)
ReloadPolicy ==
  /\ ~reloading
  /\ began' = writes
  /\ policy' = IF policyFile \in Policies THEN policyFile ELSE policy
  /\ reloading' = (policyFile # Refused)
  /\ UNCHANGED <<trackerVars, files, providers, agreed>>

(* Faulty variant: providers that are refused do not fail the reload.       *)
ReloadProvidersLeniently ==
  /\ reloading
  /\ reloading' = FALSE
  /\ agreed' = began
  /\ providers' = IF providersFile.state = "valid" THEN providersFile.on ELSE providers
  /\ UNCHANGED <<trackerVars, files, policy, began>>

(* The second file: one that is refused leaves the providers as they were,  *)
(* beside the new policy, and the reload reports an error; one that is      *)
(* missing leaves them too, and the reload reports success.                 *)
ReloadProviders ==
  /\ reloading
  /\ reloading' = FALSE
  /\ agreed' = IF providersFile.state \in {"valid", "missing"} THEN began ELSE agreed
  /\ providers' = IF providersFile.state = "valid" THEN providersFile.on ELSE providers
  /\ UNCHANGED <<trackerVars, files, policy, began>>

(* An administrator writes one of the files.                                *)
Write ==
  /\ Work < MaxSteps
  /\ writes' = writes + 1
  /\ \/ policyFile' \in Policies \cup {Refused, Missing} /\ UNCHANGED providersFile
     \/ providersFile' \in Contents /\ UNCHANGED policyFile
  /\ UNCHANGED <<trackerVars, loaded>>

RoutingNext == Handle \/ ReloadPolicy \/ ReloadProviders \/ Write

RoutingSpec == RoutingInit /\ [][RoutingNext]_routingVars

-----------------------------------------------------------------------------

(* The order names every candidate once and, although scores within 0.01    *)
(* count as equal, which is not transitive, and the sort may compare only   *)
(* some pairs: no provider comes right after one that is more than 0.01     *)
(* worse, and the one tried first, or named for a failover, is within 0.01  *)
(* for every candidate of the best one.                                     *)
RankingSound ==
  LET order == RoutingOrder
      Behind(p, q) == HealthScore(q) - HealthScore(p)
  IN  /\ Len(order) = Cardinality(Candidates) /\ ToSet(order) = Candidates
      /\ \A i \in 1..(Len(order) - 1) : Behind(order[i], order[i + 1]) <= 1
      /\ \A p \in Provider : \A q \in FailoverTargets(p) :
           /\ q # p
           /\ \A c \in Candidates \ {p} : Behind(q, c) < Cardinality(Candidates)

(* As long as nobody has written since the last reload that reported        *)
(* success began, both halves of the engine see the same configuration:     *)
(* what is resolved is what the files say, whoever is ranked is resolved,   *)
(* and the chain is the one the two files describe.  A missing file has     *)
(* nothing to say.                                                          *)
ReloadAgrees ==
  agreed = writes /\ ~reloading =>
    /\ policyFile # Refused /\ (policyFile # Missing => policy = policyFile)
    /\ providersFile.state # "missing" =>
         /\ \A p \in Provider : Resolves(p) <=> p \in providersFile.on
         /\ \A p \in Candidates : Resolves(p)
         /\ policyFile # Missing => Chain(policy, providers) = Chain(policyFile, providersFile.on)

=============================================================================
