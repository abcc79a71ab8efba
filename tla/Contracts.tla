----------------------------- MODULE Contracts -----------------------------
(***************************************************************************)
(* The documents of a research cycle and what binds each to the one        *)
(* before, as binding.py compares them: the request with its evidence and  *)
(* action plan, the Commander's decision, the approved proposal, the       *)
(* Builder's result and the Challenger manifest.  Several cycles are open  *)
(* at once; the Commander selection and the Champion change meanwhile, and *)
(* every document may be late or belong to another cycle.                  *)
(*                                                                         *)
(* A document stands for its own canonical hash.  The change scope of a    *)
(* proposal is in PatchPolicy, the files and processes are in Planning,    *)
(* Invocation, Ingress and CandidateTests.                                 *)
(***************************************************************************)
EXTENDS Naturals, FiniteSets, FiniteSetsExt

CONSTANTS
  Cycles,         \* research cycles, each with a run of its own
  Kinds,          \* selected_commander: CODEX_SOL_MAX, WEBGPT_SOL_PRO
  Codex,          \* the kind whose output the host finalizes itself
  Actions,        \* action kinds of a research action plan
  Available,      \* source -> the time it was first available
  Terms,          \* what a request may say besides its identity, see Request
  Proposals,      \* what a model may propose, see ValidProposal
  None,           \* no document
  MaxTime,        \* bound: the last moment
  MaxSwitches,    \* bound: Commander selections made
  MaxPromotions,  \* bound: new Champions
  MaxAnswers      \* bound: answers of the Commanders

Times == 0 .. MaxTime
Versions == 0 .. MaxPromotions

ASSUME ContractsAssumption ==
  /\ Codex \in Kinds
  /\ IsFiniteSet(Actions)
  /\ \A t \in Terms :
       /\ {t.cutoff, t.asOf, t.expires, t.limit, t.used} \subseteq Nat
       /\ t.budgets \in [Actions -> Nat]
  /\ \A p \in Proposals : p.parent \in Nat /\ p.version \in Nat
  /\ None \notin Proposals
  /\ MaxTime \in Nat /\ MaxSwitches \in Nat /\ MaxPromotions \in Nat

VARIABLES
  now,
  selection,   \* the broker's current Commander selection: kind and id
  champion,    \* the version in production
  request,     \* of each cycle: research_request.json, once validated
  answers,     \* what the Commanders have returned so far, anywhere
  decision,    \* of each cycle: the accepted decision
  plan,        \* of each cycle: the approved proposal
  build,       \* of each cycle: the accepted Builder result
  manifest     \* of each cycle: the Challenger manifest

documents == <<request, answers, decision, plan, build, manifest>>
vars == <<now, selection, champion, documents>>

Init ==
  /\ now = 0
  /\ selection \in [kind : Kinds, id : {0}]
  /\ champion = 0
  /\ request = [x \in Cycles |-> None]
  /\ answers = {}
  /\ decision = [x \in Cycles |-> None]
  /\ plan = [x \in Cycles |-> None]
  /\ build = [x \in Cycles |-> None]
  /\ manifest = [x \in Cycles |-> None]

----------------------------------------------------------------------------
(* The world around the host.                                              *)

Tick ==
  /\ now < MaxTime
  /\ now' = now + 1
  /\ UNCHANGED <<selection, champion, documents>>

(* A selection is a new record even when the kind was selected before.     *)
Switch ==
  /\ selection.id < MaxSwitches
  /\ \E k \in Kinds : selection' = [kind |-> k, id |-> selection.id + 1]
  /\ UNCHANGED <<now, champion, documents>>

Promote ==
  /\ champion < MaxPromotions
  /\ champion' = champion + 1
  /\ UNCHANGED <<now, selection, documents>>

----------------------------------------------------------------------------
(* The request.                                                            *)

Request(x, created, terms) ==
  [cycle |-> x, selection |-> selection, champion |-> champion,
   created |-> created, terms |-> terms]

Funded(terms) == {a \in Actions : terms.budgets[a] > 0}

(* _validate_request_v2_artifacts: the arithmetic of the action plan.      *)
PlanSound(terms) ==
  /\ MapThenSumSet(LAMBDA a : terms.budgets[a], Actions) = terms.submissions
  /\ terms.submissions > 0
  /\ Cardinality(Funded(terms)) <= terms.maxActions
  /\ terms.submissions <= terms.limit - terms.used

(* Mutant: a source that became known after the cutoff is let in.          *)
ValidRequestAnySource(r) ==
  /\ r.created <= r.terms.cutoff /\ r.terms.cutoff <= r.terms.asOf
  /\ now < r.terms.expires
  /\ r.terms.schema = "V2" => PlanSound(r.terms)

(* validate_request.                                                       *)
ValidRequest(r) ==
  /\ r.created <= r.terms.cutoff /\ r.terms.cutoff <= r.terms.asOf
  /\ r.created < r.terms.expires /\ now < r.terms.expires
  /\ r.terms.schema = "V2" => PlanSound(r.terms)
  /\ \A s \in r.terms.sources : Available[s] <= r.terms.cutoff
  /\ r.terms.used < r.terms.limit

(* A request the validation refuses leaves no run.                         *)
Prepare(x) ==
  /\ request[x] = None
  /\ \E t \in Terms, created \in 0 .. now :
       /\ ValidRequest(Request(x, created, t))
       /\ request' = [request EXCEPT ![x] = Request(x, created, t)]
  /\ UNCHANGED <<now, selection, champion, answers, decision, plan, build, manifest>>

----------------------------------------------------------------------------
(* What a later document is compared with.                                 *)

(* request_binding: the nine fields; the hash is of the whole request.     *)
Binding(r) ==
  [cycle |-> r.cycle, hash |-> r, champion |-> r.champion,
   selection |-> r.selection]

Open(r) == now < r.terms.expires

(* Mutant: of the selection only the kind of the Commander is compared.    *)
BoundByKind(binding, r) ==
  /\ [binding EXCEPT !.selection = r.selection] = Binding(r)
  /\ binding.selection.kind = r.selection.kind
  /\ Open(r)

(* verify_output_binding.                                                  *)
Bound(binding, r) ==
  /\ binding = Binding(r)
  /\ Open(r)

(* validate_algorithm_proposal: a proposal names no request; its parent,   *)
(* evidence, action and universe must fit the one it is used under.        *)
ValidProposal(p, r) ==
  /\ p.version # p.parent
  /\ Open(r)
  /\ p.parent = r.champion
  /\ p.schema = "V2" => r.terms.schema = "V2" /\ p.action \in Funded(r.terms)
  /\ p.universe \subseteq r.terms.tradable
  /\ p.evidence \subseteq r.terms.references

----------------------------------------------------------------------------
(* The decision.                                                           *)

(* A Commander answers a request, now or when it is long stale.  It echoes *)
(* the request's binding, with the selection it answers under: the one it  *)
(* was asked under or the one made since.  It stamps its answer, or leaves *)
(* the stamp to the host.                                                  *)
Answer(x) ==
  /\ request[x] # None
  /\ Cardinality(answers) < MaxAnswers
  /\ \E p \in Proposals \cup {None}, stamp \in {None, now},
        under \in {request[x].selection, selection} :
       answers' = answers \cup
         {[to |-> x, binding |-> [Binding(request[x]) EXCEPT !.selection = under],
           stamp |-> stamp, proposal |-> p]}
  /\ UNCHANGED <<now, selection, champion, request, decision, plan, build, manifest>>

(* finalize_commander_output: only a Codex Commander may leave the stamp.  *)
Stamp(d, r) == IF d.stamp = None /\ r.selection.kind = Codex THEN now ELSE d.stamp

(* validate_research_decision, on whichever answer is presented.           *)
Receive(x) ==
  /\ request[x] # None /\ decision[x] = None
  /\ \E d \in answers :
       LET created == Stamp(d, request[x])
       IN /\ Bound(d.binding, request[x])
          /\ created # None
          /\ request[x].created <= created /\ created <= now
          /\ d.proposal # None => ValidProposal(d.proposal, request[x])
          /\ decision' = [decision EXCEPT ![x] =
                            [to |-> d.to, under |-> d.binding.selection,
                             proposal |-> d.proposal, created |-> created]]
  /\ UNCHANGED <<now, selection, champion, request, answers, plan, build, manifest>>

----------------------------------------------------------------------------
(* The build.                                                              *)

(* prepare_invocation for the Builder: the proposal is a file given on the *)
(* command line, from whatever answer it was taken.                        *)
Approve(x) ==
  /\ request[x] # None /\ plan[x] = None
  /\ \E d \in answers :
       /\ d.proposal # None
       /\ ValidProposal(d.proposal, request[x])
       /\ plan' = [plan EXCEPT ![x] = d.proposal]
  /\ UNCHANGED <<now, selection, champion, request, answers, decision, build, manifest>>

(* A Builder's result echoes a request and a proposal, perhaps of another  *)
(* cycle; _validate_builder_output compares both.                          *)
AcceptBuild(x) ==
  /\ plan[x] # None /\ build[x] = None
  /\ \E y \in Cycles :
       /\ plan[y] # None
       /\ Bound(Binding(request[y]), request[x])
       /\ plan[y] = plan[x]
       /\ build' = [build EXCEPT ![x] = [to |-> y, proposal |-> plan[y]]]
  /\ UNCHANGED <<now, selection, champion, request, answers, decision, plan, manifest>>

(* Mutant: the approved proposal is enough, no Builder need have finished. *)
BuildManifestAtOnce(x) ==
  /\ plan[x] # None /\ manifest[x] = None
  /\ ValidProposal(plan[x], request[x])
  /\ manifest' = [manifest EXCEPT ![x] =
                    [parent |-> plan[x].parent, version |-> plan[x].version]]
  /\ UNCHANGED <<now, selection, champion, request, answers, decision, plan, build>>

(* load_validated_builder_result and build_challenger_manifest check the   *)
(* binding, the proposal and the expiry once more.                         *)
BuildManifest(x) ==
  /\ build[x] # None /\ manifest[x] = None
  /\ Bound(Binding(request[build[x].to]), request[x])
  /\ ValidProposal(plan[x], request[x])
  /\ manifest' = [manifest EXCEPT ![x] =
                    [parent |-> plan[x].parent, version |-> plan[x].version]]
  /\ UNCHANGED <<now, selection, champion, request, answers, decision, plan, build>>

Next ==
  \/ Tick \/ Switch \/ Promote
  \/ \E x \in Cycles : \/ Prepare(x) \/ Answer(x) \/ Receive(x)
                       \/ Approve(x) \/ AcceptBuild(x) \/ BuildManifest(x)

Spec == Init /\ [][Next]_vars

----------------------------------------------------------------------------
(* Every document is one of its kind, and each is there only with those it *)
(* is made from (sandbox.py and candidate.py make one out of the other).   *)
TypeOK ==
  /\ now \in Times /\ champion \in Versions
  /\ selection \in [kind : Kinds, id : 0 .. MaxSwitches]
  /\ \A x \in Cycles :
       /\ request[x] # None =>
            /\ request[x].cycle = x /\ request[x].terms \in Terms
            /\ request[x].created \in Times /\ request[x].champion \in Versions
       /\ plan[x] \in Proposals \cup {None}
       /\ request[x] = None => plan[x] = None /\ decision[x] = None
       /\ plan[x] = None => build[x] = None
       /\ build[x] = None => manifest[x] = None

(* Every accepted document was made for the request of its own cycle.  A   *)
(* decision was given under the very selection its request records, not    *)
(* under a later one of the same kind (docs/contracts.md), and is dated    *)
(* while that request was open; a Builder's result is for the proposal     *)
(* approved here.  The host compares documents: whether the selection they *)
(* agree on is still the current one it cannot know.                       *)
AcceptedForItsRequest ==
  \A x \in Cycles :
    /\ decision[x] # None =>
         /\ decision[x].to = x /\ decision[x].under = request[x].selection
         /\ decision[x].created \in request[x].created .. request[x].terms.expires - 1
    /\ build[x] # None => build[x].to = x /\ build[x].proposal = plan[x]

(* Nothing is proposed on what could not be known or paid: the evidence of *)
(* a proposal, decided on or approved, is referred to by the request it is *)
(* used under and, where the evidence manifest names it, was available by  *)
(* that request's cutoff; a V2 proposal's action has submissions left in   *)
(* the family's budget, whatever cycle it was written for; and it descends *)
(* from that request's Champion, whichever was promoted since.  A reference*)
(* the manifest does not name is not looked at.                            *)
ProposalGrounded ==
  \A x \in Cycles, p \in Proposals :
    p = plan[x] \/ (decision[x] # None /\ p = decision[x].proposal) =>
      LET t == request[x].terms
      IN /\ \A s \in p.evidence : /\ s \in t.references
                                   /\ s \in t.sources => Available[s] <= t.cutoff
         /\ p.schema = "V2" => t.budgets[p.action] \in 1 .. (t.limit - t.used)
         /\ p.parent = request[x].champion
=============================================================================
