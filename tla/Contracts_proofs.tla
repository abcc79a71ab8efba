-------------------------- MODULE Contracts_proofs --------------------------
(***************************************************************************)
(* A proposal is validated against its request in two halves: the          *)
(* documents of the cycle (Contracts) and the scope of the change          *)
(* (PatchPolicy).  A cycle's documents belong together and its proposals   *)
(* rest on evidence known in time, for every number of cycles, Commanders, *)
(* requests and proposals; an accepted candidate stays in its scope, for   *)
(* every repository, worktree, request and set of patterns.                *)
(*                                                                         *)
(* Both models hold a function defined by recursion, the sum of the action *)
(* budgets and the match of a pattern.  That it is defined, and what it    *)
(* computes, is shown from the least argument for which it would not be.   *)
(***************************************************************************)
EXTENDS Contracts, PatchPolicy, FiniteSetTheorems, WellFoundedInduction, TLAPS

(* Every set of naturals that is not empty has a least element. *)
LEMMA Least ==
  ASSUME NEW B \in SUBSET Nat, B # {}
  PROVE  \E n \in B : \A m \in B : n <= m
<1> DEFINE R == {ss \in Nat \X Nat : ss[1] < ss[2]}
<1>1. IsWellFoundedOn(R, Nat)
  BY NatLessThanWellFounded, Zenon DEF OpToRel
<1>2. \E x \in B : \A y \in B : ~ (<<y, x>> \in R)
  <2> HIDE DEF R
  <2> QED BY <1>1, WFMin
<1>3. \A x, y \in Nat : <<y, x>> \in R <=> y < x
  OBVIOUS
<1> QED
  <2>1. PICK n \in B : \A m \in B : ~ (<<m, n>> \in R)
    BY <1>2
  <2>2. \A m \in B : ~ (m < n)
    BY <1>3, <2>1
  <2>3. \A m \in B : n <= m
    BY <2>2
  <2> QED
    BY <2>3

(***************************************************************************)
(* Contracts.  The submissions of an action plan are a sum over a set,     *)
(* which the library defines by recursion: one step of MapThenSumSet, and  *)
(* the fold.                                                               *)
(***************************************************************************)
SumStep(b, g, s) ==
  IF s = {} THEN 0 ELSE LET x == CHOOSE y \in s : TRUE IN b[x] + g[s \ {x}]
SumFcn(b, S) == CHOOSE g : g = [s \in SUBSET S |-> SumStep(b, g, s)]

LEMMA SumIsFcn ==
  ASSUME NEW S, NEW b
  PROVE  MapThenSumSet(LAMBDA x : b[x], S) = SumFcn(b, S)[S]
  BY Zenon DEF MapThenSumSet, MapThenFoldSet, SumFcn, SumStep

LEMMA SumDefined ==
  ASSUME NEW S, IsFiniteSet(S), NEW b \in [S -> Nat]
  PROVE  SumFcn(b, S) = [s \in SUBSET S |-> SumStep(b, SumFcn(b, S), s)]
<1> DEFINE Part(n) == {s \in SUBSET S : Cardinality(s) <= n}
           Good(n) == \E g \in [Part(n) -> Nat] : \A s \in Part(n) : g[s] = SumStep(b, g, s)
           Bad == {n \in Nat : ~Good(n)}
<1>1. \A s \in SUBSET S : IsFiniteSet(s) /\ Cardinality(s) \in Nat
                           /\ Cardinality(s) <= Cardinality(S)
  BY FS_Subset, FS_CardinalityType
<1>2. \A s \in SUBSET S : s # {} =>
        LET x == CHOOSE y \in s : TRUE
        IN /\ x \in s /\ s \ {x} \in SUBSET S
           /\ Cardinality(s \ {x}) = Cardinality(s) - 1
  <2> SUFFICES ASSUME NEW s \in SUBSET S, s # {},
                      NEW x, x = CHOOSE y \in s : TRUE
               PROVE  x \in s /\ s \ {x} \in SUBSET S
                      /\ Cardinality(s \ {x}) = Cardinality(s) - 1
    OBVIOUS
  <2>1. x \in s
    OBVIOUS
  <2> QED
    BY <1>1, <2>1, FS_RemoveElement
<1>3. Bad = {}
  <2> SUFFICES ASSUME Bad # {} PROVE FALSE
    OBVIOUS
  <2>1. PICK n \in Bad : \A m \in Bad : n <= m
    BY Least
  <2>2. CASE n = 0
    <3>1. \A s \in Part(0) : s = {}
      BY <1>1, FS_EmptySet
    <3>2. \A s \in Part(0) : [t \in Part(0) |-> 0][s] = SumStep(b, [t \in Part(0) |-> 0], s)
      BY <3>1 DEF SumStep
    <3>3. Good(0)
      BY <3>2
    <3> QED
      BY <2>1, <2>2, <3>3
  <2>3. CASE n # 0
    <3>1. n - 1 \in Nat /\ n - 1 \notin Bad
      <4> HIDE DEF Good
      <4> QED BY <2>1, <2>3
    <3>2. PICK h \in [Part(n-1) -> Nat] : \A s \in Part(n-1) : h[s] = SumStep(b, h, s)
      BY <3>1
    <3> DEFINE g == [s \in Part(n) |-> SumStep(b, h, s)]
    <3>3. \A s \in Part(n) : s # {} =>
            LET x == CHOOSE y \in s : TRUE
            IN x \in S /\ s \ {x} \in Part(n-1) /\ s \ {x} \in Part(n)
      BY <1>1, <1>2, <3>1
    <3>4. g \in [Part(n) -> Nat]
      <4> SUFFICES ASSUME NEW s \in Part(n) PROVE SumStep(b, h, s) \in Nat
        OBVIOUS
      <4> QED BY <3>2, <3>3 DEF SumStep
    <3>5. \A s \in Part(n-1) : g[s] = h[s]
      BY <1>1, <3>1, <3>2
    <3>6. \A s \in Part(n) : g[s] = SumStep(b, g, s)
      <4> SUFFICES ASSUME NEW s \in Part(n) PROVE SumStep(b, h, s) = SumStep(b, g, s)
        OBVIOUS
      <4> HIDE DEF g
      <4> QED BY <3>3, <3>5 DEF SumStep
    <3> QED
      BY <2>1, <3>4, <3>6
  <2> QED
    BY <2>2, <2>3
<1>4. Cardinality(S) \in Nat /\ Part(Cardinality(S)) = SUBSET S
  BY <1>1, FS_CardinalityType
<1>5. PICK g \in [SUBSET S -> Nat] : \A s \in SUBSET S : g[s] = SumStep(b, g, s)
  <2>1. Good(Cardinality(S))
    BY <1>3, <1>4
  <2> HIDE DEF Part
  <2> QED BY <1>4, <2>1
<1>6. g = [s \in SUBSET S |-> SumStep(b, g, s)]
  BY <1>5
<1> QED
  BY <1>6, Zenon DEF SumFcn

LEMMA SumBounds ==
  ASSUME NEW S, IsFiniteSet(S), NEW b \in [S -> Nat], NEW a \in S
  PROVE  /\ MapThenSumSet(LAMBDA x : b[x], S) \in Nat
         /\ b[a] <= MapThenSumSet(LAMBDA x : b[x], S)
<1> DEFINE F == SumFcn(b, S)
           Fine(s) == F[s] \in Nat /\ \A e \in s : b[e] <= F[s]
           Bad == {n \in Nat : \E s \in SUBSET S : Cardinality(s) = n /\ ~Fine(s)}
<1>1. \A s \in SUBSET S : IsFiniteSet(s) /\ Cardinality(s) \in Nat
  BY FS_Subset, FS_CardinalityType
<1>2. F = [s \in SUBSET S |-> SumStep(b, F, s)]
  BY SumDefined
<1>3. Bad = {}
  <2> SUFFICES ASSUME Bad # {} PROVE FALSE
    OBVIOUS
  <2>1. PICK n \in Bad : \A m \in Bad : n <= m
    BY Least
  <2>2. PICK s \in SUBSET S : Cardinality(s) = n /\ ~Fine(s)
    BY <2>1
  <2> HIDE DEF F
  <2>3. F[s] = SumStep(b, F, s)
    BY <1>2
  <2>4. s # {}
    BY <2>2, <2>3 DEF SumStep
  <2>5. PICK x : x = (CHOOSE e \in s : TRUE) /\ x \in s
    BY <2>4
  <2>6. F[s] = b[x] + F[s \ {x}]
    BY <2>3, <2>4, <2>5 DEF SumStep
  <2>7. Cardinality(s \ {x}) = n - 1 /\ s \ {x} \in SUBSET S
    BY <1>1, <2>2, <2>5, FS_RemoveElement
  <2>8. Fine(s \ {x})
    <3>1. n - 1 \notin Bad /\ n - 1 \in Nat
      <4> HIDE DEF Fine
      <4> QED BY <1>1, <2>1, <2>7
    <3> QED
      BY <2>7, <3>1
  <2>9. b[x] \in Nat
    BY <2>5
  <2>10. F[s] \in Nat /\ b[x] <= F[s] /\ F[s \ {x}] <= F[s]
    BY <2>6, <2>8, <2>9
  <2>11. ASSUME NEW e \in s PROVE b[e] <= F[s]
    <3>1. b[e] \in Nat
      OBVIOUS
    <3>2. CASE e = x
      BY <2>10, <3>2
    <3>3. CASE e # x
      <4>1. e \in s \ {x}
        BY <3>3
      <4>2. F[s \ {x}] \in Nat /\ b[e] <= F[s \ {x}]
        BY <2>8, <4>1
      <4> QED
        BY <2>10, <3>1, <4>2
    <3> QED
      BY <3>2, <3>3
  <2> QED
    BY <2>2, <2>10, <2>11
<1>4. Fine(S)
  BY <1>1, <1>3
<1> QED
  BY <1>4, SumIsFcn

(* What the proof indexes by cycle. *)
Shape ==
  /\ request = [x \in Cycles |-> request[x]]
  /\ decision = [x \in Cycles |-> decision[x]]
  /\ plan = [x \in Cycles |-> plan[x]]
  /\ build = [x \in Cycles |-> build[x]]
  /\ manifest = [x \in Cycles |-> manifest[x]]

(* An answer carries the binding of the cycle it was asked for. *)
AnswersSound ==
  \A d \in answers :
    /\ d.to \in Cycles /\ d.binding.cycle = d.to
    /\ d.stamp \in Times \cup {None}
    /\ d.proposal \in Proposals \cup {None}

(* The sources of an accepted request were available by its cutoff, and    *)
(* its action plan adds up.                                                *)
SourcesKnown ==
  \A x \in Cycles : request[x] # None =>
    LET t == request[x].terms
    IN /\ \A s \in t.sources : Available[s] <= t.cutoff
       /\ t.schema = "V2" => PlanSound(t)

(* A proposal in use cites references of the request it is used under,     *)
(* descends from its Champion and selects one of its funded actions.       *)
Fits(p, r) ==
  /\ p.evidence \subseteq r.terms.references
  /\ p.parent = r.champion
  /\ p.schema = "V2" => r.terms.schema = "V2" /\ p.action \in Funded(r.terms)

ProposalsFit ==
  \A x \in Cycles :
    /\ plan[x] # None => Fits(plan[x], request[x])
    /\ decision[x] # None =>
         /\ decision[x].proposal \in Proposals \cup {None}
         /\ decision[x].proposal # None => Fits(decision[x].proposal, request[x])

IInv == Shape /\ TypeOK /\ AnswersSound /\ SourcesKnown /\ ProposalsFit
          /\ AcceptedForItsRequest

LEMMA InitIInv == Init => IInv
<1> SUFFICES ASSUME Init PROVE IInv
  OBVIOUS
<1>1. Shape
  BY DEF Init, Shape
<1>2. TypeOK
  BY ContractsAssumption DEF Init, TypeOK, Times, Versions
<1>3. AnswersSound /\ SourcesKnown /\ ProposalsFit /\ AcceptedForItsRequest
  BY DEF Init, AnswersSound, SourcesKnown, ProposalsFit, AcceptedForItsRequest
<1> QED
  BY <1>1, <1>2, <1>3 DEF IInv

(* Only the clock, the selection or the Champion moves. *)
LEMMA WorldStep ==
  ASSUME IInv, Tick \/ Switch \/ Promote
  PROVE  IInv'
<1>1. UNCHANGED documents
  BY DEF Tick, Switch, Promote
<1>2. TypeOK'
  BY <1>1, ContractsAssumption
     DEF IInv, TypeOK, Tick, Switch, Promote, documents, Times, Versions
<1>3. Shape' /\ AnswersSound' /\ SourcesKnown' /\ ProposalsFit' /\ AcceptedForItsRequest'
  BY <1>1 DEF IInv, documents, Shape, AnswersSound, SourcesKnown, ProposalsFit,
     AcceptedForItsRequest, Fits
<1> QED
  BY <1>2, <1>3 DEF IInv

LEMMA PrepareStep ==
  ASSUME IInv, NEW x \in Cycles, Prepare(x)
  PROVE  IInv'
<1>1. PICK t \in Terms, c \in 0 .. now :
        /\ ValidRequest(Request(x, c, t))
        /\ request' = [request EXCEPT ![x] = Request(x, c, t)]
  BY DEF Prepare
<1>2. request[x] = None /\ plan[x] = None /\ decision[x] = None /\ build[x] = None
  BY DEF Prepare, IInv, TypeOK
<1>3. Shape'
  BY <1>1 DEF Prepare, IInv, Shape
<1>4. \A y \in Cycles : request'[y] = IF y = x THEN Request(x, c, t) ELSE request[y]
  BY <1>1 DEF IInv, Shape
<1>5. c \in Times
  BY ContractsAssumption DEF IInv, TypeOK, Times
<1>6. TypeOK'
  BY <1>2, <1>4, <1>5 DEF Prepare, IInv, TypeOK, Request
<1>7. SourcesKnown'
  BY <1>1, <1>4 DEF IInv, SourcesKnown, ValidRequest, Request
<1>8. AnswersSound' /\ ProposalsFit' /\ AcceptedForItsRequest'
  BY <1>2, <1>4 DEF Prepare, IInv, AnswersSound, ProposalsFit, AcceptedForItsRequest
<1> QED
  BY <1>3, <1>6, <1>7, <1>8 DEF IInv

LEMMA AnswerStep ==
  ASSUME IInv, NEW x \in Cycles, Answer(x)
  PROVE  IInv'
<1>1. AnswersSound'
  BY DEF Answer, IInv, AnswersSound, TypeOK, Binding
<1>2. Shape' /\ TypeOK' /\ SourcesKnown' /\ ProposalsFit' /\ AcceptedForItsRequest'
  BY DEF Answer, IInv, Shape, TypeOK, SourcesKnown, ProposalsFit,
     AcceptedForItsRequest, Fits
<1> QED
  BY <1>1, <1>2 DEF IInv

LEMMA ReceiveStep ==
  ASSUME IInv, NEW x \in Cycles, Receive(x)
  PROVE  IInv'
<1> DEFINE Dated(d) == Stamp(d, request[x])
<1>1. PICK d \in answers :
        /\ Bound(d.binding, request[x])
        /\ Dated(d) # None
        /\ request[x].created <= Dated(d) /\ Dated(d) <= now
        /\ d.proposal # None => ValidProposal(d.proposal, request[x])
        /\ decision' = [decision EXCEPT ![x] =
                          [to |-> d.to, under |-> d.binding.selection,
                           proposal |-> d.proposal, created |-> Dated(d)]]
  BY DEF Receive
<1>2. \A y \in Cycles : decision'[y] = IF y = x
        THEN [to |-> d.to, under |-> d.binding.selection,
              proposal |-> d.proposal, created |-> Dated(d)]
        ELSE decision[y]
  BY <1>1 DEF IInv, Shape
<1>3. request[x] # None /\ UNCHANGED <<now, selection, champion, request, answers, plan, build, manifest>>
  BY DEF Receive
<1>4. d.to = x /\ d.binding.selection = request[x].selection
  BY <1>1, <1>3 DEF IInv, AnswersSound, TypeOK, Bound, Binding
<1>5. Dated(d) \in request[x].created .. request[x].terms.expires - 1
  <2>1. Dated(d) \in Nat /\ now \in Nat
    BY <1>1, ContractsAssumption DEF IInv, AnswersSound, TypeOK, Stamp, Times
  <2>2. now < request[x].terms.expires
    BY <1>1 DEF Bound, Open
  <2>3. request[x].created \in Nat /\ request[x].terms.expires \in Nat
    BY <1>3, ContractsAssumption DEF IInv, TypeOK, Times
  <2> QED
    BY <1>1, <2>1, <2>2, <2>3
<1>6. Shape' /\ TypeOK'
  BY <1>1, <1>3 DEF IInv, Shape, TypeOK
<1>7. ProposalsFit'
  <2>1. d.proposal \in Proposals \cup {None}
    BY <1>1 DEF IInv, AnswersSound
  <2>2. d.proposal # None => Fits(d.proposal, request[x])
    BY <1>1 DEF ValidProposal, Fits
  <2> QED
    BY <1>2, <1>3, <2>1, <2>2 DEF IInv, ProposalsFit
<1>8. AcceptedForItsRequest'
  BY <1>2, <1>3, <1>4, <1>5 DEF IInv, AcceptedForItsRequest
<1>9. AnswersSound' /\ SourcesKnown'
  BY <1>3 DEF IInv, AnswersSound, SourcesKnown
<1> QED
  BY <1>6, <1>7, <1>8, <1>9 DEF IInv

LEMMA ApproveStep ==
  ASSUME IInv, NEW x \in Cycles, Approve(x)
  PROVE  IInv'
<1>1. PICK d \in answers :
        /\ d.proposal # None
        /\ ValidProposal(d.proposal, request[x])
        /\ plan' = [plan EXCEPT ![x] = d.proposal]
  BY DEF Approve
<1>2. \A y \in Cycles : plan'[y] = IF y = x THEN d.proposal ELSE plan[y]
  BY <1>1 DEF IInv, Shape
<1>3. d.proposal \in Proposals /\ Fits(d.proposal, request[x])
  BY <1>1 DEF IInv, AnswersSound, ValidProposal, Fits
<1>4. build[x] = None /\ request[x] # None
  BY DEF Approve, IInv, TypeOK
<1>5. Shape'
  BY <1>1 DEF Approve, IInv, Shape
<1>6. TypeOK'
  BY <1>2, <1>3, <1>4 DEF Approve, IInv, TypeOK
<1>7. ProposalsFit'
  BY <1>2, <1>3 DEF Approve, IInv, ProposalsFit
<1>8. AcceptedForItsRequest'
  BY <1>2, <1>4 DEF Approve, IInv, AcceptedForItsRequest
<1>9. AnswersSound' /\ SourcesKnown'
  BY DEF Approve, IInv, AnswersSound, SourcesKnown
<1> QED
  BY <1>5, <1>6, <1>7, <1>8, <1>9 DEF IInv

LEMMA AcceptBuildStep ==
  ASSUME IInv, NEW x \in Cycles, AcceptBuild(x)
  PROVE  IInv'
<1>1. PICK y \in Cycles :
        /\ plan[y] # None
        /\ Bound(Binding(request[y]), request[x])
        /\ plan[y] = plan[x]
        /\ build' = [build EXCEPT ![x] = [to |-> y, proposal |-> plan[y]]]
  BY DEF AcceptBuild
<1>2. y = x
  <2>1. request[x] # None /\ request[y] # None
    BY <1>1 DEF AcceptBuild, IInv, TypeOK
  <2> QED
    BY <1>1, <2>1 DEF IInv, TypeOK, Bound, Binding
<1>3. \A z \in Cycles : build'[z] = IF z = x THEN [to |-> y, proposal |-> plan[y]] ELSE build[z]
  BY <1>1 DEF IInv, Shape
<1>4. Shape'
  BY <1>1 DEF AcceptBuild, IInv, Shape
<1>5. TypeOK'
  <2>1. plan[x] # None
    BY DEF AcceptBuild
  <2>2. build[x] = None
    BY DEF AcceptBuild
  <2>3. manifest[x] = None
    BY <2>2 DEF IInv, TypeOK
  <2> QED
    BY <1>3, <2>1, <2>3 DEF AcceptBuild, IInv, TypeOK
<1>6. AcceptedForItsRequest'
  BY <1>1, <1>2, <1>3 DEF AcceptBuild, IInv, AcceptedForItsRequest
<1>7. AnswersSound' /\ SourcesKnown' /\ ProposalsFit'
  BY DEF AcceptBuild, IInv, AnswersSound, SourcesKnown, ProposalsFit, Fits
<1> QED
  BY <1>4, <1>5, <1>6, <1>7 DEF IInv

LEMMA ManifestStep ==
  ASSUME IInv, NEW x \in Cycles, BuildManifest(x)
  PROVE  IInv'
<1>1. \A y \in Cycles : y # x => manifest'[y] = manifest[y]
  BY DEF BuildManifest, IInv, Shape
<1>2. Shape'
  BY DEF BuildManifest, IInv, Shape
<1>3. TypeOK'
  BY <1>1 DEF BuildManifest, IInv, TypeOK
<1>4. AnswersSound' /\ SourcesKnown' /\ ProposalsFit' /\ AcceptedForItsRequest'
  BY DEF BuildManifest, IInv, AnswersSound, SourcesKnown, ProposalsFit,
     AcceptedForItsRequest, Fits
<1> QED
  BY <1>2, <1>3, <1>4 DEF IInv

LEMMA NextIInv == IInv /\ [Next]_vars => IInv'
<1> SUFFICES ASSUME IInv, [Next]_vars PROVE IInv'
  OBVIOUS
<1>1. CASE UNCHANGED vars
  BY <1>1 DEF vars, documents, IInv, Shape, TypeOK, AnswersSound, SourcesKnown,
     ProposalsFit, AcceptedForItsRequest, Fits
<1>2. CASE Tick \/ Switch \/ Promote
  BY <1>2, WorldStep
<1>3. ASSUME NEW x \in Cycles,
        Prepare(x) \/ Answer(x) \/ Receive(x) \/ Approve(x) \/ AcceptBuild(x) \/ BuildManifest(x)
      PROVE IInv'
  BY <1>3, PrepareStep, AnswerStep, ReceiveStep, ApproveStep, AcceptBuildStep, ManifestStep
<1> QED
  BY <1>1, <1>2, <1>3 DEF Next

LEMMA Inductive == Spec => []IInv
<1> QED
  BY InitIInv, NextIInv, PTL DEF Spec

(* The documents are typed, and each is there only with those it is made   *)
(* from.                                                                   *)
THEOREM Typing == Spec => []TypeOK
<1>1. IInv => TypeOK
  BY DEF IInv
<1> QED
  BY <1>1, Inductive, PTL

(* Every decision and every Builder's result that is accepted was made for *)
(* the request of its own cycle; the decision was given under the selection*)
(* its request records, and is dated while that request was open           *)
(* (verify_output_binding, validate_research_decision).                    *)
THEOREM DocumentsBelong == Spec => []AcceptedForItsRequest
<1>1. IInv => AcceptedForItsRequest
  BY DEF IInv
<1> QED
  BY <1>1, Inductive, PTL

(* What a sound action plan pays for, the family's budget has left. *)
LEMMA FundedWithinBudget ==
  ASSUME NEW t \in Terms, PlanSound(t), NEW a \in Funded(t)
  PROVE  t.budgets[a] \in 1 .. (t.limit - t.used)
<1> DEFINE Total == MapThenSumSet(LAMBDA x : t.budgets[x], Actions)
<1>1. t.budgets \in [Actions -> Nat] /\ IsFiniteSet(Actions) /\ a \in Actions
  BY ContractsAssumption DEF Funded
<1>2. t.limit \in Nat /\ t.used \in Nat
  BY ContractsAssumption
<1>3. Total \in Nat /\ t.budgets[a] <= Total
  BY <1>1, SumBounds
<1>4. Total = t.submissions /\ t.submissions <= t.limit - t.used
  BY DEF PlanSound
<1>5. t.budgets[a] \in Nat /\ t.budgets[a] > 0
  BY <1>1 DEF Funded
<1> HIDE DEF Total
<1> QED
  BY <1>2, <1>3, <1>4, <1>5

(* No proposal in use rests on evidence its request does not refer to, or  *)
(* that its manifest names and that became available after the cutoff; each*)
(* descends from that request's Champion, and what it selects fits the     *)
(* budget the family has left (validate_request,                           *)
(* _validate_request_v2_artifacts, validate_algorithm_proposal).           *)
THEOREM ProposalsGrounded == Spec => []ProposalGrounded
<1>1. IInv => ProposalGrounded
  <2> SUFFICES ASSUME IInv, NEW x \in Cycles, NEW p \in Proposals,
                      p = plan[x] \/ (decision[x] # None /\ p = decision[x].proposal)
               PROVE  /\ \A s \in p.evidence :
                           /\ s \in request[x].terms.references
                           /\ s \in request[x].terms.sources =>
                                Available[s] <= request[x].terms.cutoff
                      /\ p.schema = "V2" =>
                           request[x].terms.budgets[p.action]
                             \in 1 .. (request[x].terms.limit - request[x].terms.used)
                      /\ p.parent = request[x].champion
    BY DEF ProposalGrounded
  <2>1. p # None
    BY ContractsAssumption
  <2>2. request[x] # None
    BY <2>1 DEF IInv, TypeOK
  <2>3. Fits(p, request[x])
    BY <2>1 DEF IInv, ProposalsFit
  <2>4. p.evidence \subseteq request[x].terms.references
    BY <2>3 DEF Fits
  <2>5. \A s \in request[x].terms.sources : Available[s] <= request[x].terms.cutoff
    BY <2>2 DEF IInv, SourcesKnown
  <2>6. ASSUME p.schema = "V2"
        PROVE  request[x].terms.budgets[p.action]
                 \in 1 .. (request[x].terms.limit - request[x].terms.used)
    <3>1. request[x].terms \in Terms /\ PlanSound(request[x].terms)
          /\ p.action \in Funded(request[x].terms)
      BY <2>2, <2>3, <2>6 DEF IInv, TypeOK, SourcesKnown, Fits
    <3> QED
      BY <3>1, FundedWithinBudget
  <2> QED
    BY <2>3, <2>4, <2>5, <2>6 DEF Fits
<1> QED
  BY <1>1, Inductive, PTL

(***************************************************************************)
(* PatchPolicy: patterns.                                                  *)
(***************************************************************************)
(* One step of Glob, and its recursive function.                           *)
ReachStep(w, p, g, j) ==
  IF j = 0 THEN {0}
  ELSE LET before == g[j-1]
       IN {i \in 0..Len(w) :
             \/ p[j] = "*" /\ \E k \in before : k <= i
             \/ i - 1 \in before /\ w[i] = p[j]}
Reach(w, p) == CHOOSE g : g = [j \in 0..Len(p) |-> ReachStep(w, p, g, j)]

LEMMA GlobIsReach ==
  ASSUME NEW w, NEW p
  PROVE  Glob(w, p) <=> Len(w) \in Reach(w, p)[Len(p)]
  BY Zenon DEF Glob, Reach, ReachStep

LEMMA ReachDefined ==
  ASSUME NEW w, Len(w) \in Nat, NEW p, Len(p) \in Nat
  PROVE  Reach(w, p) = [j \in 0..Len(p) |-> ReachStep(w, p, Reach(w, p), j)]
<1> DEFINE Good(n) == \E g \in [0..n -> SUBSET (0..Len(w))] :
                        \A j \in 0..n : g[j] = ReachStep(w, p, g, j)
           Bad == {n \in Nat : ~Good(n)}
<1>1. Bad = {}
  <2> SUFFICES ASSUME Bad # {} PROVE FALSE
    OBVIOUS
  <2>1. PICK n \in Bad : \A m \in Bad : n <= m
    BY Least
  <2>2. CASE n = 0
    <3>1. \A j \in 0..0 : [i \in 0..0 |-> {0}][j] = ReachStep(w, p, [i \in 0..0 |-> {0}], j)
      BY DEF ReachStep
    <3>2. [i \in 0..0 |-> {0}] \in [0..0 -> SUBSET (0..Len(w))]
      OBVIOUS
    <3> QED
      BY <2>1, <2>2, <3>1, <3>2
  <2>3. CASE n # 0
    <3>1. n - 1 \in Nat /\ n - 1 \notin Bad
      <4> HIDE DEF Good
      <4> QED BY <2>1, <2>3
    <3>2. PICK h \in [0..(n-1) -> SUBSET (0..Len(w))] :
            \A j \in 0..(n-1) : h[j] = ReachStep(w, p, h, j)
      BY <3>1
    <3> DEFINE g == [j \in 0..n |-> ReachStep(w, p, h, j)]
    <3>3. g \in [0..n -> SUBSET (0..Len(w))]
      BY DEF ReachStep
    <3>4. \A j \in 0..(n-1) : g[j] = h[j]
      BY <3>2
    <3>5. \A j \in 0..n : g[j] = ReachStep(w, p, g, j)
      <4> SUFFICES ASSUME NEW j \in 0..n PROVE ReachStep(w, p, h, j) = ReachStep(w, p, g, j)
        OBVIOUS
      <4> HIDE DEF g
      <4>1. j # 0 => j - 1 \in 0..(n-1)
        OBVIOUS
      <4> QED BY <3>4, <4>1 DEF ReachStep
    <3> QED
      BY <2>1, <3>3, <3>5
  <2> QED
    BY <2>2, <2>3
<1>2. PICK g \in [0..Len(p) -> SUBSET (0..Len(w))] :
        \A j \in 0..Len(p) : g[j] = ReachStep(w, p, g, j)
  BY <1>1
<1>3. g = [j \in 0..Len(p) |-> ReachStep(w, p, g, j)]
  BY <1>2
<1> QED
  BY <1>3, Zenon DEF Reach

(* The first n atoms, none of them a star, are matched by themselves.      *)
Plain(p, n) == \A i \in 1..n : p[i] # "*"
Same(p, w, n) == n <= Len(w) /\ \A i \in 1..n : w[i] = p[i]

LEMMA ReachPlain ==
  ASSUME NEW w, Len(w) \in Nat, NEW p, Len(p) \in Nat, NEW n \in 0..Len(p), Plain(p, n)
  PROVE  Reach(w, p)[n] = IF Same(p, w, n) THEN {n} ELSE {}
<1> DEFINE F == Reach(w, p)
           Fine(j) == F[j] = IF Same(p, w, j) THEN {j} ELSE {}
           Bad == {j \in Nat : j <= n /\ ~Fine(j)}
<1>1. \A j \in 0..Len(p) : F[j] = ReachStep(w, p, F, j)
  BY ReachDefined
<1> HIDE DEF F
<1>2. Bad = {}
  <2> SUFFICES ASSUME Bad # {} PROVE FALSE
    OBVIOUS
  <2>1. PICK j \in Bad : \A m \in Bad : j <= m
    BY Least
  <2>2. j # 0
    <3>1. F[0] = ReachStep(w, p, F, 0)
      BY <1>1
    <3>2. ReachStep(w, p, F, 0) = {0} /\ Same(p, w, 0)
      BY DEF ReachStep, Same
    <3>3. Fine(0)
      BY <3>1, <3>2
    <3> QED
      <4> HIDE DEF Fine
      <4> QED BY <2>1, <3>3
  <2>3. Fine(j - 1) /\ j - 1 \in Nat /\ j \in 1..n
    <3> HIDE DEF Fine
    <3> QED BY <2>1, <2>2
  <2>4. F[j] = {i \in 0..Len(w) : i - 1 \in F[j-1] /\ w[i] = p[j]}
    <3>1. F[j] = ReachStep(w, p, F, j)
      BY <1>1, <2>3
    <3>2. p[j] # "*"
      BY <2>3 DEF Plain
    <3> QED
      BY <2>2, <3>1, <3>2 DEF ReachStep
  <2>5. CASE Same(p, w, j - 1) /\ j <= Len(w) /\ w[j] = p[j]
    <3>1. Same(p, w, j)
      BY <2>3, <2>5 DEF Same
    <3>2. F[j] = {j}
      BY <2>3, <2>4, <2>5
    <3>3. Fine(j)
      BY <3>1, <3>2
    <3> QED
      <4> HIDE DEF Fine
      <4> QED BY <2>1, <3>3
  <2>6. CASE ~(Same(p, w, j - 1) /\ j <= Len(w) /\ w[j] = p[j])
    <3>1. ~Same(p, w, j)
      BY <2>3, <2>6 DEF Same
    <3>2. F[j] = {}
      BY <2>3, <2>4, <2>6
    <3>3. Fine(j)
      BY <3>1, <3>2
    <3> QED
      <4> HIDE DEF Fine
      <4> QED BY <2>1, <3>3
  <2> QED BY <2>5, <2>6
<1>3. Fine(n)
  <2> HIDE DEF Fine
  <2> QED BY <1>2
<1> QED
  BY <1>3 DEF F

Word(s) == \E S : s \in Seq(S)

LEMMA PrefixIs ==
  ASSUME NEW s, Word(s), NEW t, Word(t)
  PROVE  IsPrefix(s, t) <=> Len(s) <= Len(t) /\ \A i \in 1..Len(s) : s[i] = t[i]
<1>1. PICK S, T : s \in Seq(S) /\ t \in Seq(T)
  BY DEF Word
<1>2. s \in Seq(S \cup T) /\ t \in Seq(S \cup T)
  BY <1>1
<1> QED
  BY <1>2 DEF IsPrefix

LEMMA LiteralIs ==
  ASSUME NEW p, Word(p)
  PROVE  /\ Word(Literal(p)) /\ Len(Literal(p)) <= Len(p)
         /\ \A i \in 1..Len(Literal(p)) : Literal(p)[i] = p[i] /\ p[i] # "*"
         /\ Len(Literal(p)) < Len(p) => p[Len(Literal(p)) + 1] = "*"
<1> DEFINE stars == {i \in DOMAIN p : p[i] = "*"}
<1>0. PICK S : p \in Seq(S)
  BY DEF Word
<1>1. p \in Seq(S) /\ DOMAIN p = 1..Len(p) /\ Len(p) \in Nat
  BY <1>0
<1>2. CASE stars = {}
  <2>1. Literal(p) = p
    BY <1>2 DEF Literal
  <2> QED
    BY <1>1, <1>2, <2>1
<1>3. CASE stars # {}
  <2>0. stars \in SUBSET Nat
    BY <1>1
  <2>1. PICK n \in stars : \A m \in stars : n <= m
    <3> HIDE DEF stars
    <3> QED BY <1>3, <2>0, Least
  <2>2. Min(stars) = n
    BY <1>1, <2>1 DEF Min
  <2>3. Literal(p) = SubSeq(p, 1, n - 1)
    BY <1>3, <2>2 DEF Literal
  <2>4. n \in 1..Len(p) /\ p[n] = "*" /\ \A i \in 1..(n-1) : p[i] # "*"
    BY <1>1, <2>1
  <2>5. /\ Len(SubSeq(p, 1, n - 1)) = n - 1
        /\ \A i \in 1..(n-1) : SubSeq(p, 1, n - 1)[i] = p[i]
        /\ SubSeq(p, 1, n - 1) \in Seq(S)
    BY <1>1, <2>4
  <2>6. Word(SubSeq(p, 1, n - 1))
    BY <2>5 DEF Word
  <2> QED
    BY <2>3, <2>4, <2>5, <2>6
<1> QED
  BY <1>2, <1>3

LEMMA ReachBeyond ==
  ASSUME NEW w, Len(w) \in Nat, NEW p, Len(p) \in Nat, NEW n \in 0..Len(p), Plain(p, n),
         ~Same(p, w, n)
  PROVE  Reach(w, p)[Len(p)] = {}
<1> DEFINE F == Reach(w, p)
           Bad == {j \in Nat : n <= j /\ j <= Len(p) /\ F[j] # {}}
<1>1. \A j \in 0..Len(p) : F[j] = ReachStep(w, p, F, j)
  BY ReachDefined
<1>2. F[n] = {}
  BY ReachPlain
<1> HIDE DEF F
<1>3. Bad = {}
  <2> SUFFICES ASSUME Bad # {} PROVE FALSE
    OBVIOUS
  <2>1. PICK j \in Bad : \A m \in Bad : j <= m
    BY Least
  <2>2. j # n
    BY <1>2, <2>1
  <2>3. j - 1 \in Nat /\ n <= j - 1 /\ j \in 0..Len(p) /\ j # 0
    BY <2>1, <2>2
  <2>4. F[j-1] = {}
    BY <2>1, <2>3
  <2>5. F[j] = ReachStep(w, p, F, j)
    BY <1>1, <2>3
  <2> QED
    BY <2>1, <2>3, <2>4, <2>5 DEF ReachStep
<1> QED
  BY <1>3 DEF F

LEMMA WordLen == ASSUME NEW s, Word(s) PROVE Len(s) \in Nat
  BY DEF Word

(* A matching path begins with the literal beginning of the pattern.       *)
LEMMA LiteralPrefix ==
  ASSUME NEW w, Word(w), NEW p, Word(p), Glob(w, p)
  PROVE  IsPrefix(Literal(p), w)
<1>1. Len(w) \in Nat /\ Len(p) \in Nat /\ Len(Literal(p)) \in Nat /\ Word(Literal(p))
  BY WordLen, LiteralIs
<1>2. Len(Literal(p)) \in 0..Len(p) /\ Plain(p, Len(Literal(p)))
  BY <1>1, LiteralIs DEF Plain
<1>3. Reach(w, p)[Len(p)] # {}
  BY GlobIsReach
<1>4. Same(p, w, Len(Literal(p)))
  BY <1>1, <1>2, <1>3, ReachBeyond
<1> QED
  BY <1>1, <1>4, PrefixIs, LiteralIs DEF Same

(* Plain atoms at the beginning of a pattern belong to its literal one.    *)
LEMMA PlainLiteral ==
  ASSUME NEW p, Word(p), NEW n \in 0..Len(p), Plain(p, n)
  PROVE  n <= Len(Literal(p))
<1>1. Len(p) \in Nat /\ Len(Literal(p)) \in Nat
  BY WordLen, LiteralIs
<1> QED
  BY <1>1, LiteralIs DEF Plain

(* A directory to allow, dir/**, and what it matches.                      *)
Directory(a) == Word(a) /\ Len(a) > 1 /\ a[Len(a)] = "*" /\ Plain(a, Len(a) - 1)

LEMMA DirectoryGlob ==
  ASSUME NEW a, Directory(a), NEW w, Word(w)
  PROVE  Glob(w, a) <=> Same(a, w, Len(a) - 1)
<1> DEFINE n == Len(a) - 1
<1>1. Len(w) \in Nat /\ Len(a) \in Nat /\ n \in 0..Len(a) /\ n \in Nat
  BY WordLen DEF Directory
<1>2. Reach(w, a)[n] = IF Same(a, w, n) THEN {n} ELSE {}
  BY <1>1, ReachPlain DEF Directory
<1>3. Reach(w, a)[Len(a)] = ReachStep(w, a, Reach(w, a), Len(a))
  BY <1>1, ReachDefined
<1>4. Reach(w, a)[Len(a)] =
        {i \in 0..Len(w) : \/ \E k \in Reach(w, a)[n] : k <= i
                           \/ i - 1 \in Reach(w, a)[n] /\ w[i] = a[Len(a)]}
  BY <1>1, <1>3 DEF ReachStep, Directory
<1>5. Glob(w, a) <=> Len(w) \in Reach(w, a)[Len(a)]
  BY GlobIsReach
<1>6. CASE Same(a, w, n)
  <2>1. n <= Len(w) /\ Reach(w, a)[n] = {n}
    BY <1>2, <1>6 DEF Same
  <2>2. Len(w) \in Reach(w, a)[Len(a)]
    BY <1>1, <1>4, <2>1
  <2> QED
    BY <1>5, <1>6, <2>2
<1>7. CASE ~Same(a, w, n)
  <2>1. Reach(w, a)[n] = {}
    BY <1>2, <1>7
  <2>2. Reach(w, a)[Len(a)] = {}
    BY <1>4, <2>1
  <2> QED
    BY <1>5, <1>7, <2>2
<1> QED
  BY <1>6, <1>7

(* Whatever matches a pattern within dir/** lies in dir.                   *)
LEMMA WithinDirectory ==
  ASSUME NEW a, Directory(a), NEW q, Word(q), ScopeWithin(q, a)
  PROVE  /\ Plain(q, Len(a) - 1) /\ Len(a) - 1 <= Len(q) /\ Same(a, q, Len(a) - 1)
         /\ \A w : Word(w) /\ Glob(w, q) => Glob(w, a)
<1> DEFINE n == Len(a) - 1
<1>1. Len(q) \in Nat /\ Len(a) \in Nat /\ n \in Nat /\ n > 0 /\ Len(Literal(q)) \in Nat
      /\ Len(Literal(a)) \in Nat /\ Word(a)
  BY WordLen, LiteralIs DEF Directory
<1>2. Len(Literal(a)) = n
  <2>1. n <= Len(Literal(a))
    BY <1>1, PlainLiteral DEF Directory
  <2>2. Len(Literal(a)) # Len(a) /\ Len(Literal(a)) <= Len(a)
    BY <1>1, LiteralIs DEF Directory
  <2> QED
    BY <1>1, <2>1, <2>2
<1>3. Same(a, q, n)
  <2>1. CASE q = a
    BY <1>1, <2>1 DEF Same
  <2>2. CASE Glob(q, a)
    BY <2>2, DirectoryGlob
  <2>3. CASE IsPrefix(Literal(a), Literal(q))
    <3>1. n <= Len(Literal(q)) /\ \A i \in 1..n : Literal(a)[i] = Literal(q)[i]
      BY <1>1, <1>2, <2>3, PrefixIs, LiteralIs
    <3>2. Len(Literal(q)) <= Len(q) /\ \A i \in 1..n : Literal(q)[i] = q[i] /\ Literal(a)[i] = a[i]
      BY <1>1, <1>2, <3>1, LiteralIs
    <3> QED
      BY <1>1, <3>1, <3>2 DEF Same
  <2> QED
    BY <2>1, <2>2, <2>3 DEF ScopeWithin
<1>4. Plain(q, n) /\ n <= Len(q)
  BY <1>1, <1>3 DEF Same, Plain, Directory
<1>5. ASSUME NEW w, Word(w), Glob(w, q) PROVE Glob(w, a)
  <2>1. n <= Len(Literal(q))
    BY <1>1, <1>4, PlainLiteral
  <2>2. Len(w) \in Nat /\ Len(Literal(q)) <= Len(w)
        /\ \A i \in 1..Len(Literal(q)) : q[i] = w[i]
    BY <1>5, LiteralPrefix, LiteralIs, PrefixIs, WordLen
  <2>3. Same(a, w, n)
    BY <1>1, <1>3, <2>1, <2>2 DEF Same
  <2> QED
    BY <1>5, <2>3, DirectoryGlob
<1> QED
  BY <1>3, <1>4, <1>5

(* A path that two patterns match shows in an overlap of the patterns,     *)
(* when both begin with a literal.                                         *)
LEMMA CommonPath ==
  ASSUME NEW w, Word(w), NEW q, Word(q), NEW f, Word(f), Glob(w, q), Glob(w, f),
         Literal(q) # <<>>, Literal(f) # <<>>
  PROVE  ScopesOverlap(q, f)
<1>1. /\ Word(Literal(q)) /\ Len(Literal(q)) \in Nat /\ IsPrefix(Literal(q), w)
      /\ Word(Literal(f)) /\ Len(Literal(f)) \in Nat /\ IsPrefix(Literal(f), w)
  BY LiteralPrefix, LiteralIs, WordLen
<1>2. /\ \A i \in 1..Len(Literal(q)) : Literal(q)[i] = w[i]
      /\ \A i \in 1..Len(Literal(f)) : Literal(f)[i] = w[i]
  BY <1>1, PrefixIs
<1>3. CASE Len(Literal(f)) <= Len(Literal(q))
  <2>1. IsPrefix(Literal(f), Literal(q))
    BY <1>1, <1>2, <1>3, PrefixIs
  <2> QED
    BY <2>1 DEF ScopesOverlap, ScopeWithin
<1>4. CASE Len(Literal(q)) <= Len(Literal(f))
  <2>1. IsPrefix(Literal(q), Literal(f))
    BY <1>1, <1>2, <1>4, PrefixIs
  <2> QED
    BY <2>1 DEF ScopesOverlap, ScopeWithin
<1> QED
  BY <1>1, <1>3, <1>4

(***************************************************************************)
(* The sections of the patch.                                              *)
(***************************************************************************)
Known == {"absent", "empty", "old", "oldcrlf", "new", "marked", "cut", "more"}
Unended == {"cut", "more"}

(* The texts, spelled out. *)
LEMMA TextForms ==
  /\ \A c \in {"absent", "empty"} : Text(c) = <<>>
  /\ \A c \in {"old", "oldcrlf"} : Text(c) = << [text |-> "old", ends |-> TRUE] >>
  /\ Text("new") = << [text |-> "new", ends |-> TRUE] >>
  /\ Text("marked") = << [text |-> "marked", ends |-> TRUE] >>
  /\ Text("cut") = << [text |-> "new", ends |-> FALSE] >>
  /\ Text("more") = << [text |-> "old", ends |-> TRUE], [text |-> "end", ends |-> FALSE] >>
  BY DEF Text

LEMMA RecordIs ==
  ASSUME NEW t, NEW e
  PROVE  [text |-> t, ends |-> e].text = t /\ [text |-> t, ends |-> e].ends = e
  OBVIOUS

LEMMA OneIs ==
  ASSUME NEW t
  PROVE  /\ <<t>> # <<>> /\ Len(<<t>>) = 1 /\ DOMAIN <<t>> = 1..1 /\ <<t>>[1] = t
         /\ <<t>> \in Seq({t})
  OBVIOUS

LEMMA TwoIs ==
  ASSUME NEW t, NEW u
  PROVE  /\ <<t, u>> # <<>> /\ Len(<<t, u>>) = 2 /\ DOMAIN <<t, u>> = 1..2
         /\ <<t, u>>[1] = t /\ <<t, u>>[2] = u /\ <<t, u>> \in Seq({t, u})
  OBVIOUS

(* The first line of a text, and whether its last line ends.               *)
FirstText(c) == CASE c \in {"old", "oldcrlf", "more"} -> "old"
                  [] c \in {"new", "cut"} -> "new"
                  [] OTHER -> "marked"

LEMMA TextIs ==
  ASSUME NEW c \in Known
  PROVE  /\ \E S : Text(c) \in Seq(S)
         /\ DOMAIN Text(c) = 1..Len(Text(c))
         /\ Len(Text(c)) = (IF c \in {"absent", "empty"} THEN 0
                            ELSE IF c = "more" THEN 2 ELSE 1)
         /\ Text(c) = <<>> <=> c \in {"absent", "empty"}
         /\ Text(c) # <<>> => /\ Text(c)[1].text = FirstText(c)
                              /\ Text(c)[1].ends = (c # "cut")
                              /\ Text(c)[Len(Text(c))].ends = (c \notin Unended)
<1>1. CASE c \in {"absent", "empty"}
  <2>1. Text(c) = <<>>
    BY <1>1, TextForms
  <2>2. <<>> \in Seq({}) /\ Len(<<>>) = 0 /\ DOMAIN <<>> = 1..0
    OBVIOUS
  <2> QED
    BY <1>1, <2>1, <2>2
<1>2. CASE c = "more"
  <2> DEFINE t == [text |-> "old", ends |-> TRUE]
             u == [text |-> "end", ends |-> FALSE]
  <2>1. Text(c) = <<t, u>>
    BY <1>2, TextForms
  <2>2. t.text = "old" /\ t.ends = TRUE /\ u.ends = FALSE
    BY RecordIs
  <2> HIDE DEF t, u
  <2>3. /\ Text(c) # <<>> /\ Len(Text(c)) = 2 /\ DOMAIN Text(c) = 1..2
        /\ Text(c)[1] = t /\ Text(c)[2] = u /\ Text(c) \in Seq({t, u})
    BY <2>1, TwoIs
  <2> QED
    BY <1>2, <2>2, <2>3 DEF FirstText, Unended
<1>3. ASSUME NEW w, NEW e \in BOOLEAN, Text(c) = << [text |-> w, ends |-> e] >>,
             w = FirstText(c), e = (c # "cut"), c \notin {"absent", "empty", "more"}
      PROVE  /\ \E S : Text(c) \in Seq(S)
             /\ DOMAIN Text(c) = 1..1 /\ Len(Text(c)) = 1 /\ Text(c) # <<>>
             /\ Text(c)[1].text = w /\ Text(c)[1].ends = e
  <2> DEFINE t == [text |-> w, ends |-> e]
  <2>1. t.text = w /\ t.ends = e
    BY RecordIs
  <2>2. Text(c) = <<t>>
    BY <1>3
  <2> HIDE DEF t
  <2> QED
    BY <2>1, <2>2, OneIs
<1>4. CASE c \in {"old", "oldcrlf", "new", "marked", "cut"}
  <2>1. /\ \E S : Text(c) \in Seq(S)
        /\ DOMAIN Text(c) = 1..1 /\ Len(Text(c)) = 1 /\ Text(c) # <<>>
        /\ Text(c)[1].text = FirstText(c) /\ Text(c)[1].ends = (c # "cut")
    <3>1. CASE c \in {"old", "oldcrlf"}
      BY <3>1, <1>3, TextForms DEF FirstText
    <3>2. CASE c = "new"
      BY <3>2, <1>3, TextForms DEF FirstText
    <3>3. CASE c = "marked"
      BY <3>3, <1>3, TextForms DEF FirstText
    <3>4. CASE c = "cut"
      BY <3>4, <1>3, TextForms DEF FirstText
    <3> QED
      BY <1>4, <3>1, <3>2, <3>3, <3>4
  <2>2. c \notin {"absent", "empty", "more"} /\ (c \notin Unended) = (c # "cut")
    BY <1>4 DEF Unended
  <2> QED
    BY <2>1, <2>2
<1> QED
  BY <1>1, <1>2, <1>4 DEF Known

(* What two different texts have in common, and which of them goes on.     *)
LEMMA CommonIs ==
  ASSUME NEW b \in Known, NEW c \in Known, Text(b) # Text(c),
         NEW k, k = Common(Text(b), Text(c))
  PROVE  /\ k \in {0, 1} /\ k <= Len(Text(b)) /\ k <= Len(Text(c))
         /\ Len(Text(b)) > k \/ Len(Text(c)) > k
         /\ Text(b) = <<>> => k = 0
         /\ Len(Text(c)) > k <=> ~ \/ Text(c) = <<>>
                                   \/ b = "more" /\ c \in {"old", "oldcrlf"}
<1>1. /\ Len(Text(b)) = (IF b \in {"absent", "empty"} THEN 0
                         ELSE IF b = "more" THEN 2 ELSE 1)
      /\ Len(Text(c)) = (IF c \in {"absent", "empty"} THEN 0
                         ELSE IF c = "more" THEN 2 ELSE 1)
      /\ Text(b) = <<>> <=> b \in {"absent", "empty"}
      /\ Text(c) = <<>> <=> c \in {"absent", "empty"}
  BY TextIs
<1>2. CASE Text(b) = <<>> \/ Text(c) = <<>>
  <2>1. k = 0
    BY <1>2 DEF Common
  <2> QED
    BY <1>1, <1>2, <2>1
<1>3. CASE Text(b) # <<>> /\ Text(c) # <<>> /\ Text(b)[1] # Text(c)[1]
  <2>1. k = 0
    BY <1>3 DEF Common
  <2>2. ~(b = "more" /\ c \in {"old", "oldcrlf"})
    <3>1. Text("more")[1] = [text |-> "old", ends |-> TRUE]
      <4>1. \A t, u : <<t, u>>[1] = t
        OBVIOUS
      <4> QED
        BY Zenon, <4>1, TextForms
    <3>2. \A d \in {"old", "oldcrlf"} : Text(d)[1] = [text |-> "old", ends |-> TRUE]
      BY TextForms, OneIs
    <3> QED
      BY <1>3, <3>1, <3>2
  <2> QED
    BY <1>1, <1>3, <2>1, <2>2
<1>4. CASE Text(b) # <<>> /\ Text(c) # <<>> /\ Text(b)[1] = Text(c)[1]
  <2>1. k = 1
    BY <1>4 DEF Common
  <2>2. FirstText(b) = FirstText(c) /\ (b = "cut" <=> c = "cut")
    BY <1>4, TextIs
  <2>3. b \notin {"absent", "empty"} /\ c \notin {"absent", "empty"}
    BY <1>1, <1>4
  <2>4. Text("old") = Text("oldcrlf")
    BY TextForms
  <2>5. \/ b = "more" /\ c \in {"old", "oldcrlf"}
        \/ c = "more" /\ b \in {"old", "oldcrlf"}
    BY <2>2, <2>3, <2>4 DEF FirstText, Known
  <2> QED
    BY <1>1, <2>1, <2>3, <2>5
<1> QED
  BY <1>2, <1>3, <1>4

(* The headers of a section, and the lines after them.                     *)
Heading(p) ==
  <<Line("diff", p, TRUE),
    Line("from", IF Base[p] = "absent" THEN <<>> ELSE p, TRUE),
    Line("to", IF tree[p] = "absent" THEN <<>> ELSE p, TRUE),
    Line("hunk", <<Text(Base[p]) = <<>>, Text(tree[p]) = <<>> >>, TRUE)>>

(* What joining two sequences of S gives.                                  *)
Joined(S, s, t, j) ==
  /\ j \in Seq(S) /\ Len(j) = Len(s) + Len(t)
  /\ \A i \in 1..Len(s) : j[i] = s[i]
  /\ \A i \in 1..Len(t) : j[Len(s) + i] = t[i]

LEMMA JoinIs ==
  ASSUME NEW S, NEW s \in Seq(S), NEW t \in Seq(S)
  PROVE  Joined(S, s, t, s \o t)
  BY DEF Joined

(* Three pieces after a heading: where they begin and where they end.      *)
FourJoined(S, h, a, b, c, s) ==
  /\ s \in Seq(S) /\ DOMAIN s = 1..Len(s)
  /\ Len(s) = 4 + Len(a) + Len(b) + Len(c)
  /\ \A i \in 1..4 : s[i] = h[i]
  /\ Len(c) > 0 => s[Len(s)] = c[Len(c)]
  /\ Len(c) = 0 /\ Len(b) > 0 => s[Len(s)] = b[Len(b)]

LEMMA FourJoinIs ==
  ASSUME NEW S, NEW h \in Seq(S), Len(h) = 4,
         NEW a \in Seq(S), NEW b \in Seq(S), NEW c \in Seq(S)
  PROVE  FourJoined(S, h, a, b, c, h \o a \o b \o c)
<1> DEFINE d == h \o a
           e == d \o b
           s == e \o c
<1>0. Len(a) \in Nat /\ Len(b) \in Nat /\ Len(c) \in Nat
  OBVIOUS
<1>1. Joined(S, h, a, d)
  BY Zenon, JoinIs
<1> HIDE DEF d
<1>2. d \in Seq(S) /\ Len(d) = 4 + Len(a) /\ \A i \in 1..4 : d[i] = h[i]
  BY <1>1 DEF Joined
<1>3. Joined(S, d, b, e)
  BY Zenon, <1>2, JoinIs
<1> HIDE DEF e
<1>4. /\ e \in Seq(S) /\ Len(e) = Len(d) + Len(b)
      /\ \A i \in 1..Len(d) : e[i] = d[i]
      /\ \A i \in 1..Len(b) : e[Len(d) + i] = b[i]
  BY Zenon, <1>3 DEF Joined
<1>5. Joined(S, e, c, s)
  BY Zenon, <1>4, JoinIs
<1> HIDE DEF s
<1>6. /\ s \in Seq(S) /\ Len(s) = Len(e) + Len(c)
      /\ \A i \in 1..Len(e) : s[i] = e[i]
      /\ \A i \in 1..Len(c) : s[Len(e) + i] = c[i]
  BY Zenon, <1>5 DEF Joined
<1>7. DOMAIN s = 1..Len(s) /\ Len(s) = 4 + Len(a) + Len(b) + Len(c)
  BY <1>0, <1>2, <1>4, <1>6
<1>8. \A i \in 1..4 : s[i] = h[i]
  BY <1>0, <1>2, <1>4, <1>6
<1>9. Len(c) > 0 => s[Len(s)] = c[Len(c)]
  BY <1>0, <1>6
<1>10. ASSUME Len(c) = 0, Len(b) > 0 PROVE s[Len(s)] = b[Len(b)]
  <2>1. /\ Len(s) = Len(d) + Len(b) /\ Len(b) \in 1..Len(b)
        /\ Len(s) \in 1..Len(e)
    BY <1>0, <1>2, <1>4, <1>6, <1>10
  <2> QED
    BY Zenon, <1>4, <1>6, <2>1
<1>11. FourJoined(S, h, a, b, c, s)
  BY Zenon, <1>6, <1>7, <1>8, <1>9, <1>10 DEF FourJoined
<1> QED
  BY Zenon, <1>11 DEF s, e, d

LEMMA LineIs ==
  ASSUME NEW k, NEW a, NEW e
  PROVE  Line(k, a, e).kind = k /\ Line(k, a, e).arg = a /\ Line(k, a, e).ends = e
  BY DEF Line

(* What the lines of a text are as lines of a section.                     *)
LinesOf(k, t, l) ==
  /\ \E L : l \in Seq(L)
  /\ Len(l) = Len(t)
  /\ \A i \in 1..Len(t) : l[i] = Line(k, t[i].text, t[i].ends)

LEMMA LinesAre ==
  ASSUME NEW k, NEW S, NEW t \in Seq(S)
  PROVE  LinesOf(k, t, Lines(k, t))
<1>1. /\ Lines(k, t) \in Seq({Line(k, t[i].text, t[i].ends) : i \in 1..Len(t)})
      /\ Len(Lines(k, t)) = Len(t)
      /\ \A i \in 1..Len(t) : Lines(k, t)[i] = Line(k, t[i].text, t[i].ends)
  BY DEF Lines
<1> QED
  BY Zenon, <1>1 DEF LinesOf

LEMMA RestIs ==
  ASSUME NEW S, NEW t \in Seq(S), NEW k \in {0, 1}, k <= Len(t)
  PROVE  /\ Rest(t, k) \in Seq(S) /\ Len(Rest(t, k)) = Len(t) - k
         /\ Len(t) > k => Rest(t, k)[Len(t) - k] = t[Len(t)]
         /\ SubSeq(t, 1, k) \in Seq(S) /\ Len(SubSeq(t, 1, k)) = k
  BY DEF Rest

LEMMA SeqLarger == ASSUME NEW S, NEW T, S \subseteq T, NEW s \in Seq(S) PROVE s \in Seq(T)
  OBVIOUS

LEMMA HeadingIs ==
  ASSUME NEW p
  PROVE  (\E S : Heading(p) \in Seq(S)) /\ Len(Heading(p)) = 4
<1>1. \A a, b, c, d : <<a, b, c, d>> \in Seq({a, b, c, d}) /\ Len(<<a, b, c, d>>) = 4
  OBVIOUS
<1> QED
  BY Zenon, <1>1 DEF Heading

LEMMA Sums ==
  ASSUME NEW k \in {0, 1}, NEW m \in Nat, NEW n \in Nat, k <= m, k <= n, m > k \/ n > k
  PROVE  /\ 4 + k + (m - k) + (n - k) = 4 + m + n - k
         /\ 4 + m + n - k > 4 /\ 4 + m + n - k \in Nat
  OBVIOUS

LEMMA SectionIs ==
  ASSUME NEW p, Base[p] \in Known, tree[p] \in Known,
         NEW old, old = Text(Base[p]), NEW new, new = Text(tree[p]), old # new,
         NEW k, k = Common(old, new), NEW s, s = Section(p)
  PROVE  /\ s # <<>> /\ DOMAIN s = 1..Len(s) /\ Len(s) = 4 + Len(old) + Len(new) - k
         /\ Len(s) > 4 /\ Len(s) \in Nat
         /\ \A i \in 1..4 : s[i] = Heading(p)[i]
         /\ Len(new) > k => s[Len(s)] = Line("+", new[Len(new)].text, new[Len(new)].ends)
         /\ ~(Len(new) > k) => s[Len(s)].ends = old[Len(old)].ends
<1> DEFINE h == Heading(p)
           kept == SubSeq(old, 1, k)
           lost == Rest(old, k)
           added == Rest(new, k)
           a == Lines("kept", kept)
           b == Lines("-", lost)
           c == Lines("+", added)
<1>1. s = h \o a \o b \o c
  <2>1. Text(Base[p]) # Text(tree[p])
    OBVIOUS
  <2>2. Section(p) = Heading(p)
            \o Lines("kept", SubSeq(Text(Base[p]), 1, Common(Text(Base[p]), Text(tree[p]))))
            \o Lines("-", Rest(Text(Base[p]), Common(Text(Base[p]), Text(tree[p]))))
            \o Lines("+", Rest(Text(tree[p]), Common(Text(Base[p]), Text(tree[p]))))
    BY Zenon, <2>1 DEF Section, Heading
  <2> QED
    BY Zenon, <2>2
<1>2. PICK S : old \in Seq(S)
  BY TextIs
<1>3. PICK T : new \in Seq(T)
  BY TextIs
<1>4. /\ k \in {0, 1} /\ k <= Len(old) /\ k <= Len(new)
      /\ Len(old) > k \/ Len(new) > k
      /\ Len(old) \in Nat /\ Len(new) \in Nat
  BY <1>2, <1>3, CommonIs
<1>5. /\ lost \in Seq(S) /\ Len(lost) = Len(old) - k
      /\ Len(old) > k => lost[Len(old) - k] = old[Len(old)]
      /\ kept \in Seq(S) /\ Len(kept) = k
  BY Zenon, <1>2, <1>4, RestIs
<1>6. /\ added \in Seq(T) /\ Len(added) = Len(new) - k
      /\ Len(new) > k => added[Len(new) - k] = new[Len(new)]
  BY Zenon, <1>3, <1>4, RestIs
<1> HIDE DEF kept, lost, added
<1>7. LinesOf("kept", kept, a) /\ LinesOf("-", lost, b) /\ LinesOf("+", added, c)
  BY Zenon, <1>5, <1>6, LinesAre
<1>h. (\E H : h \in Seq(H)) /\ Len(h) = 4
  BY Zenon, HeadingIs
<1> HIDE DEF a, b, c, h
<1>8. /\ \E A : a \in Seq(A)
      /\ \E B : b \in Seq(B)
      /\ \E C : c \in Seq(C)
      /\ Len(a) = k /\ Len(b) = Len(old) - k /\ Len(c) = Len(new) - k
  BY Zenon, <1>5, <1>6, <1>7 DEF LinesOf
<1>9. Len(new) > k => c[Len(c)] = Line("+", new[Len(new)].text, new[Len(new)].ends)
  <2>1. Len(new) > k => Len(new) - k \in 1..Len(added)
    BY <1>4, <1>6
  <2> QED
    BY Zenon, <1>6, <1>7, <1>8, <2>1 DEF LinesOf
<1>10. Len(old) > k => b[Len(b)] = Line("-", old[Len(old)].text, old[Len(old)].ends)
  <2>1. Len(old) > k => Len(old) - k \in 1..Len(lost)
    BY <1>4, <1>5
  <2> QED
    BY Zenon, <1>5, <1>7, <1>8, <2>1 DEF LinesOf
<1>11. PICK H, A, B, C : h \in Seq(H) /\ a \in Seq(A) /\ b \in Seq(B) /\ c \in Seq(C)
  BY Zenon, <1>8, <1>h
<1> DEFINE U == H \cup A \cup B \cup C
<1>12. h \in Seq(U) /\ a \in Seq(U) /\ b \in Seq(U) /\ c \in Seq(U)
  <2>1. H \subseteq U /\ A \subseteq U /\ B \subseteq U /\ C \subseteq U
    OBVIOUS
  <2> HIDE DEF U
  <2> QED
    BY Zenon, <1>11, <2>1, SeqLarger
<1> HIDE DEF U
<1>13. FourJoined(U, h, a, b, c, s)
  BY Zenon, <1>1, <1>h, <1>12, FourJoinIs
<1>14. /\ s \in Seq(U) /\ DOMAIN s = 1..Len(s)
       /\ Len(s) = 4 + Len(a) + Len(b) + Len(c)
       /\ \A i \in 1..4 : s[i] = h[i]
       /\ Len(c) > 0 => s[Len(s)] = c[Len(c)]
       /\ Len(c) = 0 /\ Len(b) > 0 => s[Len(s)] = b[Len(b)]
  BY Zenon, <1>13 DEF FourJoined
<1>15. Len(s) = 4 + Len(old) + Len(new) - k /\ Len(s) > 4 /\ Len(s) \in Nat /\ s # <<>>
  <2>1. /\ 4 + k + (Len(old) - k) + (Len(new) - k) = 4 + Len(old) + Len(new) - k
        /\ 4 + Len(old) + Len(new) - k > 4 /\ 4 + Len(old) + Len(new) - k \in Nat
    BY <1>4, Sums
  <2>2. s = <<>> => Len(s) = 0
    OBVIOUS
  <2>3. ~(0 > 4)
    OBVIOUS
  <2> QED
    BY Zenon, <1>8, <1>14, <2>1, <2>2, <2>3
<1>16. Len(new) > k => s[Len(s)] = Line("+", new[Len(new)].text, new[Len(new)].ends)
  <2>1. Len(new) > k => Len(c) > 0
    BY <1>4, <1>8
  <2> QED
    BY Zenon, <2>1, <1>9, <1>14
<1>17. ASSUME ~(Len(new) > k) PROVE s[Len(s)].ends = old[Len(old)].ends
  <2>1. Len(c) = 0 /\ Len(b) > 0 /\ Len(old) > k
    BY <1>4, <1>8, <1>17
  <2>2. s[Len(s)] = Line("-", old[Len(old)].text, old[Len(old)].ends)
    BY Zenon, <1>10, <1>14, <2>1
  <2>3. Line("-", old[Len(old)].text, old[Len(old)].ends).ends = old[Len(old)].ends
    BY LineIs
  <2> QED
    BY Zenon, <2>2, <2>3
<1>18. \A i \in 1..4 : s[i] = Heading(p)[i]
  BY Zenon, <1>14 DEF h
<1> QED
  BY Zenon, <1>14, <1>15, <1>16, <1>17, <1>18

TreeTyped == tree \in [Paths -> Contents \cup {Base[p] : p \in Paths}]

LEMMA FilesAre ==
  /\ DOMAIN Files \in SUBSET Nat
  /\ \A k \in DOMAIN Files : Files[k] \in Paths
  /\ \A p \in Paths : \E k \in DOMAIN Files : Files[k] = p
  BY PatchAssumption DEF PatchAssumption, Paths, ToSet

LEMMA KnownTexts ==
  ASSUME TreeTyped, AllReadable, NEW p \in Paths
  PROVE  Base[p] \in Known /\ tree[p] \in Known /\ p # <<>>
  BY PatchAssumption DEF PatchAssumption, TreeTyped, AllReadable, Known

LEMMA DiffersIs ==
  ASSUME TreeTyped, AllReadable
  PROVE  \A k \in DOMAIN Files :
           k \in Differs <=> Text(Base[Files[k]]) # Text(tree[Files[k]])
<1> SUFFICES ASSUME NEW k \in DOMAIN Files
             PROVE  k \in Differs <=> Text(Base[Files[k]]) # Text(tree[Files[k]])
  OBVIOUS
<1>1. Base[Files[k]] \in Known /\ tree[Files[k]] \in Known
  BY FilesAre, KnownTexts
<1>2. Text(Base[Files[k]]) # Text(tree[Files[k]]) => Section(Files[k]) # <<>>
  BY <1>1, SectionIs
<1>3. Text(Base[Files[k]]) = Text(tree[Files[k]]) => Section(Files[k]) = <<>>
  BY Zenon DEF Section
<1> QED
  BY <1>2, <1>3 DEF Differs

(* Where the text of a section leaves its last line open. *)
LEMMA SectionEnds ==
  ASSUME NEW p, Base[p] \in Known, tree[p] \in Known, Text(Base[p]) # Text(tree[p])
  PROVE  Last(Section(p)).ends <=> ~EndsCut(p)
<1> DEFINE old == Text(Base[p])
           new == Text(tree[p])
           k == Common(old, new)
           s == Section(p)
<1>1. /\ Len(new) > k => s[Len(s)] = Line("+", new[Len(new)].text, new[Len(new)].ends)
      /\ ~(Len(new) > k) => s[Len(s)].ends = old[Len(old)].ends
  BY SectionIs
<1>2. /\ k \in {0, 1} /\ k <= Len(old)
      /\ Len(old) > k \/ Len(new) > k
      /\ Len(new) > k <=> ~ \/ new = <<>>
                            \/ Base[p] = "more" /\ tree[p] \in {"old", "oldcrlf"}
  BY CommonIs
<1>3. Last(s) = s[Len(s)]
  BY DEF Last
<1>4. /\ old # <<>> => old[Len(old)].ends = (Base[p] \notin Unended)
      /\ new # <<>> => new[Len(new)].ends = (tree[p] \notin Unended)
      /\ old = <<>> <=> Base[p] \in {"absent", "empty"}
      /\ new = <<>> <=> tree[p] \in {"absent", "empty"}
      /\ old = <<>> => Len(old) = 0
  BY TextIs
<1>5. CASE Len(new) > k
  <2>1. Last(s).ends = new[Len(new)].ends
    BY <1>1, <1>3, <1>5, LineIs
  <2>2. new # <<>> /\ ~(Base[p] = "more" /\ tree[p] \in {"old", "oldcrlf"})
    BY <1>2, <1>5
  <2>3. Last(s).ends = (tree[p] \notin Unended)
    BY <1>4, <2>1, <2>2
  <2> HIDE DEF s
  <2> QED
    BY <2>2, <2>3 DEF EndsCut, Unended, s
<1>6. CASE ~(Len(new) > k)
  <2>1. Last(s).ends = old[Len(old)].ends
    BY <1>1, <1>3, <1>6
  <2>2. new = <<>> \/ (Base[p] = "more" /\ tree[p] \in {"old", "oldcrlf"})
    BY <1>2, <1>6
  <2>3. old # <<>>
    <3> HIDE DEF old, new, k
    <3> QED BY <1>2, <1>4, <1>6
  <2>4. Last(s).ends = (Base[p] \notin Unended)
    BY <1>4, <2>1, <2>3
  <2>5. tree[p] \notin Unended
    BY <1>4, <2>2 DEF Unended
  <2> HIDE DEF s
  <2> QED
    BY <2>2, <2>4, <2>5 DEF EndsCut, Unended, s
<1> QED
  BY <1>5, <1>6

(* A file that differs and is not shown has one before it that ends open.  *)
LEMMA HiddenBehind ==
  ASSUME TreeTyped, AllReadable, NEW j \in Differs, j \notin Shown
  PROVE  \E i \in Differs : Follows(i, j) /\ EndsCut(Files[i])
<1>1. PICK i \in Differs : Follows(i, j) /\ ~Last(Section(Files[i])).ends
  BY DEF Shown
<1>2. Files[i] \in Paths /\ i \in DOMAIN Files
  BY FilesAre DEF Differs
<1>3. EndsCut(Files[i])
  BY <1>1, <1>2, KnownTexts, DiffersIs, SectionEnds
<1> QED
  BY <1>1, <1>3

(* The headers of a section that differs. *)
LEMMA HeadersAre ==
  ASSUME TreeTyped, AllReadable, NEW k \in Differs
  PROVE  LET s == Section(Files[k])
             p == Files[k]
         IN /\ 2 \in DOMAIN s /\ s[1].ends /\ s[2].kind = "from"
            /\ s[2].arg = (IF Base[p] = "absent" THEN <<>> ELSE p)
            /\ s[3].arg = (IF tree[p] = "absent" THEN <<>> ELSE p)
            /\ s[4] = Line("hunk", <<Text(Base[p]) = <<>>, Text(tree[p]) = <<>> >>, TRUE)
<1> DEFINE p == Files[k]
           s == Section(p)
<1>1. p \in Paths /\ Base[p] \in Known /\ tree[p] \in Known /\ Text(Base[p]) # Text(tree[p])
  BY FilesAre, KnownTexts, DiffersIs DEF Differs
<1>2. DOMAIN s = 1..Len(s) /\ Len(s) > 4 /\ Len(s) \in Nat
  BY <1>1, SectionIs
<1>3. s[1] = Heading(p)[1] /\ s[2] = Heading(p)[2] /\ s[3] = Heading(p)[3] /\ s[4] = Heading(p)[4]
  <2>1. \A i \in 1..4 : s[i] = Heading(p)[i]
    BY <1>1, SectionIs
  <2> HIDE DEF s, p
  <2> QED
    BY <2>1
<1>4. 2 \in DOMAIN s
  <2> HIDE DEF s
  <2> QED
    BY <1>2
<1>5. /\ Heading(p)[1] = Line("diff", p, TRUE)
      /\ Heading(p)[2] = Line("from", IF Base[p] = "absent" THEN <<>> ELSE p, TRUE)
      /\ Heading(p)[3] = Line("to", IF tree[p] = "absent" THEN <<>> ELSE p, TRUE)
      /\ Heading(p)[4] = Line("hunk", <<Text(Base[p]) = <<>>, Text(tree[p]) = <<>> >>, TRUE)
  BY DEF Heading
<1>6. s[1].ends
  BY <1>3, <1>5 DEF Line
<1>7. /\ s[2].kind = "from"
      /\ s[2].arg = (IF Base[p] = "absent" THEN <<>> ELSE p)
      /\ s[3].arg = (IF tree[p] = "absent" THEN <<>> ELSE p)
  BY <1>3, <1>5 DEF Line
<1> QED
  BY <1>3, <1>4, <1>5, <1>6, <1>7

(* The shape of a new file's section stands for a new file with text.      *)
LEMMA NewFileIsNew ==
  ASSUME TreeTyped, AllReadable, NEW k \in Shown, NewFileSection(k)
  PROVE  Base[Files[k]] = "absent" /\ Text(tree[Files[k]]) # <<>>
<1> DEFINE p == Files[k]
<1>1. k \in Differs /\ k \in DOMAIN Files
  BY DEF Shown, Differs
<1>2. p \in Paths /\ p # <<>> /\ Base[p] \in Known
  BY <1>1, FilesAre, KnownTexts
<1>3. Section(p)[2].arg = <<>>
  BY DEF NewFileSection
<1>4. Base[p] = "absent"
  BY <1>1, <1>2, <1>3, HeadersAre
<1>5. Text(Base[p]) = <<>> /\ Text(Base[p]) # Text(tree[p])
  BY <1>1, <1>2, <1>4, TextIs, DiffersIs
<1> QED
  BY <1>4, <1>5

(* Nothing is hidden behind a file when every shown section is one of V2:  *)
(* the first hidden one would put its headers into the text of another.    *)
LEMMA NothingHidden ==
  ASSUME TreeTyped, AllReadable, \A k \in Shown : NewFileSection(k)
  PROVE  Differs \subseteq Shown
<1> DEFINE B == Differs \ Shown
<1> SUFFICES ASSUME B # {} PROVE FALSE
  OBVIOUS
<1>1. Differs \subseteq DOMAIN Files /\ Shown \subseteq Differs /\ Differs \in SUBSET Nat
  BY FilesAre DEF Differs, Shown
<1>2. PICK j \in B : \A m \in B : j <= m
  BY <1>1, Least
<1>3. PICK i \in Differs : Follows(i, j)
  BY <1>2, HiddenBehind
<1>4. i < j /\ i \in Nat /\ j \in Nat /\ i \in Shown
  BY <1>1, <1>2, <1>3 DEF Follows
<1>5. j \in Extent(i)
  <2>1. ASSUME NEW h \in Shown, i < h PROVE j < h
    BY <1>1, <1>2, <1>3, <1>4, <2>1 DEF Follows
  <2> QED
    BY <1>2, <1>4, <2>1 DEF Extent
<1>6. NewFileSection(i)
  BY <1>4
<1> DEFINE s == Section(Files[j])
<1>7. \A n \in DOMAIN s : n > 1 /\ s[n-1].ends => s[n].kind \in {"+", "hunk"}
  BY <1>4, <1>5, <1>6 DEF NewFileSection
<1>8. 2 \in DOMAIN s /\ s[1].ends /\ s[2].kind = "from"
  BY <1>2, HeadersAre
<1>9. s[2].kind \in {"+", "hunk"}
  <2> HIDE DEF s
  <2>1. 2 > 1 /\ 2 - 1 = 1
    OBVIOUS
  <2> QED BY <1>7, <1>8, <2>1
<1> QED
  BY <1>8, <1>9

(***************************************************************************)
(* The candidate's way.                                                    *)
(***************************************************************************)
Passes == AllReadable /\ PolicyAccepts({}) /\ declared = ShownPaths

PatchInv ==
  /\ stage \in Stages /\ version \in PolicyVersions /\ edits \in 0..MaxEdits
  /\ scope \in ScopeProposals \cup {{}} /\ TreeTyped /\ declared \subseteq Names
  /\ stage # "request" => scope \in ScopeProposals /\ ScopeAccepted(scope)
  /\ Accepted => Passes
  /\ stage = "refused" => ~Passes

(* The patch and its verdict are read off the tree, the version and the    *)
(* scope, whoever computes them again.                                     *)
LEMMA SameVerdict ==
  ASSUME UNCHANGED <<tree, version, scope>>
  PROVE  /\ AllReadable' <=> AllReadable
         /\ ShownPaths' = ShownPaths
         /\ PolicyAccepts({})' <=> PolicyAccepts({})
<1>1. AllReadable' <=> AllReadable
  BY DEF AllReadable
<1>2. \A p : Section(p)' = Section(p)
  BY DEF Section
<1>3. Differs' = Differs
  BY <1>2 DEF Differs
<1>4. Shown' = Shown
  BY <1>2, <1>3 DEF Shown, Follows
<1>5. ShownPaths' = ShownPaths
  BY <1>4 DEF ShownPaths
<1>a. LooksBinary' <=> LooksBinary
  BY <1>3 DEF LooksBinary
<1>6. \A k : Extent(k)' = Extent(k)
  BY <1>3, <1>4 DEF Extent
<1>7. \A k : NewFileSection(k)' <=> NewFileSection(k)
  BY <1>2, <1>6 DEF NewFileSection
<1>8. Wellformed' <=> Wellformed
  BY <1>4, <1>5, <1>7, <1>a DEF Wellformed
<1>9. /\ ImplementationPaths(ShownPaths)' = ImplementationPaths(ShownPaths)
      /\ TestPaths(ShownPaths)' = TestPaths(ShownPaths)
  BY <1>5 DEF ImplementationPaths, TestPaths
<1>10. PolicyAccepts({})' <=> PolicyAccepts({})
  BY <1>5, <1>8, <1>9 DEF PolicyAccepts
<1> QED
  BY <1>1, <1>5, <1>10

LEMMA ShownAreNames == ShownPaths \subseteq Names
  BY FilesAre DEF ShownPaths, Shown, Differs, Names

(* What a header shows of a path without the atoms it takes badly.         *)
LEMMA HeaderPathsPlain ==
  ASSUME NEW p, ~Has(p, {"blank_b/", "break"})
  PROVE  HeaderPaths(p) = {p}
  BY DEF HeaderPaths, Has

LEMMA PatchInvInit == PatchInit => PatchInv
<1> SUFFICES ASSUME PatchInit PROVE PatchInv
  OBVIOUS
<1>1. TreeTyped
  BY PatchAssumption DEF PatchInit, PatchAssumption, TreeTyped
<1> QED
  BY <1>1, PatchAssumption DEF PatchInit, PatchInv, PatchAssumption, Stages, PolicyVersions, Accepted
(* A step that leaves the scope, the tree and the declaration alone. *)
Verdict == <<scope, version, tree, declared, edits>>

LEMMA PatchInvNext == PatchInv /\ [PatchNext]_patchVars => PatchInv'
<1> SUFFICES ASSUME PatchInv, [PatchNext]_patchVars PROVE PatchInv'
  OBVIOUS
<1>1. CASE Propose
  <2>1. PICK proposal \in ScopeProposals : ScopeAccepted(proposal) /\ scope' = proposal
    BY <1>1 DEF Propose
  <2>2. version' \in PolicyVersions
    BY <1>1 DEF Propose, SelectVersion
  <2>3. stage' = "build" /\ UNCHANGED <<tree, declared, edits>>
    BY <1>1 DEF Propose
  <2> QED
    BY <2>1, <2>2, <2>3 DEF PatchInv, TreeTyped, Stages, Accepted
<1>2. ASSUME NEW p \in Paths, NEW c \in Contents, Edit(p, c)
      PROVE  PatchInv'
  <2>1. TreeTyped' /\ edits' \in 0..MaxEdits
    BY <1>2, PatchAssumption DEF Edit, PatchInv, TreeTyped, PatchAssumption
  <2>2. stage = "build" /\ UNCHANGED <<stage, scope, version, declared>>
    BY <1>2 DEF Edit
  <2> QED
    BY <2>1, <2>2 DEF PatchInv, Stages, Accepted
<1>3. ASSUME UNCHANGED <<tree, version, scope, edits>>, stage # "request", stage' # "request",
             stage' \in Stages, declared' \subseteq Names,
             Accepted' => Passes', stage' = "refused" => ~Passes'
      PROVE  PatchInv'
  BY <1>3 DEF PatchInv, TreeTyped
<1>4. CASE Submit
  <2>1. UNCHANGED <<tree, version, scope, edits>> /\ stage = "build"
    BY <1>4 DEF Submit
  <2>2. declared' \subseteq Names
    BY <1>4, ShownAreNames DEF Submit, Changed, Names
  <2>3. stage' = IF AllReadable /\ PolicyAccepts({}) /\ declared' = ShownPaths
                 THEN "valid" ELSE "refused"
    BY <1>4 DEF Submit
  <2>4. Passes' <=> AllReadable /\ PolicyAccepts({}) /\ declared' = ShownPaths
    BY <2>1, SameVerdict DEF Passes
  <2> QED
    BY <1>3, <2>1, <2>2, <2>3, <2>4 DEF Stages, Accepted
<1>5. ASSUME UNCHANGED Verdict, stage \in {"valid", "testable"},
             stage' \in {"testable", "untestable", "manifest", "protected"}
      PROVE  PatchInv'
  <2>1. Passes
    BY <1>5 DEF PatchInv, Accepted
  <2>2. Passes'
    BY <1>5, <2>1, SameVerdict DEF Passes, Verdict
  <2> QED
    BY <1>3, <1>5, <2>2 DEF PatchInv, Verdict, Stages, Accepted
<1>6. CASE LoadInputs
  BY <1>5, <1>6 DEF LoadInputs, Verdict
<1>7. CASE FinalizeManifest
  BY <1>5, <1>7 DEF FinalizeManifest, Verdict
<1>8. CASE UNCHANGED patchVars
  <2>1. Passes' <=> Passes
    BY <1>8, SameVerdict DEF patchVars, Passes
  <2> QED
    BY <1>8, <2>1 DEF patchVars, PatchInv, TreeTyped, Accepted
<1> QED
  BY <1>1, <1>2, <1>4, <1>6, <1>7, <1>8 DEF PatchNext

LEMMA PatchInductive == PatchSpec => []PatchInv
<1> QED
  BY PatchInvInit, PatchInvNext, PTL DEF PatchSpec

(* The candidate is typed, and an accepted one declares what its patch     *)
(* shows (_validate_builder_output, load_candidate_inputs).                *)
THEOREM DeclaredIsShown == PatchSpec => []PatchTypeOK
<1>1. PatchInv => PatchTypeOK
  BY DEF PatchInv, PatchTypeOK, TreeTyped, Passes
<1> QED
  BY <1>1, PatchInductive, PTL

(* The greatest of the places where a word has an atom.                    *)
LEMMA Greatest ==
  ASSUME NEW n \in Nat, NEW S \in SUBSET (1..n), S # {}
  PROVE  Max(S) \in S
<1> DEFINE B == {n - i : i \in S}
<1>1. B \in SUBSET Nat /\ B # {}
  OBVIOUS
<1>2. PICK b \in B : \A c \in B : b <= c
  <2> HIDE DEF B
  <2> QED
    BY <1>1, Least
<1>3. PICK i \in S : b = n - i
  BY <1>2
<1>4. \A j \in S : i >= j
  <2> SUFFICES ASSUME NEW j \in S PROVE i >= j
    OBVIOUS
  <2>1. n - i <= n - j
    BY <1>2, <1>3
  <2> QED
    BY <1>3, <2>1
<1> QED
  BY <1>4 DEF Max

LEMMA NamesAreWords == \A w \in Names : Word(w)
<1>1. \A p \in Paths : Word(p)
  BY PatchAssumption DEF PatchAssumption, Word
<1>2. ASSUME NEW p \in Paths, NEW w \in HeaderPaths(p) PROVE Word(w)
  <2>1. CASE Has(p, {"break"}) \/ ~Has(p, {"blank_b/"})
    BY <1>1, <1>2, <2>1 DEF HeaderPaths
  <2>2. CASE ~Has(p, {"break"}) /\ Has(p, {"blank_b/"})
    <3> DEFINE S == {i \in DOMAIN p : p[i] = "blank_b/"}
               k == Max(S)
    <3>1. PICK A : p \in Seq(A)
      BY <1>1 DEF Word
    <3>2. DOMAIN p = 1..Len(p) /\ Len(p) \in Nat
      BY <3>1
    <3>3. S # {} /\ S \in SUBSET (1..Len(p))
      BY <2>2, <3>2 DEF Has
    <3>4. k \in 1..Len(p) /\ p[k] = "blank_b/"
      <4>1. k \in S
        <5> HIDE DEF S
        <5> QED
          BY <3>2, <3>3, Greatest
      <4> QED
        BY <3>2, <4>1
    <3>5. w = p \o <<"blank_b/">> \o SubSeq(p, 1, k - 1) \/ w = SubSeq(p, k + 1, Len(p))
      BY <1>2, <2>2, Zenon DEF HeaderPaths
    <3> HIDE DEF k
    <3>6. SubSeq(p, 1, k - 1) \in Seq(A) /\ SubSeq(p, k + 1, Len(p)) \in Seq(A)
      BY <3>1, <3>4
    <3> DEFINE U == A \cup {"blank_b/"}
    <3>7. p \in Seq(U) /\ SubSeq(p, 1, k - 1) \in Seq(U)
      BY <3>1, <3>6, SeqLarger
    <3>8. <<"blank_b/">> \in Seq(U)
      OBVIOUS
    <3> HIDE DEF U
    <3>9. p \o <<"blank_b/">> \o SubSeq(p, 1, k - 1) \in Seq(U)
      <4> DEFINE v == SubSeq(p, 1, k - 1)
                 t == <<"blank_b/">>
      <4>1. v \in Seq(U) /\ t \in Seq(U)
        BY <3>7, <3>8
      <4> HIDE DEF v, t
      <4>2. p \o t \o v \in Seq(U)
        BY <3>7, <4>1
      <4> QED
        BY <4>2 DEF v, t
    <3> QED
      BY Zenon, <3>5, <3>6, <3>9 DEF Word
  <2> QED
    BY <2>1, <2>2
<1> QED
  BY <1>1, <1>2 DEF Names

(* What matches an accepted scope is allowed by the request and forbidden  *)
(* by none of its patterns (_scope_within, _scopes_overlap).               *)
LEMMA ScopeSound ==
  ASSUME NEW proposal \in ScopeProposals, ScopeAccepted(proposal),
         NEW w, Word(w), Matches(w, proposal)
  PROVE  Matches(w, ChangeScopes.allowed) /\ ~Matches(w, ChangeScopes.forbidden)
<1>1. PICK q \in proposal : Glob(w, q)
  BY DEF Matches
<1>2. PICK a \in ChangeScopes.allowed : ScopeWithin(q, a)
  BY DEF ScopeAccepted
<1>3. Word(w) /\ Word(q) /\ Word(a) /\ \A f \in ChangeScopes.forbidden : Word(f)
  <2>1. \A p \in Paths \cup ChangeScopes.allowed \cup ChangeScopes.forbidden
                  \cup UNION ScopeProposals : Word(p)
    BY PatchAssumption DEF PatchAssumption, Word
  <2> QED
    BY <2>1
<1>4. Directory(a)
  BY <1>3, RequestAssumption DEF RequestAssumption, Directory, Last, Plain
<1>5. Glob(w, a)
  BY <1>1, <1>2, <1>3, <1>4, WithinDirectory
<1>6. Literal(q) # <<>>
  <2>1. Len(a) - 1 <= Len(Literal(q)) /\ Len(Literal(q)) \in Nat /\ Len(a) \in Nat /\ Len(a) > 1
    <3>1. Len(a) - 1 \in 0..Len(q) /\ Plain(q, Len(a) - 1)
      BY <1>2, <1>3, <1>4, WithinDirectory, WordLen DEF Directory
    <3> QED
      BY <1>3, <1>4, <3>1, PlainLiteral, LiteralIs, WordLen DEF Directory
  <2> QED
    BY <2>1
<1>7. ASSUME NEW f \in ChangeScopes.forbidden, Glob(w, f) PROVE FALSE
  <2>1. Word(f) /\ Len(f) \in Nat /\ f # <<>> /\ f[1] # "*" /\ Len(f) > 0
    BY <1>3, WordLen, RequestAssumption DEF RequestAssumption, Word
  <2>2. Literal(f) # <<>>
    <3>1. 1 <= Len(Literal(f))
      BY <2>1, PlainLiteral DEF Plain
    <3> QED
      BY <3>1
  <2>3. ScopesOverlap(q, f)
    BY <1>1, <1>3, <1>6, <1>7, <2>1, <2>2, CommonPath
  <2> QED
    BY <2>3 DEF ScopeAccepted
<1> QED
  BY <1>5, <1>7 DEF Matches
(* No file an accepted candidate declares leaves the request's scope, and  *)
(* under V2 each is a new file with text (_scope_within, _scopes_overlap,  *)
(* _changed_paths_v2).                                                     *)
THEOREM ScopeKept == PatchSpec => []ScopeHeld
<1>1. PatchInv => ScopeHeld
  <2> SUFFICES ASSUME PatchInv, Accepted, NEW p \in declared
               PROVE  /\ Matches(p, ChangeScopes.allowed) /\ ~Matches(p, ChangeScopes.forbidden)
                      /\ version = "V2" => Base[p] = "absent" /\ Text(tree[p]) # <<>>
    BY DEF ScopeHeld
  <2>1. TreeTyped /\ AllReadable /\ PolicyAccepts({}) /\ declared = ShownPaths
    BY DEF PatchInv, Passes
  <2>2. scope \in ScopeProposals /\ ScopeAccepted(scope)
    BY DEF PatchInv, Accepted
  <2>3. Word(p) /\ Matches(p, scope)
    BY <2>1, ShownAreNames, NamesAreWords DEF PolicyAccepts
  <2>4. ASSUME version = "V2" PROVE Base[p] = "absent" /\ Text(tree[p]) # <<>>
    <3>1. PICK k \in Shown : p \in HeaderPaths(Files[k])
      BY <2>1 DEF ShownPaths
    <3>2. NewFileSection(k) /\ V2Header(Files[k])
      BY <2>1, <2>4 DEF PolicyAccepts, Wellformed
    <3>3. p = Files[k]
      BY <3>1, <3>2, HeaderPathsPlain DEF V2Header, Has
    <3> QED
      BY <2>1, <3>2, <3>3, NewFileIsNew
  <2> QED
    BY <2>2, <2>3, <2>4, ScopeSound
<1> QED
  BY <1>1, PatchInductive, PTL

(* A change escapes an accepted candidate's patch only when its text is    *)
(* the same line by line, or, under V1, by the header of its path or behind*)
(* a file without a newline at its end (deterministic_patch, changed_paths,*)
(* _changed_paths_v2).                                                     *)
THEOREM HiddenForCause == PatchSpec => []UnseenForCause
<1>1. PatchInv => UnseenForCause
  <2> SUFFICES ASSUME PatchInv, Accepted, NEW p \in Changed \ declared,
                      Text(tree[p]) # Text(Base[p])
               PROVE  /\ version = "V1"
                      /\ \/ Has(p, {"blank_b/", "break"})
                         \/ \E i, j \in DOMAIN Files :
                              i < j /\ Files[j] = p /\ EndsCut(Files[i])
    BY DEF UnseenForCause
  <2>1. TreeTyped /\ AllReadable /\ PolicyAccepts({}) /\ declared = ShownPaths
    BY DEF PatchInv, Passes
  <2>2. PICK j \in DOMAIN Files : Files[j] = p
    BY FilesAre DEF Changed
  <2>3. j \in Differs
    BY <2>1, <2>2, DiffersIs
  <2>4. j \in Shown => Has(p, {"blank_b/", "break"})
    BY <2>1, <2>2, HeaderPathsPlain DEF ShownPaths
  <2>5. ASSUME j \notin Shown
        PROVE  \E i \in DOMAIN Files : i < j /\ EndsCut(Files[i])
    <3>1. PICK i \in Differs : Follows(i, j) /\ EndsCut(Files[i])
      BY <2>1, <2>3, <2>5, HiddenBehind
    <3> QED
      BY <3>1 DEF Differs, Follows
  <2>6. version # "V2"
    <3> SUFFICES ASSUME version = "V2" PROVE FALSE
      OBVIOUS
    <3>1. \A k \in Shown : V2Header(Files[k]) /\ NewFileSection(k)
      BY <2>1 DEF PolicyAccepts, Wellformed
    <3>2. j \in Shown
      BY <2>1, <2>3, <3>1, NothingHidden
    <3>3. V2Header(p)
      BY <2>2, <3>1, <3>2
    <3> QED
      BY <2>4, <3>2, <3>3 DEF V2Header, Has
  <2>7. version = "V1"
    BY <2>6 DEF PatchInv, PolicyVersions
  <2> QED
    BY <2>2, <2>4, <2>5, <2>7
<1> QED
  BY <1>1, PatchInductive, PTL

(* A new file of one whole line makes a section of V2.                     *)
LEMMA WholeSection ==
  ASSUME TreeTyped, AllReadable, NEW k \in Differs, Extent(k) = {k},
         Base[Files[k]] = "absent", tree[Files[k]] \in {"new", "marked"}
  PROVE  NewFileSection(k)
<1> DEFINE p == Files[k]
           s == Section(p)
           old == Text(Base[p])
           new == Text(tree[p])
<1>1. /\ old = <<>> /\ Len(old) = 0
      /\ new # <<>> /\ Len(new) = 1
  BY TextIs DEF Known
<1>2. Base[p] \in Known /\ tree[p] \in Known /\ old # new
  BY <1>1 DEF Known
<1>3. Common(old, new) = 0
  BY <1>1 DEF Common
<1>4. DOMAIN s = 1..5 /\ s[5].kind = "+"
  <2>1. /\ DOMAIN s = 1..Len(s) /\ Len(s) = 4 + Len(old) + Len(new) - Common(old, new)
        /\ Len(new) > Common(old, new) =>
             s[Len(s)] = Line("+", new[Len(new)].text, new[Len(new)].ends)
    BY <1>2, SectionIs
  <2> HIDE DEF s, old, new
  <2>2. \A a, b, c : a = 0 /\ b = 1 /\ c = 0 => 4 + a + b - c = 5 /\ b > c
    OBVIOUS
  <2>3. Len(s) = 5 /\ Len(new) > Common(old, new)
    BY Zenon, <1>1, <1>3, <2>1, <2>2
  <2>4. s[5] = Line("+", new[Len(new)].text, new[Len(new)].ends)
    BY Zenon, <2>1, <2>3
  <2>5. s[5].kind = "+"
    BY <2>4, LineIs
  <2> QED
    BY Zenon, <2>1, <2>3, <2>5
<1>5. s[2].arg = <<>> /\ s[3].arg = p
  <2>1. /\ s[2].arg = (IF Base[p] = "absent" THEN <<>> ELSE p)
        /\ s[3].arg = (IF tree[p] = "absent" THEN <<>> ELSE p)
    BY HeadersAre
  <2>2. tree[p] # "absent"
    OBVIOUS
  <2> HIDE DEF s
  <2> QED
    BY <2>1, <2>2
<1>6. s[4].kind = "hunk" /\ s[4].arg = <<TRUE, FALSE>>
  <2>1. s[4] = Line("hunk", <<Text(Base[p]) = <<>>, Text(tree[p]) = <<>> >>, TRUE)
    BY HeadersAre
  <2>2. (Text(Base[p]) = <<>>) = TRUE /\ (Text(tree[p]) = <<>>) = FALSE
    BY <1>1
  <2>3. s[4] = Line("hunk", <<TRUE, FALSE>>, TRUE)
    BY <2>1, <2>2, Zenon
  <2>4. \A a : LET l == Line("hunk", a, TRUE) IN l.kind = "hunk" /\ l.arg = a
    BY DEF Line
  <2> HIDE DEF s
  <2>5. \A a : s[4] = Line("hunk", a, TRUE) => s[4].kind = "hunk" /\ s[4].arg = a
    BY <2>4
  <2> QED
    BY <2>3, <2>5, Zenon
<1>7. \A i \in DOMAIN s : i > 3 => s[i].kind = "+" \/ (s[i].kind = "hunk" /\ s[i].arg = <<TRUE, FALSE>>)
  <2> SUFFICES ASSUME NEW i \in 1..5, i > 3
               PROVE  s[i].kind = "+" \/ (s[i].kind = "hunk" /\ s[i].arg = <<TRUE, FALSE>>)
    BY <1>4
  <2>1. i = 4 \/ i = 5
    OBVIOUS
  <2> QED
    BY <1>4, <1>6, <2>1
<1> QED
  BY <1>5, <1>7 DEF NewFileSection

(* When every change is a whole new file under a path that its header      *)
(* carries, the patch shows them all.                                      *)
LEMMA HonestShown ==
  ASSUME TreeTyped,
         \A p \in Changed : /\ tree[p] \in {"new", "marked"} /\ Base[p] = "absent"
                            /\ ~Has(p, {"blank_b/", "break"})
  PROVE  /\ AllReadable /\ ShownPaths = Changed
         /\ \A k \in Shown : NewFileSection(k)
<1>1. AllReadable
  BY PatchAssumption DEF PatchAssumption, AllReadable, Changed
<1>2. \A p \in Changed : Text(Base[p]) # Text(tree[p]) /\ ~EndsCut(p)
  BY TextIs DEF Known, EndsCut
<1>3. \A k \in DOMAIN Files : k \in Differs <=> Files[k] \in Changed
  BY <1>1, <1>2, FilesAre, DiffersIs DEF Changed
<1>4. \A k \in Differs : Last(Section(Files[k])).ends
  <2> SUFFICES ASSUME NEW k \in Differs PROVE Last(Section(Files[k])).ends
    OBVIOUS
  <2>1. Files[k] \in Changed /\ Files[k] \in Paths
    BY <1>3 DEF Differs, Changed
  <2> QED
    BY <1>1, <1>2, <2>1, KnownTexts, SectionEnds
<1>5. Shown = Differs
  BY <1>4 DEF Shown
<1>6. ShownPaths = Changed
  <2>1. \A k \in Shown : HeaderPaths(Files[k]) = {Files[k]}
    BY <1>3, <1>5, HeaderPathsPlain DEF Differs
  <2> QED
    BY <1>3, <1>5, <2>1, FilesAre DEF ShownPaths, Differs, Changed
<1>7. ASSUME NEW k \in Shown PROVE NewFileSection(k)
  <2>1. Extent(k) = {k}
    BY <1>5, FilesAre DEF Extent, Differs
  <2>2. Files[k] \in Changed
    BY <1>3, <1>5 DEF Differs
  <2> QED
    BY <1>1, <1>5, <2>1, <2>2, WholeSection
<1> QED
  BY <1>1, <1>6, <1>7

(* A candidate of whole new files in scope, with an implementation, a test *)
(* and an honest declaration, is refused only for a path that the headers  *)
(* do not carry or, under V2, a text that looks like a binary patch's      *)
(* (_validate_builder_output, validate_candidate_patch, _changed_paths_v2).*)
THEOREM HonestNotRefused == PatchSpec => []RefusedForCause
<1>1. PatchInv => RefusedForCause
  <2> SUFFICES ASSUME PatchInv, stage = "refused",
                      \A p \in Changed : /\ tree[p] \in {"new", "marked"}
                                         /\ Base[p] = "absent"
                                         /\ ~Has(p, {"blank_b/", "break"})
                                         /\ version = "V2" => /\ tree[p] # "marked"
                                                              /\ ~Has(p, {"blank"})
                                         /\ Matches(p, Policy[version].allowed)
                                         /\ ~Matches(p, Policy[version].forbidden)
                                         /\ Matches(p, scope),
                      declared = Changed,
                      ImplementationPaths(Changed) # {}, TestPaths(Changed) # {}
               PROVE  FALSE
    BY DEF RefusedForCause
  <2>1. /\ AllReadable /\ ShownPaths = Changed
        /\ \A k \in Shown : NewFileSection(k)
    BY HonestShown DEF PatchInv
  <2>2. Shown # {}
    BY <2>1 DEF ImplementationPaths, ShownPaths
  <2>3. \A k \in Differs : Files[k] \in Changed \/ Text(Base[Files[k]]) = Text(tree[Files[k]])
    BY FilesAre DEF Differs, Changed
  <2>4. \A k \in Differs : Files[k] \in Changed
    BY <2>1, <2>3, DiffersIs DEF PatchInv, Differs
  <2>5. version = "V2" => ~LooksBinary /\ \A k \in Shown : V2Header(Files[k])
    BY <2>4 DEF LooksBinary, Shown, V2Header, Has
  <2>6. PolicyAccepts({})
    BY <2>1, <2>2, <2>5 DEF PolicyAccepts, Wellformed, Matches, ImplementationPaths
  <2> QED
    BY <2>1, <2>6 DEF PatchInv, Passes
<1> QED
  BY <1>1, PatchInductive, PTL
=============================================================================
