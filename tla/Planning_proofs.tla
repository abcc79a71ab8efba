-------------------------- MODULE Planning_proofs --------------------------
(***************************************************************************)
(* A cycle appears whole and loads one plan, for every number of commands: *)
(* what prepare_run, prepare_invocation and load_invocation_plan deliver   *)
(* without a lock.                                                         *)
(***************************************************************************)
EXTENDS Planning, TLAPS

(* A preparer that is at work or may begin has not given the cycle its     *)
(* directory, and what it is about to rename is complete.                  *)
Preparing ==
  \A p \in Preparers :
    /\ pc[p] \in {"idle", "mktemp", "fill", "rename", "cleanup"} => run # p
    /\ pc[p] = "rename" => staging[p] = "whole"

(* A planner that has not made its work directory has left nothing yet,    *)
(* and one that has begins no second time.                                 *)
Begun ==
  \A p \in Planners :
    /\ pc[p] \in {"idle", "look", "mkdir"} => p \notin work
    /\ p \notin work => manifest[p] = "absent"
    /\ pc[p] \in {"propose", "proposing", "bind", "binding", "stage", "publish"}
         => p \in work /\ manifest[p] = "absent"
    /\ pc[p] = "publishing" => p \in work /\ manifest[p] = "torn"

(* The places of a planner say which files of the cycle are its own.       *)
ProposalHeld ==
  \A p \in Planners :
    /\ pc[p] = "proposing" => proposal = Torn(p)
    /\ pc[p] \in {"bind", "binding"} => proposal = Whole(p)
    /\ role = "builder" /\ pc[p] \in {"stage", "publish", "publishing"}
         => proposal = Whole(p)
    /\ role = "builder" /\ manifest[p] # "absent" => proposal = Whole(p)

BindingHeld ==
  \A p \in Planners :
    /\ pc[p] = "binding" => binding = Torn(p)
    /\ role = "builder" /\ pc[p] \in {"stage", "publish", "publishing"}
         => binding = Whole(p)
    /\ role = "builder" /\ manifest[p] # "absent" => binding = Whole(p)

(* A plan that has been loaded once stays on disk, complete. *)
LoadedStays ==
  \A l \in Loaders : loaded[l] # "none" => manifest[loaded[l]] = "whole"

IInv == TypeOK /\ PreparedWhole /\ Preparing /\ Begun /\ ProposalHeld
          /\ BindingHeld /\ LoadedStays /\ SameInvocation

(* The three ways a document of the cycle can stand are told apart. *)
LEMMA Files ==
  /\ \A p : Nobody # Whole(p) /\ Nobody # Torn(p)
  /\ \A p, q : Torn(p) # Whole(q)
  /\ \A p, q : Torn(p) = Torn(q) => p = q
  /\ \A p, q : Whole(p) = Whole(q) => p = q
  /\ \A p \in Planners : Torn(p) \in Documents /\ Whole(p) \in Documents
  /\ Nobody \in Documents
  BY DEF Nobody, Torn, Whole, Documents

LEMMA Disjoint ==
  /\ "none" \notin Preparers /\ "none" \notin Planners
  /\ \A p \in Preparers : p \in Procs /\ p \notin Planners /\ p \notin Loaders
  /\ \A p \in Planners : p \in Procs /\ p \notin Preparers /\ p \notin Loaders
  /\ \A p \in Loaders : p \in Procs /\ p \notin Planners /\ p \notin Preparers
  BY PlanningAssumption DEF Procs

LEMMA InitIInv == Init => IInv
<1> SUFFICES ASSUME Init PROVE IInv
  OBVIOUS
<1>1. TypeOK
  BY Files, PlanningAssumption DEF Init, TypeOK
<1>2. PreparedWhole /\ LoadedStays /\ SameInvocation
  BY DEF Init, PreparedWhole, LoadedStays, SameInvocation
<1>3. Preparing /\ Begun
  BY Disjoint DEF Init, Preparing, Begun
<1>4. ProposalHeld /\ BindingHeld
  BY Disjoint DEF Init, ProposalHeld, BindingHeld
<1> QED
  BY <1>1, <1>2, <1>3, <1>4 DEF IInv

(***************************************************************************)
(* Typing, action by action.                                               *)
(***************************************************************************)
LEMMA NextTypeOK == TypeOK /\ [Next]_vars => TypeOK'
<1> SUFFICES ASSUME TypeOK, [Next]_vars PROVE TypeOK'
  OBVIOUS
<1> USE DEF TypeOK, Goto
<1>1. ASSUME NEW p \in Preparers, Prepare(p), UNCHANGED role PROVE TypeOK'
  <2>1. CASE BeginPrepare(p)
    BY <1>1, <2>1, Disjoint DEF BeginPrepare, Active, Ended
  <2>2. CASE MakeTemporary(p)
    BY <1>1, <2>2, Disjoint DEF MakeTemporary, Active, Ended
  <2>3. CASE FillTemporary(p)
    BY <1>1, <2>3, Disjoint DEF FillTemporary, Active, Ended
  <2>4. CASE Rename(p)
    BY <1>1, <2>4, Disjoint DEF Rename, Active, Ended
  <2>5. CASE Cleanup(p)
    BY <1>1, <2>5, Disjoint DEF Cleanup, Active, Ended
  <2> QED
    BY <1>1, <2>1, <2>2, <2>3, <2>4, <2>5 DEF Prepare
<1>2. ASSUME NEW p \in Planners, Plan(p), UNCHANGED role PROVE TypeOK'
  <2>0. (faults < MaxFaults /\ faults' = faults + 1 => faults' \in 0 .. MaxFaults)
    BY PlanningAssumption
  <2>1. CASE BeginPlan(p)
    BY <1>2, <2>1, Disjoint DEF BeginPlan, Active, Ended
  <2>2. CASE LookForWork(p)
    BY <1>2, <2>2, Disjoint DEF LookForWork, Active, Ended
  <2>3. CASE MakeWork(p)
    BY <1>2, <2>3, Disjoint DEF MakeWork, Active, Ended
  <2>4. CASE Propose(p)
    BY <1>2, <2>4, Disjoint, Files DEF Propose, Active, Ended
  <2>5. CASE FillProposal(p)
    BY <1>2, <2>0, <2>5, Disjoint, Files DEF FillProposal, Fault, Active, Ended
  <2>6. CASE Bind(p)
    BY <1>2, <2>6, Disjoint, Files DEF Bind, Active, Ended
  <2>7. CASE FillBinding(p)
    BY <1>2, <2>0, <2>7, Disjoint, Files DEF FillBinding, Fault, Active, Ended
  <2>8. CASE StageInputs(p)
    BY <1>2, <2>0, <2>8, Disjoint DEF StageInputs, Fault, Active, Ended
  <2>9. CASE PublishManifest(p)
    BY <1>2, <2>9, Disjoint DEF PublishManifest, Active, Ended
  <2>10. CASE FillManifest(p)
    BY <1>2, <2>0, <2>10, Disjoint DEF FillManifest, Fault, Active, Ended
  <2> QED
    BY <1>2, <2>1, <2>2, <2>3, <2>4, <2>5, <2>6, <2>7, <2>8, <2>9, <2>10 DEF Plan
<1>3. ASSUME NEW p \in Loaders, Load(p), UNCHANGED role PROVE TypeOK'
  BY <1>3, Disjoint DEF Load, Active, Ended
<1>4. ASSUME NEW p \in Procs, Again(p) \/ Crash(p), UNCHANGED role PROVE TypeOK'
  <2>1. CASE Again(p)
    BY <1>4, <2>1 DEF Again
  <2>2. CASE Crash(p)
    <3>1. faults' \in 0 .. MaxFaults
      BY <2>2, PlanningAssumption DEF Crash, Fault
    <3> QED
      BY <1>4, <2>2, <3>1 DEF Crash, Ended
  <2> QED
    BY <1>4, <2>1, <2>2
<1>5. CASE UNCHANGED vars
  BY <1>5 DEF vars
<1> QED
  BY <1>1, <1>2, <1>3, <1>4, <1>5 DEF Next

(***************************************************************************)
(* A preparer touches its own directory and, once, the cycle's.            *)
(***************************************************************************)
LEMMA PrepareStep ==
  ASSUME IInv, NEW p \in Preparers, Prepare(p), UNCHANGED role
  PROVE  /\ PreparedWhole' /\ Preparing'
         /\ Begun' /\ ProposalHeld' /\ BindingHeld' /\ LoadedStays' /\ SameInvocation'
<1> USE DEF Goto
<1>1. UNCHANGED <<work, proposal, binding, manifest, loaded>>
  BY DEF Prepare, BeginPrepare, MakeTemporary, FillTemporary, Rename, Cleanup
<1>2. \A q \in Procs : q # p => pc'[q] = pc[q]
  BY DEF IInv, TypeOK, Prepare, BeginPrepare, MakeTemporary, FillTemporary, Rename, Cleanup
<1>3. \A q \in Planners : pc'[q] = pc[q]
  BY <1>2, Disjoint
<1>4. Begun' /\ ProposalHeld' /\ BindingHeld' /\ LoadedStays' /\ SameInvocation'
  BY <1>1, <1>3 DEF IInv, Begun, ProposalHeld, BindingHeld, LoadedStays, SameInvocation
<1>5. PreparedWhole' /\ Preparing'
  <2> USE DEF IInv, TypeOK, PreparedWhole, Preparing
  <2>1. CASE BeginPrepare(p)
    BY <2>1, <1>2, Disjoint DEF BeginPrepare
  <2>2. CASE MakeTemporary(p)
    BY <2>2, <1>2, Disjoint DEF MakeTemporary
  <2>3. CASE FillTemporary(p)
    BY <2>3, <1>2, Disjoint DEF FillTemporary
  <2>4. CASE Rename(p)
    BY <2>4, <1>2, Disjoint DEF Rename
  <2>5. CASE Cleanup(p)
    BY <2>5, <1>2, Disjoint DEF Cleanup
  <2> QED
    BY <2>1, <2>2, <2>3, <2>4, <2>5 DEF Prepare
<1> QED
  BY <1>4, <1>5

(* A planner touches neither the preparers nor what was loaded. *)
LEMMA PlanFrame ==
  ASSUME IInv, NEW p \in Planners, Plan(p)
  PROVE  /\ UNCHANGED <<staging, run, loaded>>
         /\ \A q \in Procs : q # p => pc'[q] = pc[q]
         /\ \A q \in Planners : q # p => manifest'[q] = manifest[q]
                                         /\ (q \in work' <=> q \in work)
  BY DEF IInv, TypeOK, Goto, Plan, BeginPlan, LookForWork, MakeWork, Propose,
     FillProposal, Bind, FillBinding, StageInputs, PublishManifest, FillManifest

LEMMA PlanKeepsCycle ==
  ASSUME IInv, NEW p \in Planners, Plan(p)
  PROVE  PreparedWhole' /\ Preparing'
<1>1. \A q \in Preparers : pc'[q] = pc[q]
  BY PlanFrame, Disjoint
<1> QED
  BY <1>1, PlanFrame DEF IInv, PreparedWhole, Preparing

(* Each planner goes this way once. *)
LEMMA PlanBegun ==
  ASSUME IInv, NEW p \in Planners, Plan(p)
  PROVE  Begun'
<1> USE PlanFrame, Disjoint DEF IInv, TypeOK, Goto, Begun
<1>1. CASE BeginPlan(p)
  BY <1>1 DEF BeginPlan
<1>2. CASE LookForWork(p)
  BY <1>2 DEF LookForWork
<1>3. CASE MakeWork(p)
  BY <1>3 DEF MakeWork
<1>4. CASE Propose(p)
  BY <1>4 DEF Propose
<1>5. CASE FillProposal(p)
  BY <1>5 DEF FillProposal
<1>6. CASE Bind(p)
  BY <1>6 DEF Bind
<1>7. CASE FillBinding(p)
  BY <1>7 DEF FillBinding
<1>8. CASE StageInputs(p)
  BY <1>8 DEF StageInputs
<1>9. CASE PublishManifest(p)
  BY <1>9 DEF PublishManifest
<1>10. CASE FillManifest(p)
  BY <1>10 DEF FillManifest
<1> QED
  BY <1>1, <1>2, <1>3, <1>4, <1>5, <1>6, <1>7, <1>8, <1>9, <1>10 DEF Plan

(* A loaded plan is complete, and only a manifest just created is filled. *)
LEMMA PlanKeepsLoaded ==
  ASSUME IInv, NEW p \in Planners, Plan(p)
  PROVE  LoadedStays' /\ SameInvocation'
<1>1. manifest[p] = "whole" => manifest'[p] = "whole"
  BY DEF IInv, TypeOK, Begun, Plan, BeginPlan, LookForWork, MakeWork, Propose,
     FillProposal, Bind, FillBinding, StageInputs, PublishManifest, FillManifest
<1>2. \A l \in Loaders : loaded[l] # "none" => loaded[l] \in Planners
  BY DEF IInv, TypeOK
<1> QED
  BY <1>1, <1>2, PlanFrame DEF IInv, LoadedStays, SameInvocation

(***************************************************************************)
(* The proposal: whoever is past it, or is a Builder's planner with a      *)
(* manifest, wrote it; so no other planner creates, fills or unlinks it.   *)
(***************************************************************************)
LEMMA PlanProposal ==
  ASSUME IInv, NEW p \in Planners, Plan(p), UNCHANGED role
  PROVE  ProposalHeld'
<1> USE PlanFrame, Disjoint, Files DEF IInv, TypeOK, Goto, ProposalHeld
<1>1. CASE BeginPlan(p)
  BY <1>1 DEF BeginPlan
<1>2. CASE LookForWork(p)
  BY <1>2 DEF LookForWork
<1>3. CASE MakeWork(p)
  BY <1>3 DEF MakeWork
<1>4. CASE Propose(p)
  BY <1>4 DEF Propose, Begun
<1>5. CASE FillProposal(p)
  BY <1>5 DEF FillProposal, Begun
<1>6. CASE Bind(p)
  BY <1>6 DEF Bind
<1>7. CASE FillBinding(p)
  BY <1>7 DEF FillBinding
<1>8. CASE StageInputs(p)
  BY <1>8 DEF StageInputs
<1>9. CASE PublishManifest(p)
  BY <1>9 DEF PublishManifest
<1>10. CASE FillManifest(p)
  BY <1>10 DEF FillManifest
<1> QED
  BY <1>1, <1>2, <1>3, <1>4, <1>5, <1>6, <1>7, <1>8, <1>9, <1>10 DEF Plan

LEMMA PlanBinding ==
  ASSUME IInv, NEW p \in Planners, Plan(p), UNCHANGED role
  PROVE  BindingHeld'
<1> USE PlanFrame, Disjoint, Files DEF IInv, TypeOK, Goto, BindingHeld
<1>1. CASE BeginPlan(p)
  BY <1>1 DEF BeginPlan
<1>2. CASE LookForWork(p)
  BY <1>2 DEF LookForWork
<1>3. CASE MakeWork(p)
  BY <1>3 DEF MakeWork
<1>4. CASE Propose(p)
  BY <1>4 DEF Propose
<1>5. CASE FillProposal(p)
  BY <1>5 DEF FillProposal
<1>6. CASE Bind(p)
  BY <1>6 DEF Bind, Begun
<1>7. CASE FillBinding(p)
  BY <1>7 DEF FillBinding, Begun
<1>8. CASE StageInputs(p)
  BY <1>8 DEF StageInputs
<1>9. CASE PublishManifest(p)
  BY <1>9 DEF PublishManifest
<1>10. CASE FillManifest(p)
  BY <1>10 DEF FillManifest
<1> QED
  BY <1>1, <1>2, <1>3, <1>4, <1>5, <1>6, <1>7, <1>8, <1>9, <1>10 DEF Plan

(* A loader takes the only plan there is: the one taken before. *)
LEMMA LoadStep ==
  ASSUME IInv, NEW l \in Loaders, Load(l), UNCHANGED role
  PROVE  /\ PreparedWhole' /\ Preparing' /\ Begun' /\ ProposalHeld' /\ BindingHeld'
         /\ LoadedStays' /\ SameInvocation'
<1>1. PICK q \in Planners :
        /\ Planned = {q} /\ manifest[q] = "whole"
        /\ loaded' = [loaded EXCEPT ![l] = q]
  BY DEF Load
<1>2. UNCHANGED <<staging, run, work, proposal, binding, manifest>>
  BY DEF Load
<1>3. \A p \in Preparers \cup Planners : pc'[p] = pc[p]
  BY Disjoint DEF Load, Goto, IInv, TypeOK
<1>4. \A k \in Loaders : loaded[k] # "none" => loaded[k] = q
  BY <1>1 DEF IInv, TypeOK, LoadedStays, Planned
<1>5. \A k \in Loaders : loaded'[k] # "none" => loaded'[k] = q
  BY <1>1, <1>4 DEF IInv, TypeOK
<1>6. LoadedStays' /\ SameInvocation'
  BY <1>1, <1>2, <1>5 DEF LoadedStays, SameInvocation
<1> QED
  BY <1>2, <1>3, <1>6
     DEF IInv, PreparedWhole, Preparing, Begun, ProposalHeld, BindingHeld

(* A command begins again only where it has left nothing behind. *)
LEMMA RestartStep ==
  ASSUME IInv, NEW p \in Procs, Again(p) \/ Crash(p), UNCHANGED role
  PROVE  /\ PreparedWhole' /\ Preparing' /\ Begun' /\ ProposalHeld' /\ BindingHeld'
         /\ LoadedStays' /\ SameInvocation'
<1>1. UNCHANGED <<staging, run, work, proposal, binding, manifest, loaded>>
  BY DEF Again, Crash
<1>2. /\ \A q \in Procs : q # p => pc'[q] = pc[q]
      /\ \/ pc'[p] = "crashed"
         \/ /\ pc'[p] = "idle"
            /\ p \in Planners => p \notin work
            /\ p \in Preparers => staging[p] = "absent"
  BY DEF Again, Crash, Goto, IInv, TypeOK
<1>3. PreparedWhole' /\ LoadedStays' /\ SameInvocation'
  BY <1>1 DEF IInv, PreparedWhole, LoadedStays, SameInvocation
<1>4. Preparing'
  BY <1>1, <1>2, Disjoint DEF IInv, PreparedWhole, Preparing
<1>5. Begun'
  BY <1>1, <1>2, Disjoint DEF IInv, Begun
<1>6. ProposalHeld'
  BY <1>1, <1>2, Disjoint DEF IInv, ProposalHeld
<1>7. BindingHeld'
  BY <1>1, <1>2, Disjoint DEF IInv, BindingHeld
<1> QED
  BY <1>3, <1>4, <1>5, <1>6, <1>7

LEMMA NextIInv == IInv /\ [Next]_vars => IInv'
<1> SUFFICES ASSUME IInv, [Next]_vars PROVE IInv'
  OBVIOUS
<1>1. TypeOK'
  BY NextTypeOK DEF IInv
<1>2. ASSUME NEW p \in Preparers, Prepare(p), UNCHANGED role PROVE IInv'
  BY <1>1, <1>2, PrepareStep DEF IInv
<1>3. ASSUME NEW p \in Planners, Plan(p), UNCHANGED role PROVE IInv'
  <2>1. PreparedWhole' /\ Preparing' /\ Begun'
    BY <1>3, PlanKeepsCycle, PlanBegun
  <2>2. ProposalHeld' /\ BindingHeld'
    BY <1>3, PlanProposal, PlanBinding
  <2>3. LoadedStays' /\ SameInvocation'
    BY <1>3, PlanKeepsLoaded
  <2> QED
    BY <1>1, <2>1, <2>2, <2>3 DEF IInv
<1>4. ASSUME NEW l \in Loaders, Load(l), UNCHANGED role PROVE IInv'
  BY <1>1, <1>4, LoadStep DEF IInv
<1>5. ASSUME NEW p \in Procs, Again(p) \/ Crash(p), UNCHANGED role PROVE IInv'
  BY <1>1, <1>5, RestartStep DEF IInv
<1>6. CASE UNCHANGED vars
  BY <1>1, <1>6 DEF vars, IInv, PreparedWhole, Preparing, Begun, ProposalHeld,
     BindingHeld, LoadedStays, SameInvocation
<1> QED
  BY <1>2, <1>3, <1>4, <1>5, <1>6 DEF Next

LEMMA Invariance == Spec => []IInv
<1> QED
  BY InitIInv, NextIInv, PTL DEF Spec

(***************************************************************************)
(* Theorems.                                                               *)
(***************************************************************************)

(* All of the cycle's files and commands are of their kind. *)
THEOREM TypeCorrect == Spec => []TypeOK
<1>1. IInv => TypeOK
  BY DEF IInv
<1> QED
  BY <1>1, Invariance, PTL

(* A cycle's directory is only ever seen complete, whichever preparers race *)
(* for it, die in it or try again (prepare_run).                            *)
THEOREM CycleWhole == Spec => []PreparedWhole
<1>1. IInv => PreparedWhole
  BY DEF IInv
<1> QED
  BY <1>1, Invariance, PTL

(* All commands of a cycle that load a plan load the same one              *)
(* (load_invocation_plan), and it stays on disk.                           *)
THEOREM OneInvocation == Spec => [](SameInvocation /\ LoadedStays)
<1>1. IInv => SameInvocation /\ LoadedStays
  BY DEF IInv
<1> QED
  BY <1>1, Invariance, PTL

(* A visible Builder plan is bound to the proposal and the binding on disk, *)
(* which its own planner wrote (prepare_invocation).                        *)
THEOREM PlanBound == Spec => []PlanOwnsProposal
<1>1. IInv => PlanOwnsProposal
  BY DEF IInv, ProposalHeld, BindingHeld, PlanOwnsProposal, Planned
<1> QED
  BY <1>1, Invariance, PTL

(***************************************************************************)
(* The files of a plan implement ExclusiveFile.                            *)
(***************************************************************************)
DocumentPcs == {"proposing", "binding"}

(* Who is at work on neither document leaves both as they are.             *)
LEMMA DocumentsAlone ==
  ASSUME IInv, UNCHANGED <<proposal, binding>>, NEW p \in Procs,
         \A q \in Procs : q # p => pc'[q] = pc[q],
         p \in Planners => pc[p] \notin DocumentPcs /\ pc'[p] \notin DocumentPcs
  PROVE  UNCHANGED Bound!fileVars
<1>1. \A q \in Planners : \A l \in DocumentPcs : pc'[q] = l <=> pc[q] = l
  BY Disjoint
<1> QED
  BY <1>1 DEF DocumentPcs, Document, Bound!fileVars

LEMMA BoundSteps == IInv /\ [Next]_vars => [Bound!FileNext]_(Bound!fileVars)
<1> SUFFICES ASSUME IInv, Next PROVE [Bound!FileNext]_(Bound!fileVars)
  BY DEF vars, Bound!fileVars, Document
<1> USE DEF Goto
<1>1. ASSUME NEW p \in Preparers, Prepare(p) PROVE UNCHANGED Bound!fileVars
  <2>1. /\ p \in Procs /\ p \notin Planners /\ UNCHANGED <<proposal, binding>>
        /\ \A q \in Procs : q # p => pc'[q] = pc[q]
    BY <1>1, Disjoint
       DEF IInv, TypeOK, Procs, Prepare, BeginPrepare, MakeTemporary, FillTemporary,
       Rename, Cleanup
  <2> QED
    BY <2>1, DocumentsAlone
<1>2. ASSUME NEW l \in Loaders, Load(l) PROVE UNCHANGED Bound!fileVars
  <2>1. /\ l \in Procs /\ l \notin Planners /\ UNCHANGED <<proposal, binding>>
        /\ \A q \in Procs : q # l => pc'[q] = pc[q]
    BY <1>2, Disjoint DEF IInv, TypeOK, Procs, Load
  <2> QED
    BY <2>1, DocumentsAlone
<1>3. ASSUME NEW p \in Procs, Again(p) \/ Crash(p)
      PROVE  [Bound!FileNext]_(Bound!fileVars)
  <2>1. /\ UNCHANGED <<proposal, binding>> /\ pc'[p] \notin DocumentPcs
        /\ \A q \in Procs : q # p => pc'[q] = pc[q]
    BY <1>3 DEF IInv, TypeOK, Again, Crash, DocumentPcs
  <2>2. CASE p \in Planners /\ pc[p] = "proposing"
    <3>1. Bound!Die(p, "proposal")
      BY <2>1, <2>2, Disjoint DEF Bound!Die, Document, DocumentPcs
    <3> QED
      BY <2>2, <3>1 DEF Bound!FileNext
  <2>3. CASE p \in Planners /\ pc[p] = "binding"
    <3>1. Bound!Die(p, "binding")
      BY <2>1, <2>3, Disjoint DEF Bound!Die, Document, DocumentPcs
    <3> QED
      BY <2>3, <3>1 DEF Bound!FileNext
  <2>4. CASE p \in Planners => pc[p] \notin DocumentPcs
    BY <2>1, <2>4, DocumentsAlone
  <2> QED
    BY <2>2, <2>3, <2>4 DEF DocumentPcs
<1>4. ASSUME NEW p \in Planners, Plan(p) PROVE [Bound!FileNext]_(Bound!fileVars)
  <2>0. p \in Procs /\ \A q \in Planners : q # p => pc'[q] = pc[q]
    BY <1>4, PlanFrame, Disjoint
  <2> USE Disjoint DEF IInv, TypeOK
  <2>1. CASE \/ BeginPlan(p) \/ LookForWork(p) \/ MakeWork(p) \/ StageInputs(p)
             \/ PublishManifest(p) \/ FillManifest(p)
    <3>1. /\ UNCHANGED <<proposal, binding>>
          /\ pc[p] \notin DocumentPcs /\ pc'[p] \notin DocumentPcs
      BY <2>0, <2>1
         DEF BeginPlan, LookForWork, MakeWork, StageInputs, PublishManifest,
         FillManifest, DocumentPcs
    <3> QED
      BY <1>4, <2>0, <3>1, PlanFrame, DocumentsAlone
  <2>2. CASE Propose(p)
    <3>1. CASE proposal = Nobody /\ proposal' = Torn(p) /\ pc'[p] = "proposing"
      <4>1. Bound!Create(p, "proposal")
        BY <2>0, <2>2, <3>1, Files DEF Propose, Document, Bound!Create
      <4> QED
        BY <4>1 DEF Bound!FileNext
    <3>2. CASE UNCHANGED proposal /\ pc'[p] = "failed"
      <4>1. pc[p] \notin DocumentPcs /\ pc'[p] \notin DocumentPcs /\ UNCHANGED binding
        BY <2>2, <3>2 DEF Propose, DocumentPcs
      <4> QED
        BY <1>4, <2>0, <3>2, <4>1, PlanFrame, DocumentsAlone
    <3> QED
      BY <2>0, <2>2, <3>1, <3>2 DEF Propose
  <2>3. CASE FillProposal(p)
    <3>0. /\ proposal = Torn(p) /\ pc[p] = "proposing" /\ UNCHANGED binding
          /\ pc'[p] \in {"bind", "failed"}
      BY <2>0, <2>3 DEF FillProposal, ProposalHeld
    <3>1. CASE proposal' = Whole(p)
      <4>1. Bound!Fill(p, "proposal", p)
        BY <2>0, <3>0, <3>1, Files DEF Document, Bound!Fill
      <4> QED
        BY <4>1 DEF Bound!FileNext
    <3>2. CASE proposal' = Nobody
      <4>1. Bound!Unlink(p, "proposal")
        BY <2>0, <3>0, <3>2, Files DEF Document, Bound!Unlink
      <4> QED
        BY <4>1 DEF Bound!FileNext
    <3> QED
      BY <2>3, <3>1, <3>2 DEF FillProposal
  <2>4. CASE Bind(p)
    <3>1. CASE binding = Nobody
      <4>1. Bound!Create(p, "binding")
        BY <2>0, <2>4, <3>1, Files DEF Bind, Document, Bound!Create
      <4> QED
        BY <4>1 DEF Bound!FileNext
    <3>2. CASE binding # Nobody
      <4>1. /\ pc[p] \notin DocumentPcs /\ pc'[p] \notin DocumentPcs
            /\ UNCHANGED <<proposal, binding>>
        BY <2>0, <2>4, <3>2 DEF Bind, DocumentPcs
      <4> QED
        BY <1>4, <2>0, <4>1, PlanFrame, DocumentsAlone
    <3> QED
      BY <3>1, <3>2
  <2>5. CASE FillBinding(p)
    <3>0. /\ binding = Torn(p) /\ pc[p] = "binding" /\ UNCHANGED proposal
          /\ pc'[p] \in {"stage", "failed"}
      BY <2>0, <2>5 DEF FillBinding, BindingHeld
    <3>1. CASE binding' = Whole(p)
      <4>1. Bound!Fill(p, "binding", p)
        BY <2>0, <3>0, <3>1, Files DEF Document, Bound!Fill
      <4> QED
        BY <4>1 DEF Bound!FileNext
    <3>2. CASE binding' = Nobody
      <4>1. Bound!Unlink(p, "binding")
        BY <2>0, <3>0, <3>2, Files DEF Document, Bound!Unlink
      <4> QED
        BY <4>1 DEF Bound!FileNext
    <3> QED
      BY <2>5, <3>1, <3>2 DEF FillBinding
  <2> QED
    BY <1>4, <2>1, <2>2, <2>3, <2>4, <2>5 DEF Plan
<1> QED
  BY <1>1, <1>2, <1>3, <1>4 DEF Next

(* Who is not publishing leaves every manifest as it is.                   *)
LEMMA ManifestsAlone ==
  ASSUME IInv, UNCHANGED manifest, NEW p \in Procs,
         \A q \in Procs : q # p => pc'[q] = pc[q],
         p \in Planners => pc[p] # "publishing" /\ pc'[p] # "publishing"
  PROVE  UNCHANGED Visible!fileVars
<1>1. \A q \in Planners : pc'[q] = "publishing" <=> pc[q] = "publishing"
  BY Disjoint
<1> QED
  BY <1>1 DEF Planned, Visible!fileVars

LEMMA VisibleSteps == IInv /\ [Next]_vars => [Visible!FileNext]_(Visible!fileVars)
<1> SUFFICES ASSUME IInv, Next PROVE [Visible!FileNext]_(Visible!fileVars)
  BY DEF vars, Visible!fileVars, Planned
<1> USE DEF Goto
<1>1. ASSUME NEW p \in Procs,
             \/ p \in Preparers /\ Prepare(p)
             \/ p \in Loaders /\ Load(p)
      PROVE  UNCHANGED Visible!fileVars
  <2>1. p \notin Planners /\ UNCHANGED manifest /\ \A q \in Procs : q # p => pc'[q] = pc[q]
    BY <1>1, Disjoint
       DEF IInv, TypeOK, Procs, Prepare, BeginPrepare, MakeTemporary, FillTemporary,
       Rename, Cleanup, Load
  <2> QED
    BY <2>1, ManifestsAlone
<1>2. ASSUME NEW p \in Procs, Again(p) \/ Crash(p)
      PROVE  [Visible!FileNext]_(Visible!fileVars)
  <2>1. /\ UNCHANGED manifest /\ pc'[p] # "publishing"
        /\ \A q \in Procs : q # p => pc'[q] = pc[q]
    BY <1>2 DEF IInv, TypeOK, Again, Crash
  <2>2. CASE p \in Planners /\ pc[p] = "publishing"
    <3>1. Visible!Die(p, p)
      BY <2>1, <2>2, Disjoint DEF Visible!Die, Planned
    <3> QED
      BY <2>2, <3>1 DEF Visible!FileNext
  <2> QED
    BY <2>1, <2>2, ManifestsAlone
<1>3. ASSUME NEW p \in Planners, Plan(p) PROVE [Visible!FileNext]_(Visible!fileVars)
  <2>0. p \in Procs /\ \A q \in Planners : q # p => pc'[q] = pc[q]
    BY <1>3, PlanFrame, Disjoint
  <2> USE Disjoint DEF IInv, TypeOK
  <2>1. CASE \/ BeginPlan(p) \/ LookForWork(p) \/ MakeWork(p) \/ Propose(p)
             \/ FillProposal(p) \/ Bind(p) \/ FillBinding(p) \/ StageInputs(p)
    <3>1. UNCHANGED manifest /\ pc[p] # "publishing" /\ pc'[p] # "publishing"
      BY <2>0, <2>1
         DEF BeginPlan, LookForWork, MakeWork, Propose, FillProposal, Bind,
         FillBinding, StageInputs
    <3> QED
      BY <1>3, <2>0, <3>1, PlanFrame, ManifestsAlone
  <2>2. CASE PublishManifest(p)
    <3>1. Visible!Create(p, p)
      BY <2>0, <2>2 DEF PublishManifest, Begun, Planned, Visible!Create
    <3> QED
      BY <3>1 DEF Visible!FileNext
  <2>3. CASE FillManifest(p)
    <3>0. manifest[p] = "torn" /\ pc[p] = "publishing" /\ pc'[p] \in {"done", "failed"}
      BY <2>0, <2>3 DEF FillManifest, Begun
    <3>1. CASE manifest' = [manifest EXCEPT ![p] = "whole"]
      <4>1. Visible!Fill(p, p, "whole")
        BY <2>0, <3>0, <3>1 DEF Planned, Visible!Fill
      <4> QED
        BY <4>1 DEF Visible!FileNext
    <3>2. CASE manifest' = [manifest EXCEPT ![p] = "absent"]
      <4>1. Visible!Unlink(p, p)
        BY <2>0, <3>0, <3>2 DEF Planned, Visible!Unlink
      <4> QED
        BY <4>1 DEF Visible!FileNext
    <3> QED
      BY <2>3, <3>1, <3>2 DEF FillManifest
  <2> QED
    BY <1>3, <2>1, <2>2, <2>3 DEF Plan
<1> QED
  BY <1>1, <1>2, <1>3, Disjoint DEF Next, Procs

(* Proposal, binding and runtime manifests are exclusive files: whatever   *)
(* planners overlap and die, they are created, filled and left as          *)
(* ExclusiveFile allows it.                                                *)
THEOREM PlanFilesImplemented == Spec => WritesOnce
<1>1. Init => Bound!FileInit /\ Visible!FileInit
  BY Files, Disjoint DEF Init, Document, Planned, Procs, Bound!FileInit, Visible!FileInit
<1> QED
  BY <1>1, BoundSteps, VisibleSteps, Invariance, PTL
     DEF Spec, WritesOnce, Bound!FileSpec, Visible!FileSpec
=============================================================================
