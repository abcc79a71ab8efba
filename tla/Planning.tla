------------------------------ MODULE Planning ------------------------------
(***************************************************************************)
(* How a cycle comes to a planned invocation of one role: prepare_run of   *)
(* layout.py, and prepare_invocation and load_invocation_plan of           *)
(* sandbox.py.  None of them takes a lock; what orders them is a rename,   *)
(* exclusive files and one look into the role's work directory.            *)
(***************************************************************************)
EXTENDS Naturals, FiniteSets

CONSTANTS
  Preparers,     \* runs of prepare for this cycle identifier
  Planners,      \* runs of plan for this role; each has its own proposal
  Loaders,       \* runs of execute-plan, adopt-plan-output and the like
  MaxFaults      \* bound: crashes and failing system calls

ASSUME PlanningAssumption ==
  /\ MaxFaults \in Nat
  /\ "none" \notin Preparers \cup Planners
  /\ Preparers \cap Planners = {} /\ Preparers \cap Loaders = {}
  /\ Planners \cap Loaders = {}

Procs == Preparers \cup Planners \cup Loaders

VARIABLES
  role,          \* the role that is planned; the two roles share no state
  pc,
  staging,       \* of each preparer: the directory it makes, also once renamed
  run,           \* the preparer whose directory became the cycle's
  work,          \* planners whose work_root exists
  proposal,      \* who wrote approved_algorithm_proposal.json, and is it whole
  binding,       \* the same of builder_binding.json
  manifest,      \* of each planner: its file in request/invocations
  loaded,        \* of each loader: the planner whose invocation it got
  faults

vars == <<role, pc, staging, run, work, proposal, binding, manifest, loaded,
          faults>>

Ended == {"done", "failed", "crashed"}
Active == {"mktemp", "fill", "rename", "cleanup", "look", "mkdir",
           "propose", "proposing", "bind", "binding", "stage",
           "publish", "publishing"}

Goto(p, label) == pc' = [pc EXCEPT ![p] = label]
Fault == faults < MaxFaults /\ faults' = faults + 1

Nobody == <<"absent", "none">>
Torn(p)  == <<"torn", p>>
Whole(p) == <<"whole", p>>

Init ==
  /\ role \in {"commander", "builder"}
  /\ pc = [p \in Procs |-> "idle"]
  /\ staging = [p \in Preparers |-> "absent"]
  /\ run = "none"
  /\ work = {}
  /\ proposal = Nobody /\ binding = Nobody
  /\ manifest = [p \in Planners |-> "absent"]
  /\ loaded = [p \in Loaders |-> "none"]
  /\ faults = 0

(***************************************************************************)
(* prepare_run: everything is made in a temporary directory, which is then *)
(* renamed; an error removes it.                                           *)
(***************************************************************************)
BeginPrepare(p) ==
  /\ pc[p] = "idle"
  /\ Goto(p, IF run = "none" THEN "mktemp" ELSE "failed")
  /\ UNCHANGED <<staging, run, work, proposal, binding, manifest, loaded,
                 faults>>

MakeTemporary(p) ==
  /\ pc[p] = "mktemp"
  /\ staging' = [staging EXCEPT ![p] = "partial"]
  /\ Goto(p, "fill")
  /\ UNCHANGED <<run, work, proposal, binding, manifest, loaded, faults>>

(* Snapshot, validation of the request and all the files of the cycle. *)
FillTemporary(p) ==
  /\ pc[p] = "fill"
  /\ \/ staging' = [staging EXCEPT ![p] = "whole"] /\ Goto(p, "rename")
     \/ Goto(p, "cleanup") /\ UNCHANGED staging
  /\ UNCHANGED <<run, work, proposal, binding, manifest, loaded, faults>>

(* For a mutant: the cycle's directory appears before it is filled. *)
RenameEarly(p) ==
  /\ pc[p] \in {"fill", "rename"}
  /\ IF run = "none"
     THEN run' = p /\ Goto(p, "done")
     ELSE Goto(p, "cleanup") /\ UNCHANGED run
  /\ UNCHANGED <<staging, work, proposal, binding, manifest, loaded, faults>>

(* For a mutant: the name kept is the wrong one. *)
RenameMisnamed(p) ==
  /\ pc[p] = "rename"
  /\ IF run = "none"
     THEN run' = staging[p] /\ Goto(p, "done")
     ELSE Goto(p, "cleanup") /\ UNCHANGED run
  /\ UNCHANGED <<staging, work, proposal, binding, manifest, loaded, faults>>

(* A directory that is not empty cannot be replaced. *)
Rename(p) ==
  /\ pc[p] = "rename"
  /\ IF run = "none"
     THEN run' = p /\ Goto(p, "done")
     ELSE Goto(p, "cleanup") /\ UNCHANGED run
  /\ UNCHANGED <<staging, work, proposal, binding, manifest, loaded, faults>>

Cleanup(p) ==
  /\ pc[p] = "cleanup"
  /\ staging' = [staging EXCEPT ![p] = "absent"]
  /\ Goto(p, "failed")
  /\ UNCHANGED <<run, work, proposal, binding, manifest, loaded, faults>>

(***************************************************************************)
(* prepare_invocation.                                                     *)
(***************************************************************************)
BeginPlan(p) ==
  /\ pc[p] = "idle"
  /\ run # "none"
  /\ Goto(p, "look")
  /\ UNCHANGED <<staging, run, work, proposal, binding, manifest, loaded,
                 faults>>

(* "invocation already exists for this cycle". *)
LookForWork(p) ==
  /\ pc[p] = "look"
  /\ Goto(p, IF work = {} THEN "mkdir" ELSE "failed")
  /\ UNCHANGED <<staging, run, work, proposal, binding, manifest, loaded,
                 faults>>

(* The directory has the new invocation's own name. *)
MakeWork(p) ==
  /\ pc[p] = "mkdir"
  /\ work' = work \cup {p}
  /\ Goto(p, IF role = "builder" THEN "propose" ELSE "stage")
  /\ UNCHANGED <<staging, run, proposal, binding, manifest, loaded, faults>>

(* For a mutant: a proposal that is there already is taken for one's own. *)
ProposeOver(p) ==
  /\ pc[p] = "propose"
  /\ IF proposal = Nobody
     THEN proposal' = Torn(p) /\ Goto(p, "proposing")
     ELSE Goto(p, "bind") /\ UNCHANGED proposal
  /\ UNCHANGED <<staging, run, work, binding, manifest, loaded, faults>>

(* The exclusive write of the approved proposal, after it was validated. *)
Propose(p) ==
  /\ pc[p] = "propose"
  /\ \/ Goto(p, "failed") /\ UNCHANGED proposal
     \/ proposal = Nobody /\ proposal' = Torn(p) /\ Goto(p, "proposing")
  /\ UNCHANGED <<staging, run, work, binding, manifest, loaded, faults>>

FillProposal(p) ==
  /\ pc[p] = "proposing"
  /\ \/ proposal' = Whole(p) /\ Goto(p, "bind") /\ UNCHANGED faults
     \/ Fault /\ proposal' = Nobody /\ Goto(p, "failed")
  /\ UNCHANGED <<staging, run, work, binding, manifest, loaded>>

(* The exclusive write of the binding document. *)
Bind(p) ==
  /\ pc[p] = "bind"
  /\ IF binding = Nobody
     THEN binding' = Torn(p) /\ Goto(p, "binding")
     ELSE Goto(p, "failed") /\ UNCHANGED binding
  /\ UNCHANGED <<staging, run, work, proposal, manifest, loaded, faults>>

FillBinding(p) ==
  /\ pc[p] = "binding"
  /\ \/ binding' = Whole(p) /\ Goto(p, "stage") /\ UNCHANGED faults
     \/ Fault /\ binding' = Nobody /\ Goto(p, "failed")
  /\ UNCHANGED <<staging, run, work, proposal, manifest, loaded>>

(* Sanitized request, snapshot, inputs and the invocation's own plan file. *)
StageInputs(p) ==
  /\ pc[p] = "stage"
  /\ \/ Goto(p, "publish") /\ UNCHANGED faults
     \/ Fault /\ Goto(p, "failed")
  /\ UNCHANGED <<staging, run, work, proposal, binding, manifest, loaded>>

(* The runtime manifest makes the plan visible to other commands. *)
PublishManifest(p) ==
  /\ pc[p] = "publish"
  /\ manifest' = [manifest EXCEPT ![p] = "torn"]
  /\ Goto(p, "publishing")
  /\ UNCHANGED <<staging, run, work, proposal, binding, loaded, faults>>

FillManifest(p) ==
  /\ pc[p] = "publishing"
  /\ \/ /\ manifest' = [manifest EXCEPT ![p] = "whole"]
        /\ Goto(p, "done")
        /\ UNCHANGED faults
     \/ /\ Fault
        /\ manifest' = [manifest EXCEPT ![p] = "absent"]
        /\ Goto(p, "failed")
  /\ UNCHANGED <<staging, run, work, proposal, binding, loaded>>

(***************************************************************************)
(* load_invocation_plan.                                                   *)
(***************************************************************************)
Planned == {p \in Planners : manifest[p] # "absent"}

(* For a mutant: the first of several plans is taken. *)
LoadFirst(p) ==
  /\ pc[p] = "idle"
  /\ \E q \in Planned :
       /\ manifest[q] = "whole"
       /\ loaded' = [loaded EXCEPT ![p] = q]
  /\ Goto(p, "done")
  /\ UNCHANGED <<staging, run, work, proposal, binding, manifest, faults>>

(* There must be exactly one plan, and for the Builder the binding files   *)
(* must be whole and be what it was planned with.                          *)
Load(p) ==
  /\ pc[p] = "idle"
  /\ \E q \in Planners :
       /\ Planned = {q} /\ manifest[q] = "whole"
       /\ role = "builder" => proposal = Whole(q) /\ binding = Whole(q)
       /\ loaded' = [loaded EXCEPT ![p] = q]
  /\ Goto(p, "done")
  /\ UNCHANGED <<staging, run, work, proposal, binding, manifest, faults>>

(* A command is given again; an earlier load is not forgotten. *)
Again(p) ==
  /\ pc[p] \in Ended /\ (p \in Loaders => loaded[p] = "none")
  /\ p \in Planners => p \notin work
  /\ p \in Preparers => staging[p] = "absent"
  /\ Goto(p, "idle")
  /\ UNCHANGED <<staging, run, work, proposal, binding, manifest, loaded,
                 faults>>

Crash(p) ==
  /\ pc[p] \in Active
  /\ Fault
  /\ Goto(p, "crashed")
  /\ UNCHANGED <<staging, run, work, proposal, binding, manifest, loaded>>

Prepare(p) ==
  \/ BeginPrepare(p) \/ MakeTemporary(p) \/ FillTemporary(p) \/ Rename(p)
  \/ Cleanup(p)
Plan(p) ==
  \/ BeginPlan(p) \/ LookForWork(p) \/ MakeWork(p) \/ Propose(p)
  \/ FillProposal(p) \/ Bind(p) \/ FillBinding(p) \/ StageInputs(p)
  \/ PublishManifest(p) \/ FillManifest(p)

Next ==
  /\ \/ \E p \in Preparers : Prepare(p)
     \/ \E p \in Planners : Plan(p)
     \/ \E p \in Loaders : Load(p)
     \/ \E p \in Procs : Again(p) \/ Crash(p)
  /\ UNCHANGED role

Spec == Init /\ [][Next]_vars

-----------------------------------------------------------------------------
Documents == {Nobody} \cup ({"torn", "whole"} \X Planners)

TypeOK ==
  /\ role \in {"commander", "builder"}
  /\ pc \in [Procs -> {"idle"} \cup Active \cup Ended]
  /\ staging \in [Preparers -> {"absent", "partial", "whole"}]
  /\ run \in Preparers \cup {"none"}
  /\ work \in SUBSET Planners
  /\ proposal \in Documents /\ binding \in Documents
  /\ manifest \in [Planners -> {"absent", "torn", "whole"}]
  /\ loaded \in [Loaders -> Planners \cup {"none"}]
  /\ faults \in 0 .. MaxFaults

(* A cycle's directory is only ever seen complete: a second prepare of the *)
(* same identifier, or one that dies, leaves no partial cycle in its place *)
(* ("a cycle ID is immutable").                                            *)
PreparedWhole == run # "none" => staging[run] = "whole"

(* Whatever planners race and wherever they die, all commands of a cycle   *)
(* that get a plan get the same one.                                       *)
SameInvocation ==
  \A p, q \in Loaders :
    loaded[p] # "none" /\ loaded[q] # "none" => loaded[p] = loaded[q]

(* A Builder plan that becomes visible is bound to the proposal and the    *)
(* binding on disk, which are its own: a planner that lost the race for    *)
(* the proposal never comes to a plan.                                     *)
PlanOwnsProposal ==
  role = "builder" =>
    \A p \in Planned : proposal = Whole(p) /\ binding = Whole(p)

(* The files a plan is bound to, and the plan itself, are written as io.py *)
(* promises: no planner replaces or completes what another one began.      *)
Document(n) == IF n = "proposal" THEN proposal ELSE binding

Bound == INSTANCE ExclusiveFile WITH
  Writers <- Planners, Names <- {"proposal", "binding"}, Values <- Planners,
  made <- {n \in {"proposal", "binding"} : Document(n) # Nobody},
  kept <- {x \in {"proposal", "binding"} \X Planners :
             Document(x[1]) = Whole(x[2])},
  filling <- {x \in Planners \X {"proposal", "binding"} :
                pc[x[1]] = IF x[2] = "proposal" THEN "proposing" ELSE "binding"}

Visible == INSTANCE ExclusiveFile WITH
  Writers <- Planners, Names <- Planners, Values <- {"whole"},
  made <- Planned,
  kept <- {x \in Planners \X {"whole"} : manifest[x[1]] = x[2]},
  filling <- {x \in Planners \X Planners :
                pc[x[1]] = "publishing" /\ x[1] = x[2]}

WritesOnce == Bound!FileSpec /\ Visible!FileSpec
=============================================================================
