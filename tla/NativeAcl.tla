----------------------------- MODULE NativeAcl ------------------------------
(***************************************************************************)
(* The native Windows ACL protocol of sandbox.py around one invocation:    *)
(* stage_native_invocation_acl, revoke_native_invocation_acl, the private  *)
(* runtime directory and the read-jail probe, as they are called by        *)
(* execute_invocation and adopt_invocation_output.                         *)
(*                                                                         *)
(* Each process is one run of the command line program; several may run at *)
(* once on the same invocation.  A step is one system call or one icacls   *)
(* command, so a crash, a failing command or another process can come      *)
(* between any two.  Access rights are the explicit entries of a DACL:     *)
(* "base" for what the path had before, "host" and "sandbox" for the two   *)
(* principals the code grants to.                                          *)
(***************************************************************************)
EXTENDS Naturals, FiniteSets

CONSTANTS
  Procs,      \* runs of execute-plan or adopt-plan-output
  MaxEpoch,   \* the last epoch whose event names can be read back (9999)
  Outer,      \* run_root, run_root/work, role_root: above the snapshot
  Candidate,  \* {candidate_worktree} for the Builder, {} for the Commander
  Scratch,    \* entries the sandbox child may create under a writable path
  MaxFaults,  \* bound: crashes and failing system calls in one behaviour
  Overlap     \* whether two runs of execute-plan may overlap up to the launch

Tree == {"work_root", ".runtime", "tmp", ".research", "probe"}
          \cup Candidate \cup Scratch

ASSUME PathsAssumption ==
  /\ MaxEpoch \in Nat \ {0}
  /\ MaxFaults \in Nat
  /\ Overlap \in BOOLEAN
  /\ Outer \cap Tree = {}
  /\ (Candidate \cup Scratch) \cap
       {"work_root", ".runtime", "tmp", ".research", "probe"} = {}
  /\ Candidate \cap Scratch = {}

Path     == Outer \cup Tree
Epochs   == 1 .. MaxEpoch + 1
Traverse == Outer \cup {"work_root", ".runtime"}
Writable == {"tmp"} \cup Candidate

(* The directories _native_acl_scopes insists on. *)
Scope == {"work_root", ".runtime", ".research"} \cup Writable

Principal == {"base", "host", "sandbox"}

(* A file written with write_json_exclusive: a crash between the exclusive *)
(* open and the fsync leaves it there with a torn body.                    *)
File == {"absent", "torn", "whole"}

VARIABLES
  pc,         \* where each process is
  epoch,      \* the epoch a process stages or revokes
  todo,       \* paths its current group of commands still has to handle
  exists,     \* entries below work_root
  acl,        \* explicit entries of each path's DACL
  dirs,       \* epoch directories under %LOCALAPPDATA%, outside the run
  baseline,   \* icacls /save file of each epoch
  verified,   \* icacls /save file of each epoch's revocation
  planned, staged, revoked,    \* the event files of each epoch
  report,     \* native-read-jail-preflight.json
  started,    \* execution-started.json
  child,      \* the Codex child process
  faults      \* crashes and failing system calls so far

procVars   == <<pc, epoch, todo>>
treeVars   == <<exists, acl>>
ledgerVars == <<dirs, baseline, verified, planned, staged, revoked>>
runVars    == <<report, started, child, faults>>
vars       == <<procVars, treeVars, ledgerVars, runVars>>

Ended == {"done", "failed", "crashed"}

StagePcs  == {"runtime", "quarantine", "mkruntime", "fillruntime",
              "preflight", "ledger", "mkepoch", "baseline", "plan",
              "traverse", "research", "host", "modify", "staged"}
JailPcs   == {"recheck", "jail", "probing", "report"}
RevokePcs == {"revoke", "regrant", "reset", "restore", "remove", "unlink",
              "verify", "revoked"}
Pcs == {"idle", "mark", "launch", "wait"}
         \cup StagePcs \cup JailPcs \cup RevokePcs \cup Ended

Goto(p, label) == pc' = [pc EXCEPT ![p] = label]

-----------------------------------------------------------------------------
(* The event history, as _native_acl_epochs and _native_acl_epoch_state    *)
(* read it: by the presence of the files only.                             *)

Recorded(e) ==
  planned[e] # "absent" \/ staged[e] # "absent" \/ revoked[e] # "absent"
Open(e)     == planned[e] # "absent" /\ revoked[e] = "absent"
Active(e)   == staged[e] # "absent" /\ revoked[e] = "absent"
Malformed(e) == /\ Recorded(e)
                /\ \/ planned[e] = "absent"
                   \/ revoked[e] # "absent" /\ staged[e] = "absent"

ActiveEpochs == {e \in Epochs : Active(e)}
LastRecorded == IF \E e \in Epochs : Recorded(e)
                  THEN CHOOSE e \in Epochs :
                         Recorded(e) /\ \A f \in Epochs : Recorded(f) => f <= e
                  ELSE 0

(* Mutant: names with more digits are read back as well.                   *)
ReadableAnyway == FALSE

(* The event names are written with at least four digits and read back     *)
(* with exactly four: the events of the epoch after the last such number   *)
(* make every later reading of the history raise.                          *)
Unreadable == Recorded(MaxEpoch + 1)

(* Mutant: an epoch that was only planned counts for nothing.              *)
StageAllowedOverPlanned == /\ Scope \subseteq exists
                           /\ ~Unreadable
                           /\ \A e \in Epochs : ~Active(e)

StageAllowed == /\ Scope \subseteq exists
                /\ ~Unreadable
                /\ \A e \in Epochs : ~Open(e) /\ ~Malformed(e)

(* What icacls /save records: every entry of the tree with its DACL. *)
Unsaved  == [path \in {} |-> {}]
Snapshot == [path \in exists |-> acl[path]]

(* _new_acl_entries_are_inherited_only: same DACL where the baseline has   *)
(* the path, no explicit entry where it does not.                          *)
InheritedOnly(before, after) ==
  \A path \in DOMAIN after :
    after[path] = IF path \in DOMAIN before THEN before[path] ELSE {}

-----------------------------------------------------------------------------
Init ==
  /\ pc = [p \in Procs |-> "idle"]
  /\ epoch = [p \in Procs |-> 0]
  /\ todo = [p \in Procs |-> {}]
  /\ exists = {"work_root", ".research"} \cup Candidate
  /\ acl = [path \in Path |->
              IF path \in Outer \cup exists THEN {"base"} ELSE {}]
  /\ dirs = {}
  /\ baseline = [e \in Epochs |-> Unsaved]
  /\ verified = [e \in Epochs |-> "absent"]
  /\ planned = [e \in Epochs |-> "absent"]
  /\ staged = [e \in Epochs |-> "absent"]
  /\ revoked = [e \in Epochs |-> "absent"]
  /\ report = "absent"
  /\ started = "absent"
  /\ child = "none"
  /\ faults = 0

(***************************************************************************)
(* execute_invocation up to the staging: the start marker is looked at,    *)
(* then native_invocation_environment moves a complete private runtime of  *)
(* an earlier attempt away and creates a fresh one, and the report of an   *)
(* earlier jail check goes the same way.                                   *)
(***************************************************************************)

Launching(p) ==
  pc[p] \in StagePcs \cup JailPcs \cup {"mark", "launch", "wait"}

Execute(p) ==
  /\ pc[p] = "idle"
  /\ Overlap \/ \A q \in Procs : ~Launching(q)
  /\ started = "absent"
  /\ Goto(p, "runtime")
  /\ UNCHANGED <<epoch, todo, treeVars, ledgerVars, runVars>>

CheckRuntime(p) ==
  /\ pc[p] = "runtime"
  /\ started = "absent"
  /\ \/ ".runtime" \notin exists /\ Goto(p, "mkruntime")
     \/ {".runtime", "tmp"} \subseteq exists /\ Goto(p, "quarantine")
  /\ UNCHANGED <<epoch, todo, treeVars, ledgerVars, runVars>>

(* The rename takes whatever is there by now; the marker is looked at      *)
(* again only afterwards.                                                  *)
QuarantineRuntime(p) ==
  /\ pc[p] = "quarantine"
  /\ ".runtime" \in exists
  /\ exists' = exists \ {".runtime", "tmp"}
  /\ acl' = [acl EXCEPT ![".runtime"] = {}, !["tmp"] = {}]
  /\ Goto(p, IF started = "absent" THEN "mkruntime" ELSE "failed")
  /\ UNCHANGED <<epoch, todo, ledgerVars, runVars>>

MakeRuntime(p) ==
  /\ pc[p] = "mkruntime"
  /\ ".runtime" \notin exists
  /\ exists' = exists \cup {".runtime"}
  /\ Goto(p, "fillruntime")
  /\ UNCHANGED <<epoch, todo, acl, ledgerVars, runVars>>

FillRuntime(p) ==
  /\ pc[p] = "fillruntime"
  /\ ".runtime" \in exists
  /\ "tmp" \notin exists
  /\ exists' = exists \cup {"tmp"}
  /\ Goto(p, "preflight")
  /\ UNCHANGED <<epoch, todo, acl, ledgerVars, runVars>>

(* _quarantine_unstarted_native_preflight, its look and its rename as one: *)
(* a well-formed report of an invocation that has not started is moved.    *)
ReportGone == \/ report = "absent" /\ UNCHANGED report
              \/ report = "whole" /\ started = "absent" /\ report' = "absent"
ReportStays == report = "torn" \/ (report = "whole" /\ started # "absent")

QuarantineReport(p) ==
  /\ pc[p] = "preflight"
  /\ ReportGone
  /\ Goto(p, "ledger")
  /\ UNCHANGED <<epoch, todo, treeVars, ledgerVars, started, child, faults>>

(***************************************************************************)
(* stage_native_invocation_acl.                                            *)
(***************************************************************************)

(* Every recorded epoch must be closed; the next number is taken from what *)
(* was read, and only the exclusive mkdir settles who gets it.             *)
ReadLedger(p) ==
  /\ pc[p] = "ledger"
  /\ StageAllowed
  /\ epoch' = [epoch EXCEPT ![p] = LastRecorded + 1]
  /\ Goto(p, "mkepoch")
  /\ UNCHANGED <<todo, treeVars, ledgerVars, runVars>>

MakeEpoch(p) ==
  /\ pc[p] = "mkepoch"
  /\ epoch[p] \notin dirs
  /\ dirs' = dirs \cup {epoch[p]}
  /\ Goto(p, "baseline")
  /\ UNCHANGED <<epoch, todo, treeVars, baseline, verified, planned, staged,
                 revoked, runVars>>

SaveBaseline(p) ==
  /\ pc[p] = "baseline"
  /\ DOMAIN baseline[epoch[p]] = {}
  /\ baseline' = [baseline EXCEPT ![epoch[p]] = Snapshot]
  /\ Goto(p, "plan")
  /\ UNCHANGED <<epoch, todo, treeVars, dirs, verified, planned, staged,
                 revoked, runVars>>

WritePlan(p) ==
  /\ pc[p] = "plan"
  /\ planned[epoch[p]] = "absent"
  /\ planned' = [planned EXCEPT ![epoch[p]] = "whole"]
  /\ todo' = [todo EXCEPT ![p] = Traverse]
  /\ Goto(p, "traverse")
  /\ UNCHANGED <<epoch, treeVars, dirs, baseline, verified, staged, revoked,
                 runVars>>

(* The four groups of /grant commands, in their order. *)
GroupAfter(group) == CASE group = "traverse" -> "research"
                       [] group = "research" -> "host"
                       [] group = "host"     -> "modify"
                       [] group = "modify"   -> "staged"
GroupPaths(group) == CASE group = "research" -> {".research"}
                       [] group \in {"host", "modify"} -> Writable
                       [] group = "staged"   -> {}
Grantee(group) == IF group = "host" THEN "host" ELSE "sandbox"

Grant(p, path) ==
  /\ pc[p] \in {"traverse", "research", "host", "modify"}
  /\ path \in todo[p]
  /\ path \in Outer \cup exists
  /\ acl' = [acl EXCEPT ![path] = @ \cup {Grantee(pc[p])}]
  /\ IF todo[p] = {path}
       THEN /\ Goto(p, GroupAfter(pc[p]))
            /\ todo' = [todo EXCEPT ![p] = GroupPaths(GroupAfter(pc[p]))]
       ELSE /\ todo' = [todo EXCEPT ![p] = @ \ {path}]
            /\ UNCHANGED pc
  /\ UNCHANGED <<epoch, exists, ledgerVars, runVars>>

WriteStaged(p) ==
  /\ pc[p] = "staged"
  /\ staged[epoch[p]] = "absent"
  /\ staged' = [staged EXCEPT ![epoch[p]] = "whole"]
  /\ Goto(p, "recheck")
  /\ UNCHANGED <<epoch, todo, treeVars, dirs, baseline, verified, planned,
                 revoked, runVars>>

(***************************************************************************)
(* verify_native_read_jail and the launch, in execute_invocation.          *)
(***************************************************************************)

(* The same look at the report again; an error here is caught and revokes. *)
RecheckReport(p) ==
  /\ pc[p] = "recheck"
  /\ \/ ReportGone /\ Goto(p, "jail")
     \/ ReportStays /\ UNCHANGED report /\ Goto(p, "revoke")
  /\ UNCHANGED <<epoch, todo, treeVars, ledgerVars, started, child, faults>>

(* The probe directory is created exclusively and opened to the sandbox;   *)
(* one left behind by an earlier attempt makes the verification fail.      *)
OpenProbe(p) ==
  /\ pc[p] = "jail"
  /\ IF "probe" \in exists
       THEN /\ Goto(p, "revoke")
            /\ UNCHANGED treeVars
       ELSE /\ Goto(p, "probing")
            /\ exists' = exists \cup {"probe"}
            /\ acl' = [acl EXCEPT !["probe"] = {"host", "sandbox"}]
  /\ UNCHANGED <<epoch, todo, ledgerVars, runVars>>

(* The probe is removed, unless it stays locked through all six attempts.  *)
(* When the commands that open it to the sandbox fail, it simply stays.    *)
CloseProbe(p) ==
  /\ pc[p] = "probing"
  /\ \/ /\ exists' = exists \ {"probe"}
        /\ acl' = [acl EXCEPT !["probe"] = {}]
        /\ Goto(p, "report")
     \/ /\ \E next \in {"report", "revoke"} : Goto(p, next)
        /\ UNCHANGED treeVars
  /\ UNCHANGED <<epoch, todo, ledgerVars, runVars>>

(* The report is written exclusively, whatever it says; the invocation     *)
(* goes on only with a removed probe and a passed check.                   *)
WriteReport(p) ==
  /\ pc[p] = "report"
  /\ \/ /\ report = "absent" /\ report' = "whole"
        /\ \/ Goto(p, "revoke")
           \/ "probe" \notin exists /\ Goto(p, "mark")
     \/ UNCHANGED report /\ Goto(p, "revoke")
  /\ UNCHANGED <<epoch, todo, treeVars, ledgerVars, started, child, faults>>

MarkStarted(p) ==
  /\ pc[p] = "mark"
  /\ started = "absent"
  /\ started' = "whole"
  /\ Goto(p, "launch")
  /\ UNCHANGED <<epoch, todo, treeVars, ledgerVars, report, child, faults>>

(* The one Codex process, or an OSError instead of it. *)
Launch(p) ==
  /\ pc[p] = "launch"
  /\ \/ child' = "running" /\ Goto(p, "wait")
     \/ UNCHANGED child /\ Goto(p, "revoke")
  /\ UNCHANGED <<epoch, todo, treeVars, ledgerVars, report, started, faults>>

(* Mutant: the timeout leaves the child running. *)
CollectTimeout(p) ==
  /\ pc[p] = "wait"
  /\ Goto(p, "revoke")
  /\ UNCHANGED <<epoch, todo, treeVars, ledgerVars, runVars>>

(* The child ends by itself, or the timeout of subprocess.run kills it. *)
CollectExit(p) ==
  /\ pc[p] = "wait"
  /\ child' = "exited"
  /\ Goto(p, "revoke")
  /\ UNCHANGED <<epoch, todo, treeVars, ledgerVars, report, started, faults>>

(* A child whose host process is gone, or not looking yet. *)
ChildExits ==
  /\ child = "running"
  /\ child' = "exited"
  /\ UNCHANGED <<procVars, treeVars, ledgerVars, report, started, faults>>

(* The sandbox may create entries of its own under a writable path and set *)
(* their DACLs, and, with modify rights, remove what it may write.         *)
ChildCreates(path) ==
  /\ child = "running"
  /\ path \in Scratch \ exists
  /\ exists' = exists \cup {path}
  /\ acl' = [acl EXCEPT ![path] = {"sandbox"}]
  /\ UNCHANGED <<procVars, ledgerVars, runVars>>

ChildRemoves(path) ==
  /\ child = "running"
  /\ path \in Writable \cap exists
  /\ "sandbox" \in acl[path]
  /\ exists' = exists \ {path}
  /\ acl' = [acl EXCEPT ![path] = {}]
  /\ UNCHANGED <<procVars, ledgerVars, runVars>>

(***************************************************************************)
(* revoke_native_invocation_acl, called by the process that launched the   *)
(* child and by adopt_invocation_output.                                   *)
(***************************************************************************)

(* The operator passes --confirm-child-exited only having seen the exact   *)
(* child exit.  The process that launched it may still be at work, and so  *)
(* may another adoption.  (That adoption also wants no completion marker   *)
(* is left to module Invocation: without it more revocations overlap.)     *)
Adopt(p) ==
  /\ pc[p] = "idle"
  /\ started = "whole"
  /\ child = "exited"
  /\ Goto(p, "revoke")
  /\ UNCHANGED <<epoch, todo, treeVars, ledgerVars, runVars>>

RevokeAllowed ==
  /\ ~Unreadable
  /\ \A e \in Epochs : ~Malformed(e)
  /\ \A e \in ActiveEpochs :
       /\ \A f \in ActiveEpochs : f = e
       /\ planned[e] = "whole" /\ staged[e] = "whole"
  /\ ActiveEpochs # {} => Scope \ {"tmp"} \subseteq exists

(* Without an active epoch there is nothing to do. *)
BeginRevoke(p) ==
  /\ pc[p] = "revoke"
  /\ RevokeAllowed
  /\ IF ActiveEpochs = {}
       THEN /\ Goto(p, "done")
            /\ UNCHANGED <<epoch, todo>>
       ELSE /\ epoch' = [epoch EXCEPT ![p] = CHOOSE e \in Epochs : Active(e)]
            /\ todo' = [todo EXCEPT ![p] = Writable]
            /\ Goto(p, "regrant")
  /\ UNCHANGED <<treeVars, ledgerVars, runVars>>

(* The host takes full control and the ownership of each writable path     *)
(* that is still there.                                                    *)
Regrant(p, path) ==
  /\ pc[p] = "regrant"
  /\ path \in todo[p]
  /\ acl' = IF path \in exists
              THEN [acl EXCEPT ![path] = @ \cup {"host"}] ELSE acl
  /\ todo' = [todo EXCEPT ![p] = @ \ {path}]
  /\ Goto(p, IF todo[p] = {path} THEN "reset" ELSE "regrant")
  /\ UNCHANGED <<epoch, exists, ledgerVars, runVars>>

ResetTree(p) ==
  /\ pc[p] = "reset"
  /\ acl' = [path \in Path |-> IF path \in Tree THEN {} ELSE acl[path]]
  /\ Goto(p, "restore")
  /\ UNCHANGED <<epoch, todo, exists, ledgerVars, runVars>>

(* Mutant: the restored tree is taken for all there was to take back.      *)
RestoreBaselineOnly(p) ==
  /\ pc[p] = "restore"
  /\ LET saved == baseline[epoch[p]] IN
     acl' = [path \in Path |-> IF path \in exists \cap DOMAIN saved
                                 THEN saved[path] ELSE acl[path]]
  /\ todo' = [todo EXCEPT ![p] = {}]
  /\ Goto(p, "unlink")
  /\ UNCHANGED <<epoch, exists, ledgerVars, runVars>>

RestoreBaseline(p) ==
  /\ pc[p] = "restore"
  /\ LET saved == baseline[epoch[p]] IN
     acl' = [path \in Path |-> IF path \in exists \cap DOMAIN saved
                                 THEN saved[path] ELSE acl[path]]
  /\ todo' = [todo EXCEPT ![p] = Outer]
  /\ Goto(p, "remove")
  /\ UNCHANGED <<epoch, exists, ledgerVars, runVars>>

(* Above work_root there is no snapshot: only the sandbox entry is taken   *)
(* out again (/remove:g).                                                  *)
RemoveGrant(p, path) ==
  /\ pc[p] = "remove"
  /\ path \in todo[p]
  /\ acl' = [acl EXCEPT ![path] = @ \ {"sandbox"}]
  /\ todo' = [todo EXCEPT ![p] = @ \ {path}]
  /\ Goto(p, IF todo[p] = {path} THEN "unlink" ELSE "remove")
  /\ UNCHANGED <<epoch, exists, ledgerVars, runVars>>


(* The verification snapshot of an earlier, broken-off revocation is read  *)
(* and goes.  One that cannot be read stays, and so does the lease.        *)
DropVerification(p) ==
  /\ pc[p] = "unlink"
  /\ verified[epoch[p]] # "torn"
  /\ verified' = [verified EXCEPT ![epoch[p]] = "absent"]
  /\ Goto(p, "verify")
  /\ UNCHANGED <<epoch, todo, treeVars, dirs, baseline, planned, staged,
                 revoked, runVars>>

VerifyTree(p) ==
  /\ pc[p] = "verify"
  /\ verified[epoch[p]] = "absent"
  /\ verified' = [verified EXCEPT ![epoch[p]] = "whole"]
  /\ Goto(p, IF InheritedOnly(baseline[epoch[p]], Snapshot)
               THEN "revoked" ELSE "failed")
  /\ UNCHANGED <<epoch, todo, treeVars, dirs, baseline, planned, staged,
                 revoked, runVars>>

WriteRevoked(p) ==
  /\ pc[p] = "revoked"
  /\ revoked[epoch[p]] = "absent"
  /\ revoked' = [revoked EXCEPT ![epoch[p]] = "whole"]
  /\ Goto(p, "done")
  /\ UNCHANGED <<epoch, todo, treeVars, dirs, baseline, verified, planned,
                 staged, runVars>>

(***************************************************************************)
(* Errors.  Every check that fails raises IsolationError, or OSError for a *)
(* path that is missing or already there, and ends the process; so does a  *)
(* command that fails or times out (_run_acl_host_command), which counts   *)
(* as a fault.  No branch below undoes what the process did before: the    *)
(* calls of stage_native_invocation_acl and of the start marker are        *)
(* outside the try blocks of execute_invocation.                           *)
(***************************************************************************)
Refused(p) ==
  CASE pc[p] = "runtime"     -> \/ started # "absent"
                                \/ ".runtime" \in exists /\ "tmp" \notin exists
    [] pc[p] = "quarantine"  -> ".runtime" \notin exists
    [] pc[p] = "mkruntime"   -> ".runtime" \in exists
    [] pc[p] = "fillruntime" -> ".runtime" \notin exists \/ "tmp" \in exists
    [] pc[p] = "preflight"   -> ReportStays
    [] pc[p] = "ledger"      -> ~StageAllowed
    [] pc[p] = "mkepoch"     -> epoch[p] \in dirs
    [] pc[p] = "baseline"    -> DOMAIN baseline[epoch[p]] # {}
    [] pc[p] \in {"traverse", "research", "host", "modify"} ->
                                ~(todo[p] \subseteq Outer \cup exists)
    [] pc[p] = "mark"        -> started # "absent"
    [] pc[p] = "revoke"      -> ~RevokeAllowed
    [] pc[p] = "unlink"      -> verified[epoch[p]] = "torn"
    [] pc[p] = "verify"      -> verified[epoch[p]] # "absent"
    [] pc[p] = "revoked"     -> revoked[epoch[p]] # "absent"
    [] OTHER                 -> FALSE

(* Mutant: a refusal while staging revokes, as one in the jail check does. *)
RefuseAndRevoke(p) ==
  /\ Refused(p)
  /\ Goto(p, IF pc[p] \in StagePcs THEN "revoke" ELSE "failed")
  /\ UNCHANGED <<epoch, todo, treeVars, ledgerVars, runVars>>

Refuse(p) ==
  /\ Refused(p)
  /\ Goto(p, "failed")
  /\ UNCHANGED <<epoch, todo, treeVars, ledgerVars, runVars>>

(* An icacls /save that is killed, by its time limit or with its host, may *)
(* leave nothing, all, or a part of the verification snapshot.             *)
SaveBreaksOff(p) ==
  \/ UNCHANGED verified
  \/ /\ pc[p] = "verify" /\ verified[epoch[p]] = "absent"
     /\ \E left \in {"torn", "whole"} :
          verified' = [verified EXCEPT ![epoch[p]] = left]

CommandFails(p) ==
  /\ pc[p] \in StagePcs \cup RevokePcs \cup {"mark"}
  /\ faults < MaxFaults
  /\ faults' = faults + 1
  /\ Goto(p, "failed")
  /\ SaveBreaksOff(p)
  /\ UNCHANGED <<epoch, todo, treeVars, dirs, baseline, planned, staged,
                 revoked, report, started, child>>

(* The process dies; the file it was just writing may stay behind torn. *)
Crash(p) ==
  /\ pc[p] \notin Ended \cup {"idle"}
  /\ faults < MaxFaults
  /\ faults' = faults + 1
  /\ Goto(p, "crashed")
  /\ \/ UNCHANGED <<planned, staged, revoked, report, started>>
     \/ /\ pc[p] = "plan" /\ planned[epoch[p]] = "absent"
        /\ planned' = [planned EXCEPT ![epoch[p]] = "torn"]
        /\ UNCHANGED <<staged, revoked, report, started>>
     \/ /\ pc[p] = "staged" /\ staged[epoch[p]] = "absent"
        /\ staged' = [staged EXCEPT ![epoch[p]] = "torn"]
        /\ UNCHANGED <<planned, revoked, report, started>>
     \/ /\ pc[p] = "revoked" /\ revoked[epoch[p]] = "absent"
        /\ revoked' = [revoked EXCEPT ![epoch[p]] = "torn"]
        /\ UNCHANGED <<planned, staged, report, started>>
     \/ /\ pc[p] = "report" /\ report = "absent" /\ report' = "torn"
        /\ UNCHANGED <<planned, staged, revoked, started>>
     \/ /\ pc[p] = "mark" /\ started = "absent" /\ started' = "torn"
        /\ UNCHANGED <<planned, staged, revoked, report>>
  /\ SaveBreaksOff(p)
  /\ UNCHANGED <<epoch, todo, treeVars, dirs, baseline, child>>

(* The operator runs the command line program again. *)
RunAgain(p) ==
  /\ pc[p] \in Ended
  /\ Goto(p, "idle")
  /\ UNCHANGED <<epoch, todo, treeVars, ledgerVars, runVars>>

-----------------------------------------------------------------------------
StageStep(p) ==
  \/ CheckRuntime(p) \/ QuarantineRuntime(p) \/ MakeRuntime(p) \/ FillRuntime(p)
  \/ QuarantineReport(p)
  \/ ReadLedger(p) \/ MakeEpoch(p) \/ SaveBaseline(p) \/ WritePlan(p)
  \/ \E path \in Path : Grant(p, path)
  \/ WriteStaged(p)

LaunchStep(p) ==
  \/ RecheckReport(p) \/ OpenProbe(p) \/ CloseProbe(p) \/ WriteReport(p)
  \/ MarkStarted(p) \/ Launch(p) \/ CollectExit(p)

RevokeStep(p) ==
  \/ BeginRevoke(p)
  \/ \E path \in Path : Regrant(p, path) \/ RemoveGrant(p, path)
  \/ ResetTree(p) \/ RestoreBaseline(p)
  \/ DropVerification(p) \/ VerifyTree(p) \/ WriteRevoked(p)

ProcessStep(p) == StageStep(p) \/ LaunchStep(p) \/ RevokeStep(p) \/ Refuse(p)

ChildStep ==
  \/ ChildExits
  \/ \E path \in Tree : ChildCreates(path) \/ ChildRemoves(path)

Next ==
  \/ \E p \in Procs : \/ Execute(p) \/ Adopt(p) \/ ProcessStep(p)
                      \/ CommandFails(p) \/ Crash(p) \/ RunAgain(p)
  \/ ChildStep

Spec == Init /\ [][Next]_vars

(***************************************************************************)
(* Fairness: a live process goes on, the child ends some day, and the      *)
(* operator keeps giving adopt-plan-output until it succeeds, in whatever  *)
(* process.  Nothing is assumed of faults, of new executions or of what    *)
(* the child writes.                                                       *)
(***************************************************************************)
Fairness ==
  /\ \A p \in Procs : /\ WF_vars(ProcessStep(p))
                      /\ WF_vars(RunAgain(p))
  /\ WF_vars(\E p \in Procs : Adopt(p))
  /\ WF_vars(ChildExits)

FairSpec == Spec /\ Fairness

-----------------------------------------------------------------------------
TypeOK ==
  /\ pc \in [Procs -> Pcs]
  /\ epoch \in [Procs -> 0 .. MaxEpoch + 1]
  /\ todo \in [Procs -> SUBSET Path]
  /\ exists \in SUBSET Tree
  /\ acl \in [Path -> SUBSET Principal]
  /\ dirs \in SUBSET Epochs
  /\ DOMAIN baseline = Epochs
  /\ \A e \in Epochs : \A path \in DOMAIN baseline[e] :
       path \in Tree /\ baseline[e][path] \in SUBSET Principal
  /\ verified \in [Epochs -> File]
  /\ planned \in [Epochs -> File]
  /\ staged \in [Epochs -> File]
  /\ revoked \in [Epochs -> File]
  /\ report \in File
  /\ started \in File
  /\ child \in {"none", "running", "exited"}
  /\ faults \in Nat

Granted(path) == "sandbox" \in acl[path]
Exposed == \E path \in Path : Granted(path)

(* The history never gets into a state _active_native_acl_epoch rejects:   *)
(* at most one epoch is open, it is the last one, and no epoch is          *)
(* malformed.  Concurrent stagers are kept apart by the epoch directory    *)
(* alone.                                                                  *)
HistorySound ==
  /\ \A e \in Epochs : ~Malformed(e)
  /\ \A e, f \in Epochs : Open(e) /\ Recorded(f) => f <= e

(* While the child runs its epoch stays active, with the research inputs   *)
(* and the way to them granted: no other process revokes under it.         *)
ChildKeepsLease ==
  child = "running" =>
    /\ ActiveEpochs # {}
    /\ \A path \in Outer \cup {"work_root", ".research"} : Granted(path)

(* What a revocation would restore is the state before any grant: the      *)
(* baseline of an active epoch has no sandbox entry, so that restoring it  *)
(* takes the grants back, and it has the fixed directories.  This is for   *)
(* executions that do not overlap up to the launch: with overlap, a late   *)
(* stager may open its probe while its epoch is revoked under it, and the  *)
(* next one may save that grant.                                           *)
BaselineIsPreGrant ==
  \A e \in ActiveEpochs :
    /\ {"work_root", ".research"} \subseteq DOMAIN baseline[e]
    /\ \A path \in DOMAIN baseline[e] : "sandbox" \notin baseline[e][path]

(* The exclusive writes of the start marker never meet an existing one     *)
(* after a successful staging: execute_invocation would then leave the     *)
(* grants in place, as that write is outside its try block.                *)
StagedIsUnstarted ==
  \A p \in Procs : pc[p] \in JailPcs \cup {"mark"} => started = "absent"

(* A REVOKED event is never followed by another state of its epoch, and it *)
(* is only written over a tree without sandbox grants.                     *)
RevokedIsFinal ==
  [][\A e \in Epochs :
       /\ revoked[e] # "absent" => /\ UNCHANGED <<planned[e], staged[e]>>
                                   /\ revoked'[e] # "absent"
       /\ revoked[e] = "absent" /\ revoked'[e] # "absent" => ~Exposed]_vars

(* At most one command is at work. *)
AtWork(p) == pc[p] \notin Ended \cup {"idle"}
Alone == \A p, q \in Procs : AtWork(p) /\ AtWork(q) => p = q

(* What no later adoption gets past: events whose names are not read back, *)
(* a torn verification snapshot of an open epoch, and a directory that     *)
(* _native_acl_scopes insists on removed by the child.                     *)
StuckForEver ==
  \/ Unreadable
  \/ \E e \in Epochs : Open(e) /\ verified[e] = "torn"
  \/ ~(Scope \ {"tmp"} \subseteq exists)


(***************************************************************************)
(* The refinement mapping: the lease is read off the event history.        *)
(***************************************************************************)
LeaseState == IF ActiveEpochs # {} THEN "held"
              ELSE IF \E e \in Epochs : Open(e) THEN "staging" ELSE "free"

Lease == INSTANCE AclLease WITH lease <- LeaseState, exposed <- Exposed

ImplementsLease == Lease!LeaseSpec
=============================================================================
