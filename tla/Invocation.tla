----------------------------- MODULE Invocation -----------------------------
(***************************************************************************)
(* The life of one Commander or Builder invocation: execute_invocation and *)
(* adopt_invocation_output of sandbox.py with the publication that their   *)
(* commands in cli.py add.  The invocation is planned already; its         *)
(* persistent state is a handful of files that are written exclusively and *)
(* never replaced.  Processes are runs of execute-plan or                  *)
(* adopt-plan-output; each of them may die between any two file            *)
(* operations, and the Codex child goes on without it.                     *)
(*                                                                         *)
(* The native ACL is present as the lease of AclLease; its many steps are  *)
(* in NativeAcl.                                                           *)
(***************************************************************************)
EXTENDS Naturals

CONSTANTS
  Procs,         \* runs of the command line program
  Outputs,       \* contents of model-output.json that can be valid
  Setups,        \* kinds of invocation, see setup
  MaxStamp       \* bound: created_at stamps given out

(* What the sealed plan fixes, and how far the invocation is explored.     *)
ASSUME InvocationAssumption ==
  /\ Setups \subseteq
       [role    : {"commander", "builder"},
        native  : BOOLEAN,   \* native Windows backend: the ACL lease is in use
        overlap : SUBSET SUBSET {"execute", "adopt"},
                             \* commands that may be at work at the same time
        racing  : BOOLEAN,   \* two native executions may both be before the
                             \* exit of the child: nothing forbids it
        faults  : Nat]       \* bound: crashes and failing system calls
  /\ MaxStamp \in Nat
  /\ "none" \notin Outputs /\ "invalid" \notin Outputs

Contents == Outputs \cup {"none", "invalid"}

(* A validated document: the Commander's carries the time of validation,   *)
(* the Builder's is what the model wrote.                                  *)
Docs  == Outputs \X (0 .. MaxStamp)
NoDoc == <<"none", 0>>

File == {"absent", "torn", "whole"}

VARIABLES
  setup,                  \* the kind of this invocation; it never changes
  pc, mode, rc,           \* of each process: place, command, child's result
  doc, seen,              \* of each process: validated document, hashes taken
  started,                \* execution-started.json
  completed, attested,    \* execution-completed.json and its output_hash
  published, output,      \* the role output under output/
  recovered, treeHash,    \* candidate-acl-recovery.json and its tree hash
  modelOutput, tree,      \* what the child wrote: output file, worktree
  sealed,                 \* the sealed inputs still have their hashes
  expired,                \* the request's expires_at has passed
  lease, exposed, child,  \* see AclLease
  blocked,                \* why no revocation ends the lease, see Withdraw
  launches,               \* Codex processes ever started
  clock, faults

procVars  == <<setup, pc, mode, rc, doc, seen>>
markVars  == <<started, completed, attested>>
outVars   == <<published, output>>
recVars   == <<recovered, treeHash>>
childVars == <<modelOutput, tree, sealed, expired>>
leaseVars == <<lease, exposed, blocked>>
vars == <<procVars, markVars, outVars, recVars, childVars, leaseVars, child,
          launches, clock, faults>>

Ended == {"done", "failed", "crashed"}
Pcs == {"idle", "stage", "granting", "sealing", "jail", "mark", "launch",
        "wait", "withdraw", "release", "recover", "validate", "complete",
        "publish", "hash", "window", "examine", "confirm"} \cup Ended

Goto(p, label) == pc' = [pc EXCEPT ![p] = label] /\ UNCHANGED setup

Role == setup.role
Native == setup.native

(* Invocations whose lease this module vouches for.  A stager that comes   *)
(* late takes the lease for a child that will not come and leaves it; that *)
(* is the subject of NativeAcl.                                            *)
Leased == Native /\ ~setup.racing

(* Everything but the local state of the processes. *)
worldVars == <<markVars, outVars, recVars, childVars, leaseVars, child,
               launches, clock, faults>>

-----------------------------------------------------------------------------
Init ==
  /\ setup \in Setups
  /\ pc = [p \in Procs |-> "idle"]
  /\ mode = [p \in Procs |-> "none"]
  /\ rc = [p \in Procs |-> "none"]
  /\ doc = [p \in Procs |-> NoDoc]
  /\ seen = [p \in Procs |-> <<"none", "none">>]
  /\ started = "absent"
  /\ completed = "absent" /\ attested = NoDoc
  /\ published = "absent" /\ output = NoDoc
  /\ recovered = "absent" /\ treeHash = "none"
  /\ modelOutput = "none" /\ tree = "none" /\ sealed = TRUE
  /\ expired = FALSE
  /\ lease = "free" /\ exposed = FALSE /\ child = "none"
  /\ blocked = "no"
  /\ launches = 0
  /\ clock = 0
  /\ faults = 0

Busy(p) == pc[p] \notin Ended \cup {"idle"}

(* Everything at work may be joined by this command. *)
Joins(command) == \A q \in Procs : Busy(q) => {command, mode[q]} \in setup.overlap

Launching(p) == pc[p] \in {"stage", "granting", "sealing", "jail", "mark",
                           "launch", "wait"}

(* The output a role may publish: the Builder's has to declare exactly the *)
(* changes of the candidate worktree.                                      *)
Valid == modelOutput \in Outputs /\ (Role = "builder" => tree = modelOutput)

(***************************************************************************)
(* execute_invocation.                                                     *)
(***************************************************************************)

Execute(p) ==
  /\ pc[p] = "idle"
  /\ Joins("execute") /\ (Leased => \A q \in Procs : ~Launching(q))
  /\ started = "absent" /\ completed = "absent"
  /\ sealed
  /\ mode' = [mode EXCEPT ![p] = "execute"]
  /\ rc' = [rc EXCEPT ![p] = "none"]
  /\ Goto(p, IF Native THEN "stage" ELSE "mark")
  /\ UNCHANGED <<doc, seen, worldVars>>

BeginStaging(p) ==
  /\ pc[p] = "stage"
  /\ lease = "free"
  /\ lease' = "staging"
  /\ Goto(p, "granting")
  /\ UNCHANGED <<mode, rc, doc, seen, markVars, outVars, recVars, childVars,
                 exposed, blocked, child, launches, clock, faults>>

GrantAccess(p) ==
  /\ pc[p] = "granting"
  /\ exposed' = TRUE
  /\ Goto(p, "sealing")
  /\ UNCHANGED <<mode, rc, doc, seen, markVars, outVars, recVars, childVars,
                 lease, blocked, child, launches, clock, faults>>

(* The epoch may be the one past the last readable number.                 *)
FinishStaging(p) ==
  /\ pc[p] = "sealing"
  /\ lease' = "held"
  /\ blocked' \in {"no", "unread"}
  /\ Goto(p, "jail")
  /\ UNCHANGED <<mode, rc, doc, seen, markVars, outVars, recVars, childVars,
                 exposed, child, launches, clock, faults>>

(* A failed read-jail check takes the lease back and ends the process.  A  *)
(* probe directory that stays locked stays open to the sandbox, even if an *)
(* adoption has ended the lease in between.                                *)
VerifyJail(p) ==
  /\ pc[p] = "jail"
  /\ \/ Goto(p, "mark") /\ UNCHANGED <<rc, exposed>>
     \/ /\ Goto(p, "withdraw") /\ rc' = [rc EXCEPT ![p] = "jail"]
        /\ UNCHANGED exposed \/ exposed' = TRUE
  /\ UNCHANGED <<mode, doc, seen, markVars, outVars, recVars, childVars, lease,
                 blocked, child, launches, clock, faults>>

(* Mutant: the start marker overwrites one that is there.                  *)
MarkStartedAnyway(p) ==
  /\ pc[p] = "mark"
  /\ started' = "whole"
  /\ Goto(p, "launch")
  /\ UNCHANGED <<mode, rc, doc, seen, completed, attested, outVars, recVars,
                 childVars, leaseVars, child, launches, clock, faults>>

MarkStarted(p) ==
  /\ pc[p] = "mark"
  /\ started = "absent"
  /\ started' = "whole"
  /\ Goto(p, "launch")
  /\ UNCHANGED <<mode, rc, doc, seen, completed, attested, outVars, recVars,
                 childVars, leaseVars, child, launches, clock, faults>>

(* Where a process goes when it has the child's result, or, adopting, when *)
(* it has looked at the markers.                                           *)
AfterRecovery(p, result) ==
  CASE mode[p] = "adopt"                         -> "hash"
    [] mode[p] # "adopt" /\ result = "zero"      -> "validate"
    [] OTHER                                     -> "failed"
AfterExit(p, result) == IF Native THEN "withdraw" ELSE AfterRecovery(p, result)

Launch(p) ==
  /\ pc[p] = "launch"
  /\ child' = "running"
  /\ launches' = launches + 1
  /\ Goto(p, "wait")
  /\ UNCHANGED <<mode, rc, doc, seen, markVars, outVars, recVars, childVars,
                 leaseVars, clock, faults>>

LaunchFails(p) ==
  /\ pc[p] = "launch"
  /\ rc' = [rc EXCEPT ![p] = "bad"]
  /\ Goto(p, AfterExit(p, "bad"))
  /\ UNCHANGED <<mode, doc, seen, worldVars>>

(* The child has exited, or is killed when the timeout runs out. *)
CollectExit(p, result) ==
  /\ pc[p] = "wait"
  /\ child = "running" => result = "bad"
  /\ child' = "exited"
  /\ rc' = [rc EXCEPT ![p] = result]
  /\ Goto(p, AfterExit(p, result))
  /\ UNCHANGED <<mode, doc, seen, markVars, outVars, recVars, childVars,
                 leaseVars, launches, clock, faults>>

(***************************************************************************)
(* The sandbox child.  Its writes stop when it exits.                      *)
(***************************************************************************)
ChildWrites(content) ==
  /\ child = "running"
  /\ \/ modelOutput' = content /\ UNCHANGED tree
     \/ Role = "builder" /\ tree' = content /\ UNCHANGED modelOutput
  /\ UNCHANGED <<procVars, markVars, outVars, recVars, sealed, expired,
                 leaseVars, child, launches, clock, faults>>

ChildTampers ==
  /\ child = "running"
  /\ sealed' = FALSE
  /\ UNCHANGED <<procVars, markVars, outVars, recVars, modelOutput, tree,
                 expired, leaseVars, child, launches, clock, faults>>

ChildExits ==
  /\ child = "running"
  /\ child' = "exited"
  /\ UNCHANGED <<procVars, markVars, outVars, recVars, childVars, leaseVars,
                 launches, clock, faults>>

(* The request expires, at any time: execute_invocation does not look at   *)
(* it before the launch.                                                   *)
Expire ==
  /\ ~expired
  /\ expired' = TRUE
  /\ UNCHANGED <<procVars, markVars, outVars, recVars, modelOutput, tree,
                 sealed, leaseVars, child, launches, clock, faults>>

(***************************************************************************)
(* adopt_invocation_output up to its hashes, and the revocation it shares  *)
(* with execute_invocation.  --confirm-child-exited is the operator's word *)
(* that the child has exited, and the model takes it as true.              *)
(***************************************************************************)
(* Mutant: adoption without the confirmation of the child's exit.          *)
AdoptUnconfirmed(p) ==
  /\ pc[p] = "idle"
  /\ Joins("adopt")
  /\ started = "whole" /\ completed = "absent"
  /\ mode' = [mode EXCEPT ![p] = "adopt"]
  /\ rc' = [rc EXCEPT ![p] = "none"]
  /\ Goto(p, IF Native THEN "withdraw" ELSE "hash")
  /\ UNCHANGED <<doc, seen, worldVars>>

Adopt(p) ==
  /\ pc[p] = "idle"
  /\ Joins("adopt")
  /\ child = "exited"
  /\ started = "whole" /\ completed = "absent"
  /\ mode' = [mode EXCEPT ![p] = "adopt"]
  /\ rc' = [rc EXCEPT ![p] = "none"]
  /\ Goto(p, IF Native THEN "withdraw" ELSE "hash")
  /\ UNCHANGED <<doc, seen, worldVars>>

(* Mutant: the Builder's worktree is not recovered.                        *)
AfterRevocationOnly(p) ==
  IF rc[p] = "jail" THEN "failed" ELSE AfterRecovery(p, rc[p])

(* The Builder's worktree is fixed by a marker once the host has it back;  *)
(* a failed jail check only revokes.                                       *)
AfterRevocation(p) == CASE rc[p] = "jail"    -> "failed"
                        [] Role = "builder" /\ rc[p] # "jail" -> "recover"
                        [] OTHER             -> AfterRecovery(p, rc[p])

(* revoke_native_invocation_acl: with no active epoch it returns at once,  *)
(* and an epoch that was only planned does not count.  Event names that    *)
(* cannot be read back refuse it before anything is taken back, and a torn *)
(* verification snapshot after the grants have been.                       *)
Withdraw(p) ==
  /\ pc[p] = "withdraw"
  /\ \/ /\ lease = "held" /\ blocked # "unread"
        /\ exposed' = FALSE
        /\ Goto(p, IF blocked = "torn" THEN "failed" ELSE "release")
     \/ /\ lease # "held"
        /\ UNCHANGED exposed
        /\ Goto(p, AfterRevocation(p))
  /\ UNCHANGED <<mode, rc, doc, seen, markVars, outVars, recVars, childVars,
                 lease, blocked, child, launches, clock, faults>>

(* A revocation that breaks off while it saves the tree for comparison can *)
(* leave a file that no later one reads.                                   *)
RevocationBreaksOff(p) ==
  \/ UNCHANGED blocked
  \/ pc[p] = "release" /\ lease = "held" /\ blocked' = "torn"

Release(p) ==
  /\ pc[p] = "release"
  /\ lease = "held"
  /\ lease' = "free"
  /\ Goto(p, AfterRevocation(p))
  /\ UNCHANGED <<mode, rc, doc, seen, markVars, outVars, recVars, childVars,
                 exposed, blocked, child, launches, clock, faults>>

(* recover_native_builder_candidate_acl after the revocation. *)
Recover(p) ==
  /\ pc[p] = "recover"
  /\ \/ /\ recovered = "absent"
        /\ recovered' = "whole" /\ treeHash' = tree
     \/ /\ recovered = "whole" /\ treeHash = tree
        /\ UNCHANGED recVars
  /\ Goto(p, AfterRecovery(p, rc[p]))
  /\ UNCHANGED <<mode, rc, doc, seen, markVars, outVars, childVars, leaseVars,
                 child, launches, clock, faults>>

(***************************************************************************)
(* Validation.  finalize_commander_output replaces the created_at          *)
(* placeholder by the present time, so that no two validations of the same *)
(* Commander output give the same document.  No output is valid any more   *)
(* once its request has expired (verify_output_binding).                   *)
(***************************************************************************)
Stamp == IF Role = "commander" THEN clock + 1 ELSE 0

(* Mutant: the declared paths are not compared with the worktree.          *)
ValidateOutputAlone(p) ==
  /\ modelOutput \in Outputs /\ ~expired
  /\ Stamp <= MaxStamp
  /\ doc' = [doc EXCEPT ![p] = <<modelOutput, Stamp>>]
  /\ clock' = IF Role = "commander" THEN clock + 1 ELSE clock

(* Mutant: whatever the model wrote is taken.                              *)
ValidateNothing(p) ==
  /\ ~expired
  /\ Stamp <= MaxStamp
  /\ doc' = [doc EXCEPT ![p] = <<modelOutput, Stamp>>]
  /\ clock' = IF Role = "commander" THEN clock + 1 ELSE clock

ValidateOutput(p) ==
  /\ Valid /\ ~expired
  /\ Stamp <= MaxStamp
  /\ doc' = [doc EXCEPT ![p] = <<modelOutput, Stamp>>]
  /\ clock' = IF Role = "commander" THEN clock + 1 ELSE clock

(* The executor: sealed inputs, then the output. *)
Validate(p) ==
  /\ pc[p] = "validate"
  /\ sealed
  /\ ValidateOutput(p)
  /\ Goto(p, "complete")
  /\ UNCHANGED <<mode, rc, seen, markVars, outVars, recVars, childVars,
                 leaseVars, child, launches, faults>>

(* The adopter: hashes before and after the stability window, ... *)
HashArtifacts(p) ==
  /\ pc[p] = "hash"
  /\ sealed
  /\ modelOutput # "none"
  /\ seen' = [seen EXCEPT ![p] = <<modelOutput, tree>>]
  /\ Goto(p, "window")
  /\ UNCHANGED <<mode, rc, doc, worldVars>>

WindowPasses(p) ==
  /\ pc[p] = "window"
  /\ seen[p] = <<modelOutput, tree>>
  /\ completed = "absent"
  /\ Goto(p, "examine")
  /\ UNCHANGED <<mode, rc, doc, seen, worldVars>>

(* ... the validation, ... *)
Examine(p) ==
  /\ pc[p] = "examine"
  /\ ValidateOutput(p)
  /\ Goto(p, "confirm")
  /\ UNCHANGED <<mode, rc, seen, markVars, outVars, recVars, childVars,
                 leaseVars, child, launches, faults>>

(* ... and everything looked at once more. *)
Confirm(p) ==
  /\ pc[p] = "confirm"
  /\ sealed
  /\ seen[p] = <<modelOutput, tree>>
  /\ completed = "absent"
  /\ Goto(p, "publish")
  /\ UNCHANGED <<mode, rc, doc, seen, worldVars>>

(***************************************************************************)
(* The two files at the end.  execute-plan completes and then publishes,   *)
(* refusing any file that is there; adopt-plan-output publishes, accepting *)
(* a file with the same hash, and then completes.                          *)
(***************************************************************************)
Complete(p) ==
  /\ pc[p] = "complete"
  /\ completed = "absent"
  /\ completed' = "whole"
  /\ attested' = doc[p]
  /\ Goto(p, IF mode[p] = "adopt" THEN "done" ELSE "publish")
  /\ UNCHANGED <<mode, rc, doc, seen, started, outVars, recVars, childVars,
                 leaseVars, child, launches, clock, faults>>

(* Mutant: an adoption accepts any file that is published already.         *)
PublishOverAny(p) ==
  /\ pc[p] = "publish"
  /\ \/ /\ published = "absent"
        /\ published' = "whole" /\ output' = doc[p]
     \/ /\ published = "whole" /\ mode[p] = "adopt"
        /\ UNCHANGED outVars
  /\ Goto(p, IF mode[p] = "adopt" THEN "complete" ELSE "done")
  /\ UNCHANGED <<mode, rc, doc, seen, markVars, recVars, childVars, leaseVars,
                 child, launches, clock, faults>>


Publish(p) ==
  /\ pc[p] = "publish"
  /\ \/ /\ published = "absent"
        /\ published' = "whole" /\ output' = doc[p]
     \/ /\ published = "whole" /\ mode[p] = "adopt" /\ output = doc[p]
        /\ UNCHANGED outVars
  /\ Goto(p, IF mode[p] = "adopt" THEN "complete" ELSE "done")
  /\ UNCHANGED <<mode, rc, doc, seen, markVars, recVars, childVars, leaseVars,
                 child, launches, clock, faults>>

(***************************************************************************)
(* A failed check raises and ends the process, and so does a failing       *)
(* system call; nothing is undone.  A staging can be refused by what       *)
(* earlier or other attempts left behind, see NativeAcl.                   *)
(***************************************************************************)
Refused(p) ==
  CASE pc[p] = "stage"    -> TRUE
    [] pc[p] = "mark"     -> started # "absent"
    [] pc[p] = "withdraw" -> lease = "held" /\ blocked = "unread"
    [] pc[p] = "release"  -> lease # "held" \/ exposed
    [] pc[p] = "recover"  -> \/ recovered = "torn"
                             \/ recovered = "whole" /\ treeHash # tree
    [] pc[p] = "validate" -> ~(sealed /\ Valid) \/ expired
    [] pc[p] = "hash"     -> ~sealed \/ modelOutput = "none"
    [] pc[p] = "window"   -> \/ seen[p] # <<modelOutput, tree>>
                             \/ completed # "absent"
    [] pc[p] = "examine"  -> ~Valid \/ expired
    [] pc[p] = "confirm"  -> \/ ~sealed \/ seen[p] # <<modelOutput, tree>>
                             \/ completed # "absent"
    [] pc[p] = "complete" -> completed # "absent"
    [] pc[p] = "publish"  -> \/ published = "torn"
                             \/ /\ published = "whole"
                                /\ mode[p] # "adopt" \/ output # doc[p]
    [] OTHER              -> FALSE

Refuse(p) ==
  /\ Refused(p)
  /\ Goto(p, "failed")
  /\ UNCHANGED <<mode, rc, doc, seen, worldVars>>

CallFails(p) ==
  /\ Busy(p) /\ pc[p] \notin {"jail", "launch", "wait"}
  /\ faults < setup.faults
  /\ faults' = faults + 1
  /\ Goto(p, "failed")
  /\ RevocationBreaksOff(p)
  /\ UNCHANGED <<mode, rc, doc, seen, markVars, outVars, recVars, childVars,
                 lease, exposed, child, launches, clock>>

(* A crash; the file being written may stay behind torn. *)
Crash(p) ==
  /\ Busy(p)
  /\ faults < setup.faults
  /\ faults' = faults + 1
  /\ Goto(p, "crashed")
  /\ \/ UNCHANGED <<started, completed, published, recovered>>
     \/ /\ pc[p] = "mark" /\ started = "absent" /\ started' = "torn"
        /\ UNCHANGED <<completed, published, recovered>>
     \/ /\ pc[p] = "complete" /\ completed = "absent" /\ completed' = "torn"
        /\ UNCHANGED <<started, published, recovered>>
     \/ /\ pc[p] = "publish" /\ published = "absent" /\ published' = "torn"
        /\ UNCHANGED <<started, completed, recovered>>
     \/ /\ pc[p] = "recover" /\ recovered = "absent" /\ recovered' = "torn"
        /\ UNCHANGED <<started, completed, published>>
  /\ RevocationBreaksOff(p)
  /\ UNCHANGED <<mode, rc, doc, seen, attested, output, treeHash, childVars,
                 lease, exposed, child, launches, clock>>

RunAgain(p) ==
  /\ pc[p] \in Ended
  /\ Goto(p, "idle")
  /\ doc' = [doc EXCEPT ![p] = NoDoc]
  /\ seen' = [seen EXCEPT ![p] = <<"none", "none">>]
  /\ UNCHANGED <<mode, rc, worldVars>>

-----------------------------------------------------------------------------
LaunchStep(p) ==
  \/ BeginStaging(p) \/ GrantAccess(p) \/ FinishStaging(p) \/ VerifyJail(p)
  \/ MarkStarted(p) \/ Launch(p) \/ LaunchFails(p)
  \/ \E result \in {"zero", "bad"} : CollectExit(p, result)

RecoveryStep(p) == Withdraw(p) \/ Release(p) \/ Recover(p)

OutputStep(p) ==
  \/ Validate(p) \/ HashArtifacts(p) \/ WindowPasses(p) \/ Examine(p)
  \/ Confirm(p) \/ Complete(p) \/ Publish(p)

ProcessStep(p) == LaunchStep(p) \/ RecoveryStep(p) \/ OutputStep(p) \/ Refuse(p)

ChildStep == ChildTampers \/ ChildExits
               \/ \E content \in Outputs \cup {"invalid"} : ChildWrites(content)

Next ==
  \/ \E p \in Procs : \/ Execute(p) \/ Adopt(p) \/ ProcessStep(p)
                      \/ CallFails(p) \/ Crash(p) \/ RunAgain(p)
  \/ ChildStep \/ Expire

Spec == Init /\ [][Next]_vars

(* A live process goes on, the child ends, and the operator runs           *)
(* adopt-plan-output again whenever it may be run.                         *)
Fairness ==
  /\ \A p \in Procs : /\ WF_vars(ProcessStep(p))
                      /\ WF_vars(RunAgain(p))
                      /\ WF_vars(Adopt(p))
  /\ WF_vars(ChildExits)

FairSpec == Spec /\ Fairness

-----------------------------------------------------------------------------
TypeOK ==
  /\ setup \in Setups
  /\ pc \in [Procs -> Pcs]
  /\ mode \in [Procs -> {"none", "execute", "adopt"}]
  /\ rc \in [Procs -> {"none", "jail", "zero", "bad"}]
  /\ doc \in [Procs -> Docs \cup {NoDoc}]
  /\ seen \in [Procs -> Contents \X Contents]
  /\ started \in File
  /\ completed \in File /\ attested \in Docs \cup {NoDoc}
  /\ published \in File /\ output \in Docs \cup {NoDoc}
  /\ recovered \in File /\ treeHash \in Contents
  /\ modelOutput \in Contents /\ tree \in Contents /\ sealed \in BOOLEAN
  /\ expired \in BOOLEAN /\ blocked \in {"no", "unread", "torn"}
  /\ lease \in {"free", "staging", "held"} /\ exposed \in BOOLEAN
  /\ child \in {"none", "running", "exited"}
  /\ launches \in Nat /\ clock \in 0 .. MaxStamp /\ faults \in Nat

(* "Execute exactly once": whatever overlaps or dies, Codex is started at  *)
(* most once, and never without the start marker on disk, so that no       *)
(* later command can start it again.                                       *)
OneLaunch == launches <= 1 /\ (launches = 1 => started = "whole")

(* What is published or attested is what the child left behind when it     *)
(* exited, valid for the role, under sealed inputs that are unchanged.     *)
EvidenceIsChildOutput ==
  /\ published = "whole" => sealed /\ Valid /\ output[1] = modelOutput
  /\ completed = "whole" => sealed /\ Valid /\ attested[1] = modelOutput

(* The completion marker attests the hash of the document that is          *)
(* published; load_validated_builder_result insists on it later.  A        *)
(* Commander's executor and adopter stamp their documents differently, and *)
(* can disagree when they are at work at the same time.                    *)
MarkerMatchesOutput ==
  Role = "builder" \/ {"execute", "adopt"} \notin setup.overlap =>
    (published = "whole" /\ completed = "whole" => attested = output)

(* Completing a native Builder invocation is behind the recovery of its    *)
(* worktree: the tree is the one the recovery marker has fixed.  Unless    *)
(* executions race for the launch, its lease has been given back as well;  *)
(* a late stager's lease may be left behind a completed invocation.        *)
CompletionAfterRecovery ==
  completed = "whole" /\ Native =>
    /\ Role = "builder" => recovered = "whole" /\ treeHash = tree
    /\ Leased => lease = "free" /\ ~exposed

(* What no later command repairs: files torn by a crash, a completion that *)
(* nobody is going to publish any more, and a lease no revocation ends.    *)
Stranded ==
  \/ "torn" \in {completed, published, recovered}
  \/ /\ completed = "whole" /\ published = "absent"
     /\ \A p \in Procs : pc[p] # "publish"
  \/ lease = "held" /\ blocked # "no"


(* A native invocation whose executions do not race for the launch uses    *)
(* the ACL lease as AclLease allows it: no launch without it, no           *)
(* withdrawal from under the child.  Of other invocations nothing is said: *)
(* on another backend there is no lease.                                   *)
Lease == INSTANCE AclLease WITH lease   <- IF Leased THEN lease ELSE "free",
                                exposed <- Leased /\ exposed,
                                child   <- IF Leased THEN child ELSE "none"
UsesLease == Lease!LeaseSpec
=============================================================================
