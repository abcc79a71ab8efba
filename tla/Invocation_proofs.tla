-------------------------- MODULE Invocation_proofs -------------------------
(* Theorems about Invocation for any number of processes, outputs and      *)
(* faults, either role and either backend.                                 *)
EXTENDS Invocation, TLAPS

(***************************************************************************)
(* Type correctness.                                                       *)
(***************************************************************************)
LEMMA InitTyped == Init => TypeOK
<1> SUFFICES ASSUME Init PROVE TypeOK
  OBVIOUS
<1> USE InvocationAssumption DEF InvocationAssumption, Init, File, Contents
<1>1. /\ pc \in [Procs -> Pcs]
      /\ mode \in [Procs -> {"none", "execute", "adopt"}]
      /\ rc \in [Procs -> {"none", "jail", "zero", "bad"}]
  BY DEF Pcs, Ended
<1>2. doc \in [Procs -> Docs \cup {NoDoc}]
  OBVIOUS
<1>3. seen \in [Procs -> Contents \X Contents]
  OBVIOUS
<1>4. clock \in 0 .. MaxStamp
  OBVIOUS
<1> QED BY <1>1, <1>2, <1>3, <1>4 DEF TypeOK

LEMMA NextTyped == TypeOK /\ [Next]_vars => TypeOK'
<1> SUFFICES ASSUME TypeOK, [Next]_vars PROVE TypeOK'
  OBVIOUS
<1> USE InvocationAssumption DEF InvocationAssumption, TypeOK, Pcs, Ended, Docs, NoDoc,
       Contents, File, Goto, worldVars, markVars, outVars, recVars, childVars,
       leaseVars
<1>1. ASSUME NEW p \in Procs, Execute(p) PROVE TypeOK'
  BY <1>1 DEF Execute
<1>2. ASSUME NEW p \in Procs, Adopt(p) PROVE TypeOK'
  BY <1>2 DEF Adopt
<1>3. ASSUME NEW p \in Procs, LaunchStep(p) PROVE TypeOK'
  <2>1. CASE BeginStaging(p) BY <2>1 DEF BeginStaging
  <2>2. CASE GrantAccess(p) BY <2>2 DEF GrantAccess
  <2>3. CASE FinishStaging(p) BY <2>3 DEF FinishStaging
  <2>4. CASE VerifyJail(p)
    <3>1. exposed' \in BOOLEAN
      <4>1. exposed' = exposed \/ exposed' = TRUE BY <2>4 DEF VerifyJail
      <4>2. exposed \in BOOLEAN OBVIOUS
      <4> QED BY ONLY <4>1, <4>2
    <3>2. /\ pc' \in [Procs -> Pcs]
          /\ rc' \in [Procs -> {"none", "jail", "zero", "bad"}]
          /\ UNCHANGED setup
      BY <2>4 DEF VerifyJail
    <3>3. UNCHANGED <<mode, doc, seen, markVars, outVars, recVars, childVars, lease,
                      blocked, child, launches, clock, faults>>
      BY <2>4 DEF VerifyJail
    <3> QED BY <3>1, <3>2, <3>3
  <2>5. CASE MarkStarted(p) BY <2>5 DEF MarkStarted
  <2>6. CASE Launch(p) BY <2>6 DEF Launch
  <2>7. CASE LaunchFails(p)
    BY <2>7 DEF LaunchFails, AfterExit, AfterRecovery
  <2>8. ASSUME NEW result \in {"zero", "bad"}, CollectExit(p, result)
        PROVE TypeOK'
    BY <2>8 DEF CollectExit, AfterExit, AfterRecovery
  <2> HIDE DEF TypeOK
  <2> QED BY <1>3, <2>1, <2>2, <2>3, <2>4, <2>5, <2>6, <2>7, <2>8 DEF LaunchStep
<1>4. ASSUME NEW p \in Procs, RecoveryStep(p) PROVE TypeOK'
  <2>0. AfterRevocation(p) \in Pcs
    BY DEF AfterRevocation, AfterRecovery
  <2>1. CASE Withdraw(p)
    <3>1. CASE lease = "held"
      <4>1. exposed' \in BOOLEAN BY <2>1, <3>1 DEF Withdraw
      <4> QED BY <2>1, <3>1, <4>1 DEF Withdraw
    <3>2. CASE lease # "held"
      <4>1. exposed' \in BOOLEAN BY <2>1, <3>2 DEF Withdraw
      <4> QED BY <2>0, <2>1, <3>2, <4>1 DEF Withdraw
    <3> HIDE DEF TypeOK
    <3> QED BY <3>1, <3>2
  <2>2. CASE Release(p) BY <2>0, <2>2 DEF Release
  <2>3. CASE Recover(p) BY <2>3 DEF Recover, AfterRecovery
  <2> QED BY <1>4, <2>1, <2>2, <2>3 DEF RecoveryStep
<1>5. ASSUME NEW p \in Procs, OutputStep(p) PROVE TypeOK'
  <2>1. CASE Validate(p) BY <2>1 DEF Validate, ValidateOutput, Valid, Stamp
  <2>2. CASE HashArtifacts(p) BY <2>2 DEF HashArtifacts
  <2>3. CASE WindowPasses(p) BY <2>3 DEF WindowPasses
  <2>4. CASE Examine(p) BY <2>4 DEF Examine, ValidateOutput, Valid, Stamp
  <2>5. CASE Confirm(p) BY <2>5 DEF Confirm
  <2>6. CASE Complete(p) BY <2>6 DEF Complete
  <2>7. CASE Publish(p) BY <2>7 DEF Publish
  <2> QED BY <1>5, <2>1, <2>2, <2>3, <2>4, <2>5, <2>6, <2>7 DEF OutputStep
<1>6. ASSUME NEW p \in Procs, Refuse(p) PROVE TypeOK'
  BY <1>6 DEF Refuse
<1>7. ASSUME NEW p \in Procs, CallFails(p) PROVE TypeOK'
  BY <1>7 DEF CallFails, RevocationBreaksOff
<1>8. ASSUME NEW p \in Procs, Crash(p) PROVE TypeOK'
  BY <1>8 DEF Crash, RevocationBreaksOff
<1>9. ASSUME NEW p \in Procs, RunAgain(p) PROVE TypeOK'
  BY <1>9 DEF RunAgain
<1>10. CASE ChildStep
  <2>1. CASE ChildTampers
    <3>1. sealed' \in BOOLEAN BY <2>1 DEF ChildTampers
    <3> QED BY <2>1, <3>1 DEF ChildTampers, procVars
  <2>2. CASE ChildExits BY <2>2 DEF ChildExits, procVars
  <2>3. ASSUME NEW content \in Outputs \cup {"invalid"}, ChildWrites(content)
        PROVE TypeOK'
    BY <2>3 DEF ChildWrites, procVars
  <2> HIDE DEF TypeOK
  <2> QED BY <1>10, <2>1, <2>2, <2>3 DEF ChildStep
<1>11. CASE UNCHANGED vars
  BY <1>11 DEF vars, procVars
<1>12. CASE Expire
  BY <1>12 DEF Expire, procVars
<1> HIDE DEF TypeOK
<1> QED
  BY <1>1, <1>2, <1>3, <1>4, <1>5, <1>6, <1>7, <1>8, <1>9, <1>10, <1>11,
     <1>12
  DEF Next, ProcessStep

(* Every variable keeps its type, in all runs of the program.              *)
THEOREM TypeCorrect == Spec => []TypeOK
  BY InitTyped, NextTyped, PTL DEF Spec

(***************************************************************************)
(* OneLaunch.  It is not inductive: a process that has passed the start    *)
(* marker must be known to be the only one that did.                       *)
(***************************************************************************)
LaunchInv ==
  /\ TypeOK
  /\ launches = 0 \/ (launches = 1 /\ started = "whole")
  /\ \A p \in Procs : pc[p] = "launch" => launches = 0 /\ started = "whole"
  /\ \A p, q \in Procs : pc[p] = "launch" /\ pc[q] = "launch" => p = q

LEMMA LaunchInit == Init => LaunchInv
<1> SUFFICES ASSUME Init PROVE LaunchInv
  OBVIOUS
<1>1. \A p \in Procs : pc[p] = "idle"
  BY DEF Init
<1>2. launches = 0
  BY DEF Init
<1> QED BY <1>1, <1>2, InitTyped DEF LaunchInv

(* Every other step leaves the marker and the counter alone and takes      *)
(* nobody to the launch.                                                   *)
LEMMA LaunchQuiet ==
  ASSUME LaunchInv, TypeOK', UNCHANGED <<launches, started>>,
         \A p \in Procs : pc'[p] = "launch" => pc[p] = "launch"
  PROVE  LaunchInv'
  BY DEF LaunchInv

LEMMA LaunchNext == LaunchInv /\ [Next]_vars => LaunchInv'
<1> SUFFICES ASSUME LaunchInv, [Next]_vars PROVE LaunchInv'
  OBVIOUS
<1>1. TypeOK /\ TypeOK' /\ pc \in [Procs -> Pcs]
  BY NextTyped DEF LaunchInv, TypeOK
<1> DEFINE Quiet == /\ UNCHANGED <<launches, started>>
                    /\ \A p \in Procs : pc'[p] = "launch" => pc[p] = "launch"
<1>2. ASSUME NEW p \in Procs, MarkStarted(p) PROVE LaunchInv'
  BY <1>1, <1>2 DEF MarkStarted, Goto, LaunchInv
<1>3. ASSUME NEW p \in Procs, Launch(p) PROVE LaunchInv'
  BY <1>1, <1>3 DEF Launch, Goto, LaunchInv, markVars
<1>4. ASSUME NEW p \in Procs, Crash(p) PROVE LaunchInv'
  BY <1>1, <1>4 DEF Crash, Goto, LaunchInv
<1>5. ASSUME NEW p \in Procs, LaunchStep(p), ~MarkStarted(p), ~Launch(p)
      PROVE Quiet
  <2> USE <1>1 DEF Goto, worldVars, markVars
  <2>1. CASE BeginStaging(p) BY <2>1 DEF BeginStaging
  <2>2. CASE GrantAccess(p) BY <2>2 DEF GrantAccess
  <2>3. CASE FinishStaging(p) BY <2>3 DEF FinishStaging
  <2>4. CASE VerifyJail(p) BY <2>4 DEF VerifyJail
  <2>5. CASE LaunchFails(p)
    BY <2>5 DEF LaunchFails, AfterExit, AfterRecovery
  <2>6. ASSUME NEW result \in {"zero", "bad"}, CollectExit(p, result)
        PROVE Quiet
    BY <2>6 DEF CollectExit, AfterExit, AfterRecovery
  <2> QED BY <1>5, <2>1, <2>2, <2>3, <2>4, <2>5, <2>6 DEF LaunchStep
<1>6. ASSUME NEW p \in Procs, RecoveryStep(p) PROVE Quiet
  <2>1. AfterRevocation(p) # "launch" /\ AfterRecovery(p, rc[p]) # "launch"
    BY DEF AfterRevocation, AfterRecovery
  <2> QED BY <1>1, <1>6, <2>1
          DEF RecoveryStep, Withdraw, Release, Recover, Goto, markVars
<1>7. ASSUME NEW p \in Procs, OutputStep(p) PROVE Quiet
  BY <1>1, <1>7 DEF OutputStep, Validate, HashArtifacts, WindowPasses, Examine,
     Confirm, Complete, Publish, Goto, worldVars, markVars
<1>8. ASSUME NEW p \in Procs,
             Execute(p) \/ Adopt(p) \/ Refuse(p) \/ CallFails(p) \/ RunAgain(p)
      PROVE Quiet
  BY <1>1, <1>8 DEF Execute, Adopt, Refuse, CallFails, RunAgain, Goto,
     worldVars, markVars
<1>9. CASE ChildStep \/ Expire
  BY <1>9, LaunchQuiet, <1>1
  DEF Expire, ChildStep, ChildTampers, ChildExits, ChildWrites, procVars, markVars
<1>10. CASE UNCHANGED vars
  BY <1>10, <1>1, LaunchQuiet DEF vars, procVars, markVars
<1> QED
  BY <1>1, <1>2, <1>3, <1>4, <1>5, <1>6, <1>7, <1>8, <1>9, <1>10, LaunchQuiet
  DEF Next, ProcessStep

(* Codex is started at most once and never without the start marker, for   *)
(* any number of overlapping commands and any crashes: execute_invocation. *)
THEOREM LaunchedOnce == Spec => []OneLaunch
<1>1. LaunchInv => OneLaunch
  BY DEF LaunchInv, OneLaunch, TypeOK
<1> QED BY <1>1, LaunchInit, LaunchNext, PTL DEF Spec

(***************************************************************************)
(* EvidenceIsChildOutput.  The strengthening follows the child's exit: a   *)
(* process gets to the output only behind it, and behind it the files the  *)
(* child could write no longer change.                                     *)
(***************************************************************************)
AtOutput == {"hash", "window", "examine", "confirm", "validate", "complete",
             "publish"}
AtLaunch == {"stage", "granting", "sealing", "jail", "mark", "launch", "wait"}
AtRecovery == {"withdraw", "release", "recover"}

IsChildOutput(document) == Valid /\ document[1] = modelOutput

ExitKnown ==
  /\ launches = 0 => child = "none"
  /\ \A p \in Procs : pc[p] = "wait" => launches # 0
  /\ \A p \in Procs : pc[p] \in AtLaunch => mode[p] = "execute"
  /\ \A p \in Procs :
       pc[p] \in AtRecovery /\ (mode[p] = "adopt" \/ rc[p] = "zero")
         => child = "exited"
  /\ \A p \in Procs : pc[p] \in AtOutput => child = "exited"

EvidenceHeld ==
  /\ \A p \in Procs : pc[p] = "confirm" => IsChildOutput(doc[p])
  /\ \A p \in Procs : pc[p] \in {"complete", "publish"}
                        => sealed /\ IsChildOutput(doc[p])
  /\ published = "whole" =>
       child = "exited" /\ sealed /\ IsChildOutput(output)
  /\ completed = "whole" =>
       child = "exited" /\ sealed /\ IsChildOutput(attested)

EvidenceInv == LaunchInv /\ ExitKnown /\ EvidenceHeld

LEMMA EvidenceInit == Init => EvidenceInv
<1> SUFFICES ASSUME Init PROVE EvidenceInv
  OBVIOUS
<1>1. \A p \in Procs : pc[p] = "idle"
  BY DEF Init
<1>2. child = "none" /\ published = "absent" /\ completed = "absent"
  BY DEF Init
<1> QED BY <1>1, <1>2, LaunchInit
        DEF EvidenceInv, ExitKnown, EvidenceHeld, AtOutput, AtLaunch, AtRecovery

(* Where the recovery may lead, from the result that the process holds.    *)
LEMMA RecoveryLeads ==
  ASSUME NEW p \in Procs, NEW result
  PROVE  /\ AfterRecovery(p, result) \in {"hash", "validate", "failed"}
         /\ AfterRecovery(p, result) # "failed" =>
              mode[p] = "adopt" \/ result = "zero"
  BY DEF AfterRecovery

LEMMA RevocationLeads ==
  ASSUME NEW p \in Procs
  PROVE  /\ AfterRevocation(p) \in {"recover", "hash", "validate", "failed"}
         /\ AfterRevocation(p) \in {"hash", "validate"} =>
              mode[p] = "adopt" \/ rc[p] = "zero"
  BY RecoveryLeads DEF AfterRevocation

LEMMA ExitKnownNext == EvidenceInv /\ [Next]_vars => ExitKnown'
<1> SUFFICES ASSUME EvidenceInv, [Next]_vars PROVE ExitKnown'
  OBVIOUS
<1>1. /\ TypeOK /\ ExitKnown /\ LaunchInv
      /\ pc \in [Procs -> Pcs]
      /\ mode \in [Procs -> {"none", "execute", "adopt"}]
      /\ rc \in [Procs -> {"none", "jail", "zero", "bad"}]
      /\ launches \in Nat
  BY DEF EvidenceInv, LaunchInv, TypeOK
<1> USE <1>1 DEF ExitKnown, AtLaunch, AtRecovery, AtOutput, Goto, worldVars
<1>2. ASSUME NEW p \in Procs, Execute(p) \/ Adopt(p) PROVE ExitKnown'
  BY <1>2 DEF Execute, Adopt
<1>3. ASSUME NEW p \in Procs, LaunchStep(p) PROVE ExitKnown'
  <2>1. CASE BeginStaging(p) BY <2>1 DEF BeginStaging
  <2>2. CASE GrantAccess(p) BY <2>2 DEF GrantAccess
  <2>3. CASE FinishStaging(p) BY <2>3 DEF FinishStaging
  <2>4. CASE VerifyJail(p) BY <2>4 DEF VerifyJail
  <2>5. CASE MarkStarted(p) BY <2>5 DEF MarkStarted
  <2>6. CASE Launch(p) BY <2>6 DEF Launch, LaunchInv
  <2>7. CASE LaunchFails(p)
    BY <2>7, RecoveryLeads DEF LaunchFails, AfterExit
  <2>8. ASSUME NEW result \in {"zero", "bad"}, CollectExit(p, result)
        PROVE ExitKnown'
    BY <2>8, RecoveryLeads DEF CollectExit, AfterExit, LaunchInv
  <2> QED BY <1>3, <2>1, <2>2, <2>3, <2>4, <2>5, <2>6, <2>7, <2>8 DEF LaunchStep
<1>4. ASSUME NEW p \in Procs, RecoveryStep(p) PROVE ExitKnown'
  <2>0. /\ AfterRecovery(p, rc[p]) \in {"hash", "validate", "failed"}
        /\ AfterRecovery(p, rc[p]) # "failed" =>
             mode[p] = "adopt" \/ rc[p] = "zero"
        /\ AfterRevocation(p) \in {"recover", "hash", "validate", "failed"}
        /\ AfterRevocation(p) \in {"hash", "validate"} =>
             mode[p] = "adopt" \/ rc[p] = "zero"
    BY RecoveryLeads, RevocationLeads
  <2>1. CASE Withdraw(p) BY <2>0, <2>1 DEF Withdraw
  <2>2. CASE Release(p) BY <2>0, <2>2 DEF Release
  <2>3. CASE Recover(p) BY <2>0, <2>3 DEF Recover
  <2> QED BY <1>4, <2>1, <2>2, <2>3 DEF RecoveryStep
<1>5. ASSUME NEW p \in Procs, OutputStep(p) PROVE ExitKnown'
  BY <1>5 DEF OutputStep, Validate, HashArtifacts, WindowPasses, Examine,
     Confirm, Complete, Publish
<1>6. ASSUME NEW p \in Procs,
             Refuse(p) \/ CallFails(p) \/ Crash(p) \/ RunAgain(p)
      PROVE ExitKnown'
  BY <1>6 DEF Refuse, CallFails, Crash, RunAgain
<1>7. CASE ChildStep \/ Expire
  BY <1>7 DEF Expire, ChildStep, ChildTampers, ChildExits, ChildWrites, procVars,
     LaunchInv
<1>8. CASE UNCHANGED vars
  BY <1>8 DEF vars, procVars
<1> QED BY <1>2, <1>3, <1>4, <1>5, <1>6, <1>7, <1>8 DEF Next, ProcessStep

(* The files behind the evidence no longer change once the child is known  *)
(* to have exited.                                                         *)
LEMMA EvidenceNext == EvidenceInv /\ [Next]_vars => EvidenceHeld'
<1> SUFFICES ASSUME EvidenceInv, [Next]_vars PROVE EvidenceHeld'
  OBVIOUS
<1>1. /\ TypeOK /\ ExitKnown /\ EvidenceHeld /\ LaunchInv
      /\ pc \in [Procs -> Pcs]
      /\ doc \in [Procs -> Docs \cup {NoDoc}]
  BY DEF EvidenceInv, LaunchInv, TypeOK
<1> USE <1>1 DEF EvidenceHeld, IsChildOutput, Valid, Role, Goto, worldVars, markVars,
       outVars, recVars, childVars
<1>2. ASSUME NEW p \in Procs, Execute(p) \/ Adopt(p) PROVE EvidenceHeld'
  BY <1>2 DEF Execute, Adopt
<1>3. ASSUME NEW p \in Procs, LaunchStep(p) PROVE EvidenceHeld'
  <2>1. CASE BeginStaging(p) BY <2>1 DEF BeginStaging
  <2>2. CASE GrantAccess(p) BY <2>2 DEF GrantAccess
  <2>3. CASE FinishStaging(p) BY <2>3 DEF FinishStaging
  <2>4. CASE VerifyJail(p) BY <2>4 DEF VerifyJail
  <2>5. CASE MarkStarted(p) BY <2>5 DEF MarkStarted
  <2>6. CASE Launch(p)
    <3>1. child = "none" BY <2>6 DEF Launch, LaunchInv, ExitKnown
    <3> QED BY <2>6, <3>1 DEF Launch
  <2>7. CASE LaunchFails(p)
    BY <2>7, RecoveryLeads DEF LaunchFails, AfterExit
  <2>8. ASSUME NEW result \in {"zero", "bad"}, CollectExit(p, result)
        PROVE EvidenceHeld'
    BY <2>8, RecoveryLeads DEF CollectExit, AfterExit
  <2> QED BY <1>3, <2>1, <2>2, <2>3, <2>4, <2>5, <2>6, <2>7, <2>8 DEF LaunchStep
<1>4. ASSUME NEW p \in Procs, RecoveryStep(p) PROVE EvidenceHeld'
  <2>0. /\ AfterRecovery(p, rc[p]) \in {"hash", "validate", "failed"}
        /\ AfterRevocation(p) \in {"recover", "hash", "validate", "failed"}
    BY RecoveryLeads, RevocationLeads
  <2>1. CASE Withdraw(p) BY <2>0, <2>1 DEF Withdraw
  <2>2. CASE Release(p) BY <2>0, <2>2 DEF Release
  <2>3. CASE Recover(p) BY <2>0, <2>3 DEF Recover
  <2> QED BY <1>4, <2>1, <2>2, <2>3 DEF RecoveryStep
<1>5. ASSUME NEW p \in Procs, OutputStep(p) PROVE EvidenceHeld'
  <2>1. CASE Validate(p) BY <2>1 DEF Validate, ValidateOutput
  <2>2. CASE HashArtifacts(p) BY <2>2 DEF HashArtifacts
  <2>3. CASE WindowPasses(p) BY <2>3 DEF WindowPasses
  <2>4. CASE Examine(p) BY <2>4 DEF Examine, ValidateOutput
  <2>5. CASE Confirm(p) BY <2>5 DEF Confirm
  <2>6. CASE Complete(p) BY <2>6 DEF Complete, ExitKnown, AtOutput
  <2>7. CASE Publish(p) BY <2>7 DEF Publish, ExitKnown, AtOutput
  <2> QED BY <1>5, <2>1, <2>2, <2>3, <2>4, <2>5, <2>6, <2>7 DEF OutputStep
<1>6. ASSUME NEW p \in Procs,
             Refuse(p) \/ CallFails(p) \/ Crash(p) \/ RunAgain(p)
      PROVE EvidenceHeld'
  BY <1>6 DEF Refuse, CallFails, Crash, RunAgain
<1>7. CASE ChildStep \/ Expire
  BY <1>7 DEF Expire, ChildStep, ChildTampers, ChildExits, ChildWrites, procVars,
     ExitKnown, AtOutput
<1>8. CASE UNCHANGED vars
  BY <1>8 DEF vars, procVars
<1> QED BY <1>2, <1>3, <1>4, <1>5, <1>6, <1>7, <1>8 DEF Next, ProcessStep

(* Whatever execute_invocation or adopt_invocation_output publish or       *)
(* attest is valid, is what the child left behind, and stays so.           *)
THEOREM EvidenceSound == Spec => []EvidenceIsChildOutput
<1>1. EvidenceInv /\ [Next]_vars => EvidenceInv'
  BY LaunchNext, ExitKnownNext, EvidenceNext DEF EvidenceInv
<1>2. EvidenceInv => EvidenceIsChildOutput
  BY DEF EvidenceInv, EvidenceHeld, EvidenceIsChildOutput, IsChildOutput
<1> QED BY <1>1, <1>2, EvidenceInit, PTL DEF Spec

(***************************************************************************)
(* UsesLease and CompletionAfterRecovery.  Before the start marker one     *)
(* process at most has anything to do with the lease, behind it the lease  *)
(* can only be given back.                                                 *)
(***************************************************************************)
Early    == {"stage", "granting", "sealing", "jail", "mark"}
Revoking == {"withdraw", "release"}
Claiming == {"granting", "sealing", "jail", "mark", "launch", "wait"} \cup Revoking

LeaseAlone ==
  /\ \A p, q \in Procs : pc[p] \in AtLaunch /\ pc[q] \in AtLaunch => p = q
  /\ started = "absent" =>
       \A p, q \in Procs : pc[p] \in Claiming /\ pc[q] \in Claiming => p = q
  /\ started # "absent" => \A p \in Procs : pc[p] \notin Early
  /\ started # "absent" => lease # "staging"

LeaseKnown ==
  /\ exposed => lease # "free"
  /\ \A p \in Procs :
       /\ pc[p] \in {"granting", "sealing"} => lease = "staging"
       /\ pc[p] \in {"jail", "mark", "launch"} => lease = "held"
       /\ pc[p] = "launch" => \A q \in Procs : pc[q] \notin Revoking
       /\ pc[p] \in Revoking => child # "running"
       /\ pc[p] \in Revoking /\ started = "absent" => lease = "held" /\ rc[p] = "jail"
       /\ pc[p] = "release" => ~exposed

(* Who is past the revocation finds the lease given back, and behind the   *)
(* recovery the worktree of a Builder fixed.                               *)
TreeFixed == Role = "builder" => recovered = "whole" /\ treeHash = tree
TreeKept ==
  /\ \A p \in Procs : pc[p] \in AtOutput => TreeFixed
  /\ completed = "whole" => TreeFixed
Returned ==
  /\ \A p \in Procs : pc[p] \in AtOutput \cup {"recover"} =>
       started # "absent" /\ lease = "free" /\ ~exposed
  /\ completed = "whole" => started # "absent" /\ lease = "free" /\ ~exposed

LeaseInv ==
  /\ EvidenceInv
  /\ launches # 0 => child # "none"
  /\ Native => TreeKept
  /\ Leased => LeaseAlone /\ LeaseKnown /\ Returned

LEMMA LeaseInit == Init => LeaseInv
<1> SUFFICES ASSUME Init PROVE LeaseInv
  OBVIOUS
<1>1. /\ \A p \in Procs : pc[p] = "idle"
      /\ started = "absent" /\ completed = "absent"
      /\ lease = "free" /\ exposed = FALSE /\ launches = 0
  BY DEF Init
<1> QED
  BY <1>1, EvidenceInit DEF LeaseInv, TreeKept, LeaseAlone, LeaseKnown, Returned, AtLaunch, Claiming,
     Revoking, Early, AtOutput

LEMMA EvidenceInvNext == EvidenceInv /\ [Next]_vars => EvidenceInv'
  BY LaunchNext, ExitKnownNext, EvidenceNext DEF EvidenceInv

(* The child has been launched: nobody is before the launch any more.      *)
LEMMA NoneLaunches ==
  ASSUME LeaseInv, Leased, child = "exited"
  PROVE  /\ started = "whole"
         /\ \A p \in Procs : pc[p] \notin Early \cup {"launch"}
  BY DEF LeaseInv, EvidenceInv, ExitKnown, LaunchInv, LeaseAlone

LEMMA LeaseTyped == LeaseInv => lease \in {"free", "staging", "held"} /\ exposed \in BOOLEAN
  BY DEF LeaseInv, EvidenceInv, LaunchInv, TypeOK

LEMMA LeaseAloneNext == LeaseInv /\ Leased /\ [Next]_vars => LeaseAlone'
<1> SUFFICES ASSUME LeaseInv, Leased, [Next]_vars PROVE LeaseAlone'
  OBVIOUS
<1>1. /\ LeaseAlone /\ LeaseKnown /\ Returned /\ Leased /\ Native
      /\ LaunchInv /\ ExitKnown /\ EvidenceHeld
      /\ pc \in [Procs -> Pcs] /\ rc \in [Procs -> {"none", "jail", "zero", "bad"}]
      /\ launches # 0 => child # "none"
  BY DEF LeaseInv, EvidenceInv, LaunchInv, TypeOK, Leased
<1> USE <1>1 DEF LeaseAlone, AtLaunch, Claiming, Revoking, Early, AtOutput, Goto, worldVars,
       markVars, outVars, recVars, childVars, leaseVars, Role
<1>2. ASSUME NEW p \in Procs, Execute(p) \/ Adopt(p) PROVE LeaseAlone'
  <2>1. CASE Execute(p) BY <2>1 DEF Execute, Launching, LeaseAlone
  <2>2. CASE Adopt(p) BY <2>2, NoneLaunches DEF Adopt
  <2> QED BY <1>2, <2>1, <2>2
<1>3. ASSUME NEW p \in Procs, LaunchStep(p) PROVE LeaseAlone'
  <2>1. CASE BeginStaging(p) BY <2>1 DEF BeginStaging, LeaseAlone, LeaseKnown
  <2>2. CASE GrantAccess(p) BY <2>2 DEF GrantAccess, LeaseAlone, LeaseKnown
  <2>3. CASE FinishStaging(p) BY <2>3 DEF FinishStaging, LeaseAlone, LeaseKnown
  <2>4. CASE VerifyJail(p) BY <2>4 DEF VerifyJail, LaunchInv, ExitKnown, LeaseAlone, LeaseKnown
  <2>5. CASE MarkStarted(p) BY <2>5 DEF MarkStarted, LeaseAlone, LeaseKnown
  <2>6. CASE Launch(p) BY <2>6 DEF Launch, LaunchInv, LeaseAlone, LeaseKnown, ExitKnown
  <2>7. CASE LaunchFails(p)
    BY <2>7 DEF LaunchFails, AfterExit, LaunchInv, LeaseAlone, LeaseKnown, ExitKnown
  <2>8. ASSUME NEW result \in {"zero", "bad"}, CollectExit(p, result) PROVE LeaseAlone'
    BY <2>8 DEF CollectExit, AfterExit, LaunchInv, LeaseAlone, LeaseKnown, ExitKnown
  <2> QED BY <1>3, <2>1, <2>2, <2>3, <2>4, <2>5, <2>6, <2>7, <2>8 DEF LaunchStep
<1>4. ASSUME NEW p \in Procs, RecoveryStep(p) PROVE LeaseAlone'
  <2>0. /\ AfterRecovery(p, rc[p]) \in {"hash", "validate", "failed"}
        /\ AfterRevocation(p) \in {"recover", "hash", "validate", "failed"}
        /\ AfterRevocation(p) \in {"hash", "validate"} => Role # "builder"
        /\ rc[p] = "jail" => AfterRevocation(p) = "failed"
    BY RecoveryLeads DEF AfterRevocation
  <2>1. CASE Withdraw(p)
    <3>1. CASE lease = "held" BY <2>1, <3>1 DEF Withdraw, LeaseAlone, LeaseKnown
    <3>2. CASE lease # "held"
      <4>1. started # "absent" BY <2>1, <3>2 DEF Withdraw, LeaseKnown
      <4>2. lease = "free" /\ ~exposed
        BY <3>2, <4>1, LeaseTyped DEF LeaseAlone, LeaseKnown
      <4> QED BY <2>0, <2>1, <3>2, <4>1, <4>2 DEF Withdraw
    <3> QED BY <3>1, <3>2
  <2>2. CASE Release(p) BY <2>0, <2>2 DEF Release, LeaseAlone, LeaseKnown, Returned
  <2>3. CASE Recover(p) BY <2>0, <2>3 DEF Recover, LeaseAlone, LeaseKnown, Returned
  <2> QED BY <1>4, <2>1, <2>2, <2>3 DEF RecoveryStep
<1>5. ASSUME NEW p \in Procs, OutputStep(p) PROVE LeaseAlone'
  BY <1>5 DEF OutputStep, Validate, HashArtifacts, WindowPasses, Examine,
     Confirm, Complete, Publish
<1>6. ASSUME NEW p \in Procs,
             Refuse(p) \/ CallFails(p) \/ Crash(p) \/ RunAgain(p)
      PROVE LeaseAlone'
  <2>1. CASE Crash(p) BY <2>1 DEF Crash, RevocationBreaksOff, LeaseAlone, LeaseKnown
  <2> QED BY <1>6, <2>1 DEF Refuse, CallFails, RunAgain
<1>7. CASE ChildStep \/ Expire
  BY <1>7 DEF Expire, ChildStep, ChildTampers, ChildExits, ChildWrites, procVars,
     ExitKnown, EvidenceHeld
<1>8. CASE UNCHANGED vars
  BY <1>8 DEF vars, procVars
<1> QED BY <1>2, <1>3, <1>4, <1>5, <1>6, <1>7, <1>8 DEF Next, ProcessStep

LEMMA LeaseKnownNext == LeaseInv /\ Leased /\ [Next]_vars => LeaseKnown'
<1> SUFFICES ASSUME LeaseInv, Leased, [Next]_vars PROVE LeaseKnown'
  OBVIOUS
<1>1. /\ LeaseAlone /\ LeaseKnown /\ Returned /\ Leased /\ Native
      /\ LaunchInv /\ ExitKnown /\ EvidenceHeld
      /\ pc \in [Procs -> Pcs] /\ rc \in [Procs -> {"none", "jail", "zero", "bad"}]
      /\ launches # 0 => child # "none"
  BY DEF LeaseInv, EvidenceInv, LaunchInv, TypeOK, Leased
<1> USE <1>1 DEF LeaseKnown, AtLaunch, Claiming, Revoking, Early, AtOutput, Goto, worldVars,
       markVars, outVars, recVars, childVars, leaseVars, Role
<1>2. ASSUME NEW p \in Procs, Execute(p) \/ Adopt(p) PROVE LeaseKnown'
  <2>1. CASE Execute(p) BY <2>1 DEF Execute, Launching, LeaseAlone
  <2>2. CASE Adopt(p) BY <2>2, NoneLaunches DEF Adopt
  <2> QED BY <1>2, <2>1, <2>2
<1>3. ASSUME NEW p \in Procs, LaunchStep(p) PROVE LeaseKnown'
  <2>1. CASE BeginStaging(p) BY <2>1 DEF BeginStaging, LeaseAlone, LeaseKnown
  <2>2. CASE GrantAccess(p) BY <2>2 DEF GrantAccess, LeaseAlone, LeaseKnown
  <2>3. CASE FinishStaging(p) BY <2>3 DEF FinishStaging, LeaseAlone, LeaseKnown
  <2>4. CASE VerifyJail(p) BY <2>4 DEF VerifyJail, LaunchInv, ExitKnown, LeaseAlone, LeaseKnown
  <2>5. CASE MarkStarted(p) BY <2>5 DEF MarkStarted, LeaseAlone, LeaseKnown
  <2>6. CASE Launch(p) BY <2>6 DEF Launch, LaunchInv, LeaseAlone, LeaseKnown, ExitKnown
  <2>7. CASE LaunchFails(p)
    BY <2>7 DEF LaunchFails, AfterExit, LaunchInv, LeaseAlone, LeaseKnown, ExitKnown
  <2>8. ASSUME NEW result \in {"zero", "bad"}, CollectExit(p, result) PROVE LeaseKnown'
    BY <2>8 DEF CollectExit, AfterExit, LaunchInv, LeaseAlone, LeaseKnown, ExitKnown
  <2> QED BY <1>3, <2>1, <2>2, <2>3, <2>4, <2>5, <2>6, <2>7, <2>8 DEF LaunchStep
<1>4. ASSUME NEW p \in Procs, RecoveryStep(p) PROVE LeaseKnown'
  <2>0. /\ AfterRecovery(p, rc[p]) \in {"hash", "validate", "failed"}
        /\ AfterRevocation(p) \in {"recover", "hash", "validate", "failed"}
        /\ AfterRevocation(p) \in {"hash", "validate"} => Role # "builder"
        /\ rc[p] = "jail" => AfterRevocation(p) = "failed"
    BY RecoveryLeads DEF AfterRevocation
  <2>1. CASE Withdraw(p)
    <3>1. CASE lease = "held" BY <2>1, <3>1 DEF Withdraw, LeaseAlone, LeaseKnown
    <3>2. CASE lease # "held"
      <4>1. started # "absent" BY <2>1, <3>2 DEF Withdraw, LeaseKnown
      <4>2. lease = "free" /\ ~exposed
        BY <3>2, <4>1, LeaseTyped DEF LeaseAlone, LeaseKnown
      <4> QED BY <2>0, <2>1, <3>2, <4>1, <4>2 DEF Withdraw
    <3> QED BY <3>1, <3>2
  <2>2. CASE Release(p) BY <2>0, <2>2 DEF Release, LeaseAlone, LeaseKnown, Returned
  <2>3. CASE Recover(p) BY <2>0, <2>3 DEF Recover, LeaseAlone, LeaseKnown, Returned
  <2> QED BY <1>4, <2>1, <2>2, <2>3 DEF RecoveryStep
<1>5. ASSUME NEW p \in Procs, OutputStep(p) PROVE LeaseKnown'
  BY <1>5 DEF OutputStep, Validate, HashArtifacts, WindowPasses, Examine,
     Confirm, Complete, Publish
<1>6. ASSUME NEW p \in Procs,
             Refuse(p) \/ CallFails(p) \/ Crash(p) \/ RunAgain(p)
      PROVE LeaseKnown'
  <2>1. CASE Crash(p) BY <2>1 DEF Crash, RevocationBreaksOff, LeaseAlone, LeaseKnown
  <2> QED BY <1>6, <2>1 DEF Refuse, CallFails, RunAgain
<1>7. CASE ChildStep \/ Expire
  BY <1>7 DEF Expire, ChildStep, ChildTampers, ChildExits, ChildWrites, procVars,
     ExitKnown, EvidenceHeld
<1>8. CASE UNCHANGED vars
  BY <1>8 DEF vars, procVars
<1> QED BY <1>2, <1>3, <1>4, <1>5, <1>6, <1>7, <1>8 DEF Next, ProcessStep

LEMMA ReturnedNext == LeaseInv /\ Leased /\ [Next]_vars => Returned'
<1> SUFFICES ASSUME LeaseInv, Leased, [Next]_vars PROVE Returned'
  OBVIOUS
<1>1. /\ LeaseAlone /\ LeaseKnown /\ Returned /\ Leased /\ Native
      /\ LaunchInv /\ ExitKnown /\ EvidenceHeld
      /\ pc \in [Procs -> Pcs] /\ rc \in [Procs -> {"none", "jail", "zero", "bad"}]
      /\ launches # 0 => child # "none"
  BY DEF LeaseInv, EvidenceInv, LaunchInv, TypeOK, Leased
<1> USE <1>1 DEF Returned, AtLaunch, Claiming, Revoking, Early, AtOutput, Goto, worldVars,
       markVars, outVars, recVars, childVars, leaseVars, Role
<1>2. ASSUME NEW p \in Procs, Execute(p) \/ Adopt(p) PROVE Returned'
  <2>1. CASE Execute(p) BY <2>1 DEF Execute, Launching, LeaseAlone
  <2>2. CASE Adopt(p) BY <2>2, NoneLaunches DEF Adopt
  <2> QED BY <1>2, <2>1, <2>2
<1>3. ASSUME NEW p \in Procs, LaunchStep(p) PROVE Returned'
  <2>1. CASE BeginStaging(p) BY <2>1 DEF BeginStaging, LeaseAlone, LeaseKnown
  <2>2. CASE GrantAccess(p) BY <2>2 DEF GrantAccess, LeaseAlone, LeaseKnown
  <2>3. CASE FinishStaging(p) BY <2>3 DEF FinishStaging, LeaseAlone, LeaseKnown
  <2>4. CASE VerifyJail(p) BY <2>4 DEF VerifyJail, LaunchInv, ExitKnown, LeaseAlone, LeaseKnown
  <2>5. CASE MarkStarted(p) BY <2>5 DEF MarkStarted, LeaseAlone, LeaseKnown
  <2>6. CASE Launch(p) BY <2>6 DEF Launch, LaunchInv, LeaseAlone, LeaseKnown, ExitKnown
  <2>7. CASE LaunchFails(p)
    BY <2>7 DEF LaunchFails, AfterExit, LaunchInv, LeaseAlone, LeaseKnown, ExitKnown
  <2>8. ASSUME NEW result \in {"zero", "bad"}, CollectExit(p, result) PROVE Returned'
    BY <2>8 DEF CollectExit, AfterExit, LaunchInv, LeaseAlone, LeaseKnown, ExitKnown
  <2> QED BY <1>3, <2>1, <2>2, <2>3, <2>4, <2>5, <2>6, <2>7, <2>8 DEF LaunchStep
<1>4. ASSUME NEW p \in Procs, RecoveryStep(p) PROVE Returned'
  <2>0. /\ AfterRecovery(p, rc[p]) \in {"hash", "validate", "failed"}
        /\ AfterRevocation(p) \in {"recover", "hash", "validate", "failed"}
        /\ AfterRevocation(p) \in {"hash", "validate"} => Role # "builder"
        /\ rc[p] = "jail" => AfterRevocation(p) = "failed"
    BY RecoveryLeads DEF AfterRevocation
  <2>1. CASE Withdraw(p)
    <3>1. CASE lease = "held" BY <2>1, <3>1 DEF Withdraw, LeaseAlone, LeaseKnown
    <3>2. CASE lease # "held"
      <4>1. started # "absent" BY <2>1, <3>2 DEF Withdraw, LeaseKnown
      <4>2. lease = "free" /\ ~exposed
        BY <3>2, <4>1, LeaseTyped DEF LeaseAlone, LeaseKnown
      <4> QED BY <2>0, <2>1, <3>2, <4>1, <4>2 DEF Withdraw
    <3> QED BY <3>1, <3>2
  <2>2. CASE Release(p) BY <2>0, <2>2 DEF Release, LeaseAlone, LeaseKnown, Returned
  <2>3. CASE Recover(p) BY <2>0, <2>3 DEF Recover, LeaseAlone, LeaseKnown, Returned
  <2> QED BY <1>4, <2>1, <2>2, <2>3 DEF RecoveryStep
<1>5. ASSUME NEW p \in Procs, OutputStep(p) PROVE Returned'
  BY <1>5 DEF OutputStep, Validate, HashArtifacts, WindowPasses, Examine,
     Confirm, Complete, Publish
<1>6. ASSUME NEW p \in Procs,
             Refuse(p) \/ CallFails(p) \/ Crash(p) \/ RunAgain(p)
      PROVE Returned'
  <2>1. CASE Crash(p) BY <2>1 DEF Crash, RevocationBreaksOff, LeaseAlone, LeaseKnown
  <2> QED BY <1>6, <2>1 DEF Refuse, CallFails, RunAgain
<1>7. CASE ChildStep \/ Expire
  BY <1>7 DEF Expire, ChildStep, ChildTampers, ChildExits, ChildWrites, procVars,
     ExitKnown, EvidenceHeld
<1>8. CASE UNCHANGED vars
  BY <1>8 DEF vars, procVars
<1> QED BY <1>2, <1>3, <1>4, <1>5, <1>6, <1>7, <1>8 DEF Next, ProcessStep

(* The recovered worktree, whoever races: only the child writes there, and *)
(* it has exited.                                                          *)
LEMMA TreeKeptNext == LeaseInv /\ Native /\ [Next]_vars => TreeKept'
<1> SUFFICES ASSUME LeaseInv, Native, [Next]_vars PROVE TreeKept'
  OBVIOUS
<1>1. /\ TreeKept /\ ExitKnown /\ EvidenceHeld /\ Native
      /\ pc \in [Procs -> Pcs]
  BY DEF LeaseInv, EvidenceInv, LaunchInv, TypeOK
<1> USE <1>1 DEF TreeKept, TreeFixed, AtOutput, Goto, worldVars, markVars, outVars, recVars,
       childVars, leaseVars, Role
<1>2. ASSUME NEW p \in Procs, Execute(p) \/ Adopt(p) PROVE TreeKept'
  BY <1>2 DEF Execute, Adopt
<1>3. ASSUME NEW p \in Procs, LaunchStep(p) PROVE TreeKept'
  <2>1. CASE BeginStaging(p) BY <2>1 DEF BeginStaging
  <2>2. CASE GrantAccess(p) BY <2>2 DEF GrantAccess
  <2>3. CASE FinishStaging(p) BY <2>3 DEF FinishStaging
  <2>4. CASE VerifyJail(p) BY <2>4 DEF VerifyJail
  <2>5. CASE MarkStarted(p) BY <2>5 DEF MarkStarted
  <2>6. CASE Launch(p) BY <2>6 DEF Launch
  <2>7. CASE LaunchFails(p) BY <2>7 DEF LaunchFails, AfterExit
  <2>8. ASSUME NEW result \in {"zero", "bad"}, CollectExit(p, result) PROVE TreeKept'
    BY <2>8 DEF CollectExit, AfterExit
  <2> QED BY <1>3, <2>1, <2>2, <2>3, <2>4, <2>5, <2>6, <2>7, <2>8 DEF LaunchStep
<1>4. ASSUME NEW p \in Procs, RecoveryStep(p) PROVE TreeKept'
  <2>0. /\ AfterRecovery(p, rc[p]) \in {"hash", "validate", "failed"}
        /\ AfterRevocation(p) \in {"recover", "hash", "validate", "failed"}
        /\ AfterRevocation(p) \in {"hash", "validate"} => Role # "builder"
    BY RecoveryLeads DEF AfterRevocation
  <2>1. CASE Withdraw(p) BY <2>0, <2>1 DEF Withdraw
  <2>2. CASE Release(p) BY <2>0, <2>2 DEF Release
  <2>3. CASE Recover(p) BY <2>0, <2>3 DEF Recover
  <2> QED BY <1>4, <2>1, <2>2, <2>3 DEF RecoveryStep
<1>5. ASSUME NEW p \in Procs, OutputStep(p) PROVE TreeKept'
  BY <1>5 DEF OutputStep, Validate, HashArtifacts, WindowPasses, Examine,
     Confirm, Complete, Publish
<1>6. ASSUME NEW p \in Procs,
             Refuse(p) \/ CallFails(p) \/ Crash(p) \/ RunAgain(p)
      PROVE TreeKept'
  <2>1. CASE Crash(p) BY <2>1 DEF Crash
  <2> QED BY <1>6, <2>1 DEF Refuse, CallFails, RunAgain
<1>7. CASE ChildStep \/ Expire
  BY <1>7 DEF Expire, ChildStep, ChildTampers, ChildExits, ChildWrites, procVars,
     ExitKnown, EvidenceHeld
<1>8. CASE UNCHANGED vars
  BY <1>8 DEF vars, procVars
<1> QED BY <1>2, <1>3, <1>4, <1>5, <1>6, <1>7, <1>8 DEF Next, ProcessStep

(* What the plan fixed stays fixed.                                        *)
LEMMA SetupStays == [Next]_vars => setup' = setup
  BY DEF Next, ProcessStep, LaunchStep, RecoveryStep, OutputStep, ChildStep, Expire, vars, procVars,
     Execute, Adopt, BeginStaging, GrantAccess, FinishStaging, VerifyJail, MarkStarted,
     Launch, LaunchFails, CollectExit, Withdraw, Release, Recover, Validate,
     HashArtifacts, WindowPasses, Examine, Confirm, Complete, Publish, Refuse, CallFails,
     Crash, RunAgain, ChildTampers, ChildExits, ChildWrites, Goto

LEMMA LeaseInvNext == LeaseInv /\ [Next]_vars => LeaseInv'
<1> SUFFICES ASSUME LeaseInv, [Next]_vars PROVE LeaseInv'
  OBVIOUS
<1> DEFINE Begun == launches # 0 => child # "none"
<1>1. EvidenceInv' /\ Native' = Native /\ Leased' = Leased
  <2>1. setup' = setup
    BY SetupStays
  <2> QED BY <2>1, EvidenceInvNext DEF LeaseInv, Native, Leased
<1>2. Begun'
  BY DEF LeaseInv, Next, ProcessStep, LaunchStep, RecoveryStep, OutputStep, ChildStep, Expire,
     vars, Execute, Adopt, BeginStaging, GrantAccess, FinishStaging, VerifyJail, MarkStarted,
     Launch, LaunchFails, CollectExit, Withdraw, Release, Recover, Validate,
     HashArtifacts, WindowPasses, Examine, Confirm, Complete, Publish, Refuse, CallFails,
     Crash, RunAgain, ChildTampers, ChildExits, ChildWrites, worldVars
<1> QED
  BY <1>1, <1>2, TreeKeptNext, LeaseAloneNext, LeaseKnownNext, ReturnedNext DEF LeaseInv

LEMMA LeaseInductive == Spec => []LeaseInv
  BY LeaseInit, LeaseInvNext, PTL DEF Spec

(* What is completed has fixed its worktree, and given its lease back if   *)
(* no two executions raced for the launch: adopt_invocation_output and     *)
(* execute_invocation after recover_native_builder_candidate_acl.          *)
THEOREM RecoveredFirst == Spec => []CompletionAfterRecovery
<1>1. LeaseInv => CompletionAfterRecovery
  BY DEF LeaseInv, Returned, TreeKept, TreeFixed, CompletionAfterRecovery
<1> QED BY <1>1, LeaseInductive, PTL

(* Every step of an invocation is a step of the lease or leaves it alone.  *)
LEMMA LeaseSimulation == LeaseInv /\ [Next]_vars => [Lease!Next]_(Lease!leaseVars)
<1> SUFFICES ASSUME LeaseInv, [Next]_vars PROVE [Lease!Next]_(Lease!leaseVars)
  OBVIOUS
<1>1. Leased' = Leased
  BY SetupStays DEF Leased, Native
<1> USE DEF Lease!leaseVars, Lease!Next
<1>2. CASE ~Leased
  BY <1>1, <1>2
<1>3. CASE Leased
  <2>1. /\ Leased /\ Leased' /\ exposed \in BOOLEAN
        /\ LeaseAlone /\ LeaseKnown /\ Returned
        /\ LaunchInv /\ ExitKnown /\ TypeOK
    BY <1>1, <1>3 DEF LeaseInv, EvidenceInv, LaunchInv, TypeOK
  <2>2. CASE UNCHANGED <<lease, exposed, child>>
    BY <2>1, <2>2
  <2>3. ASSUME NEW p \in Procs, BeginStaging(p) PROVE Lease!Begin
    BY <2>1, <2>3 DEF BeginStaging, Lease!Begin
  <2>4. ASSUME NEW p \in Procs, GrantAccess(p) PROVE Lease!Expose
    <3>1. lease # "free"
      BY <2>1, <2>4 DEF GrantAccess, LeaseKnown
    <3> QED BY <2>1, <2>4, <3>1 DEF GrantAccess, Lease!Expose
  <2>5. ASSUME NEW p \in Procs, FinishStaging(p) PROVE Lease!Hold
    <3>1. lease = "staging"
      BY <2>1, <2>5 DEF FinishStaging, LeaseKnown
    <3> QED BY <2>1, <2>5, <3>1 DEF FinishStaging, Lease!Hold
  <2>6. ASSUME NEW p \in Procs, VerifyJail(p) PROVE [Lease!Next]_(Lease!leaseVars)
    <3>1. lease = "held"
      BY <2>1, <2>6 DEF VerifyJail, LeaseKnown
    <3>2. CASE exposed' = exposed
      BY <2>2, <2>6, <3>2 DEF VerifyJail
    <3>3. CASE exposed' # exposed
      <4>1. exposed' = TRUE
        BY <2>6, <3>3 DEF VerifyJail
      <4> QED BY <2>1, <2>6, <3>1, <4>1 DEF VerifyJail, Lease!Expose
    <3> QED BY <3>2, <3>3
  <2>7. ASSUME NEW p \in Procs, Launch(p) PROVE Lease!Launch
    <3>1. lease = "held" /\ child = "none"
      BY <2>1, <2>7 DEF Launch, LeaseKnown, LaunchInv, ExitKnown
    <3> QED BY <2>1, <2>7, <3>1 DEF Launch, leaseVars, Lease!Launch
  <2>8. ASSUME child \in {"running", "exited"}, child' = "exited",
               UNCHANGED <<lease, exposed>>
        PROVE  [Lease!Next]_(Lease!leaseVars)
    <3>1. CASE child = "exited" BY <2>2, <2>8, <3>1
    <3>2. CASE child = "running" BY <2>1, <2>8, <3>2 DEF Lease!Exit
    <3> QED BY <2>8, <3>1, <3>2
  <2>9. ASSUME NEW p \in Procs, NEW result \in {"zero", "bad"}, CollectExit(p, result)
        PROVE  [Lease!Next]_(Lease!leaseVars)
    <3>1. child \in {"running", "exited"}
      BY <2>1, <2>9 DEF CollectExit, LeaseInv, ExitKnown, LaunchInv, TypeOK
    <3> QED BY <2>8, <2>9, <3>1 DEF CollectExit, leaseVars
  <2>10. CASE ChildExits
    BY <2>8, <2>10 DEF ChildExits, leaseVars
  <2>11. ASSUME NEW p \in Procs, Withdraw(p) \/ Release(p)
         PROVE  [Lease!Next]_(Lease!leaseVars)
    <3>1. child # "running" /\ (pc[p] = "release" => ~exposed)
      BY <2>1, <2>11 DEF Withdraw, Release, LeaseKnown, Revoking
    <3>2. CASE Withdraw(p) /\ lease = "held"
      BY <2>1, <3>1, <3>2 DEF Withdraw, Lease!Withdraw
    <3>3. CASE Withdraw(p) /\ lease # "held"
      BY <2>2, <3>3 DEF Withdraw
    <3>4. CASE Release(p)
      BY <2>1, <3>1, <3>4 DEF Release, Lease!Release
    <3> QED BY <2>11, <3>2, <3>3, <3>4
  <2>12. ASSUME NEW p \in Procs,
                Execute(p) \/ Adopt(p) \/ MarkStarted(p) \/ LaunchFails(p)
                  \/ Recover(p) \/ OutputStep(p) \/ Refuse(p) \/ CallFails(p) \/ Crash(p)
                  \/ RunAgain(p)
         PROVE  UNCHANGED <<lease, exposed, child>>
    BY <2>12 DEF Execute, Adopt, MarkStarted, LaunchFails, Recover, OutputStep,
       Validate, HashArtifacts, WindowPasses, Examine, Confirm, Complete, Publish, Refuse,
       CallFails, Crash, RunAgain, worldVars, leaseVars
  <2>13. CASE ChildTampers \/ Expire
                \/ (\E content \in Outputs \cup {"invalid"} : ChildWrites(content))
    BY <2>2, <2>13 DEF ChildTampers, ChildWrites, Expire, leaseVars
  <2>14. CASE UNCHANGED vars
    BY <2>2, <2>14 DEF vars, leaseVars
  <2> QED
    BY <2>2, <2>3, <2>4, <2>5, <2>6, <2>7, <2>9, <2>10, <2>11, <2>12, <2>13, <2>14
       DEF Next, ProcessStep, LaunchStep, RecoveryStep, ChildStep
<1> QED BY <1>2, <1>3

(* An invocation whose executions do not race for the launch uses the ACL  *)
(* lease as AclLease allows it: whatever else overlaps and dies, no launch *)
(* without it, no withdrawal from under the child.                         *)
THEOREM LeaseRespected == Spec => UsesLease
<1>1. Init => Lease!Init
  BY DEF Init, Lease!Init
<1> QED
  BY <1>1, LeaseInductive, LeaseSimulation, PTL DEF Spec, UsesLease, Lease!LeaseSpec

(***************************************************************************)
(* MarkerMatchesOutput.  A Builder's documents carry no time, so that all  *)
(* of them are the child's output.  A Commander's differ; there the one    *)
(* process that launched the child is alone up to its end, and adopters    *)
(* accept no other document than the published one.                        *)
(***************************************************************************)
Unstamped ==
  Role = "builder" =>
    /\ \A p \in Procs : pc[p] \in {"confirm", "complete", "publish"} => doc[p][2] = 0
    /\ published = "whole" => output[2] = 0
    /\ completed = "whole" => attested[2] = 0

(* The process that has made the start marker, until it is through. *)
Owner(p) ==
  /\ mode[p] = "execute"
  /\ \/ pc[p] \in {"launch", "wait"} \cup AtOutput
     \/ pc[p] \in AtRecovery /\ rc[p] # "jail"

Apart ==
  /\ \A p, q \in Procs : Busy(p) /\ Busy(q) => mode[p] = mode[q]
  /\ \A p \in Procs : Busy(p) => mode[p] \in {"execute", "adopt"}
  /\ \A p \in Procs :
       /\ pc[p] = "validate" => mode[p] = "execute"
       /\ pc[p] \in {"hash", "window", "examine", "confirm"} => mode[p] = "adopt"
  /\ \A p \in Procs : Busy(p) /\ mode[p] = "adopt" => started = "whole"
  /\ \A p \in Procs : Owner(p) => started = "whole"
  /\ \A p, q \in Procs : Owner(p) /\ Owner(q) => p = q

MarkHeld ==
  /\ \A p \in Procs : Owner(p) =>
       /\ published # "whole"
       /\ pc[p] # "publish" => completed # "whole"
       /\ pc[p] = "publish" => completed = "whole" /\ attested = doc[p]
  /\ \A p \in Procs : Busy(p) /\ mode[p] = "adopt" =>
       /\ completed = "whole" => published = "whole"
       /\ pc[p] = "complete" => published = "whole" /\ output = doc[p]
  /\ published = "whole" /\ completed = "whole" => attested = output

MarkInv ==
  /\ LeaseInv
  /\ Unstamped
  /\ {"execute", "adopt"} \notin setup.overlap => Apart /\ MarkHeld

LEMMA MarkInit == Init => MarkInv
<1> SUFFICES ASSUME Init PROVE MarkInv
  OBVIOUS
<1>1. /\ \A p \in Procs : pc[p] = "idle"
      /\ published = "absent" /\ completed = "absent"
  BY DEF Init
<1> QED
  BY <1>1, LeaseInit DEF MarkInv, Unstamped, Apart, MarkHeld, Owner, Busy, AtOutput, AtRecovery,
     Ended

LEMMA UnstampedNext == MarkInv /\ [Next]_vars => Unstamped'
<1> SUFFICES ASSUME MarkInv, [Next]_vars PROVE Unstamped'
  OBVIOUS
<1>1. /\ LeaseInv /\ EvidenceInv /\ LaunchInv /\ ExitKnown /\ EvidenceHeld /\ TypeOK
      /\ pc \in [Procs -> Pcs] /\ rc \in [Procs -> {"none", "jail", "zero", "bad"}]
      /\ mode \in [Procs -> {"none", "execute", "adopt"}]
      /\ doc \in [Procs -> Docs \cup {NoDoc}]
  BY DEF MarkInv, LeaseInv, EvidenceInv, LaunchInv, TypeOK
<1>2. Unstamped BY DEF MarkInv
<1> USE <1>1, <1>2 DEF Unstamped, Role, Goto, worldVars, markVars, outVars
<1>3. ASSUME NEW p \in Procs, Execute(p) \/ Adopt(p) PROVE Unstamped'
  BY <1>3 DEF Execute, Adopt
<1>4. ASSUME NEW p \in Procs, LaunchStep(p) \/ RecoveryStep(p) PROVE Unstamped'
  <2>1. /\ AfterRecovery(p, rc[p]) \in {"hash", "validate", "failed"}
        /\ AfterRevocation(p) \in {"recover", "hash", "validate", "failed"}
        /\ \A result \in {"zero", "bad"} :
             AfterExit(p, result) \in {"withdraw", "hash", "validate", "failed"}
    BY RecoveryLeads, RevocationLeads DEF AfterExit
  <2> QED
    BY <1>4, <2>1 DEF LaunchStep, RecoveryStep, BeginStaging, GrantAccess, FinishStaging,
       VerifyJail, MarkStarted, Launch, LaunchFails, CollectExit, Withdraw, Release, Recover
<1>5. ASSUME NEW p \in Procs, OutputStep(p) PROVE Unstamped'
  <2>1. CASE Validate(p) \/ Examine(p)
    BY <2>1 DEF Validate, Examine, ValidateOutput, Stamp
  <2>2. CASE HashArtifacts(p) \/ WindowPasses(p) \/ Confirm(p)
    BY <2>2 DEF HashArtifacts, WindowPasses, Confirm
  <2>3. CASE Complete(p) BY <2>3 DEF Complete
  <2>4. CASE Publish(p) BY <2>4 DEF Publish
  <2> QED BY <1>5, <2>1, <2>2, <2>3, <2>4 DEF OutputStep
<1>6. ASSUME NEW p \in Procs, Refuse(p) \/ CallFails(p) \/ Crash(p) \/ RunAgain(p)
      PROVE  Unstamped'
  BY <1>6 DEF Refuse, CallFails, Crash, RunAgain
<1>7. ASSUME ChildStep \/ Expire \/ UNCHANGED vars PROVE Unstamped'
  BY <1>7 DEF Expire, ChildStep, ChildTampers, ChildExits, ChildWrites, procVars, vars
<1> QED
  BY <1>3, <1>4, <1>5, <1>6, <1>7 DEF Next, ProcessStep

LEMMA ApartNext ==
  MarkInv /\ {"execute", "adopt"} \notin setup.overlap /\ [Next]_vars => Apart'
<1> SUFFICES ASSUME MarkInv, {"execute", "adopt"} \notin setup.overlap, [Next]_vars
             PROVE  Apart'
  OBVIOUS
<1>1. /\ LeaseInv /\ EvidenceInv /\ LaunchInv /\ ExitKnown /\ EvidenceHeld /\ TypeOK
      /\ pc \in [Procs -> Pcs] /\ rc \in [Procs -> {"none", "jail", "zero", "bad"}]
      /\ mode \in [Procs -> {"none", "execute", "adopt"}]
      /\ doc \in [Procs -> Docs \cup {NoDoc}]
  BY DEF MarkInv, LeaseInv, EvidenceInv, LaunchInv, TypeOK
<1>2. Apart /\ MarkHeld BY DEF MarkInv
<1> USE <1>1, <1>2 DEF Apart, MarkHeld, Owner, Busy, Ended, AtOutput, AtRecovery, Goto, worldVars,
       markVars, outVars
<1>3. ASSUME NEW p \in Procs, Execute(p) \/ Adopt(p) PROVE Apart'
  <2>1. CASE Execute(p)
    BY <2>1 DEF Execute, Joins
  <2>2. CASE Adopt(p)
    <3>1. {"adopt", "execute"} = {"execute", "adopt"} OBVIOUS
    <3> QED BY <2>2, <3>1 DEF Adopt, Joins
  <2> QED BY <1>3, <2>1, <2>2
<1>4. ASSUME NEW p \in Procs, LaunchStep(p) PROVE Apart'
  <2>1. /\ mode[p] = "execute"
        /\ \A result \in {"zero", "bad"} :
             AfterExit(p, result) \in {"withdraw", "validate", "failed"}
    BY <1>4 DEF LaunchStep, BeginStaging, GrantAccess, FinishStaging, VerifyJail, MarkStarted,
       Launch, LaunchFails, CollectExit, ExitKnown, AtLaunch, AfterExit, AfterRecovery
  <2>2. CASE BeginStaging(p) \/ GrantAccess(p) \/ FinishStaging(p) \/ VerifyJail(p)
    BY <2>1, <2>2 DEF BeginStaging, GrantAccess, FinishStaging, VerifyJail
  <2>3. CASE MarkStarted(p)
    <3>1. published # "whole" /\ completed # "whole"
      BY <2>3 DEF MarkStarted, EvidenceHeld, ExitKnown, LaunchInv
    <3> QED BY <2>1, <2>3, <3>1 DEF MarkStarted
  <2>4. CASE Launch(p) BY <2>1, <2>4 DEF Launch
  <2>5. CASE LaunchFails(p) BY <2>1, <2>5 DEF LaunchFails
  <2>6. ASSUME NEW result \in {"zero", "bad"}, CollectExit(p, result) PROVE Apart'
    BY <2>1, <2>6 DEF CollectExit
  <2> QED BY <1>4, <2>2, <2>3, <2>4, <2>5, <2>6 DEF LaunchStep
<1>5. ASSUME NEW p \in Procs, RecoveryStep(p) PROVE Apart'
  <2>1. /\ AfterRecovery(p, rc[p]) \in {"hash", "validate", "failed"}
        /\ AfterRevocation(p) \in {"recover", "hash", "validate", "failed"}
        /\ rc[p] = "jail" => AfterRevocation(p) = "failed"
        /\ rc[p] = "jail" /\ mode[p] # "adopt" => AfterRecovery(p, rc[p]) = "failed"
        /\ mode[p] = "adopt" => /\ AfterRecovery(p, rc[p]) # "validate"
                                /\ AfterRevocation(p) # "validate"
        /\ mode[p] # "adopt" => /\ AfterRecovery(p, rc[p]) # "hash"
                                /\ AfterRevocation(p) # "hash"
    BY RecoveryLeads, RevocationLeads DEF AfterRevocation, AfterRecovery
  <2> QED
    BY <1>5, <2>1 DEF RecoveryStep, Withdraw, Release, Recover
<1>6. ASSUME NEW p \in Procs, OutputStep(p) PROVE Apart'
  <2>1. CASE Validate(p) \/ Examine(p)
    BY <2>1 DEF Validate, Examine, ValidateOutput
  <2>2. CASE HashArtifacts(p) \/ WindowPasses(p) \/ Confirm(p)
    BY <2>2 DEF HashArtifacts, WindowPasses, Confirm
  <2>3. CASE Complete(p) BY <2>3 DEF Complete
  <2>4. CASE Publish(p) BY <2>4 DEF Publish
  <2> QED BY <1>6, <2>1, <2>2, <2>3, <2>4 DEF OutputStep
<1>7. ASSUME NEW p \in Procs, Refuse(p) \/ CallFails(p) \/ Crash(p) \/ RunAgain(p)
      PROVE  Apart'
  <2>1. CASE Crash(p) BY <2>1 DEF Crash
  <2>2. CASE Refuse(p) \/ CallFails(p) \/ RunAgain(p)
    BY <2>2 DEF Refuse, CallFails, RunAgain
  <2> QED BY <1>7, <2>1, <2>2
<1>8. ASSUME ChildStep \/ Expire \/ UNCHANGED vars PROVE Apart'
  BY <1>8 DEF Expire, ChildStep, ChildTampers, ChildExits, ChildWrites, procVars, vars
<1> QED
  BY <1>3, <1>4, <1>5, <1>6, <1>7, <1>8 DEF Next, ProcessStep

LEMMA MarkHeldNext ==
  MarkInv /\ {"execute", "adopt"} \notin setup.overlap /\ [Next]_vars => MarkHeld'
<1> SUFFICES ASSUME MarkInv, {"execute", "adopt"} \notin setup.overlap, [Next]_vars
             PROVE  MarkHeld'
  OBVIOUS
<1>1. /\ LeaseInv /\ EvidenceInv /\ LaunchInv /\ ExitKnown /\ EvidenceHeld /\ TypeOK
      /\ pc \in [Procs -> Pcs] /\ rc \in [Procs -> {"none", "jail", "zero", "bad"}]
      /\ mode \in [Procs -> {"none", "execute", "adopt"}]
      /\ doc \in [Procs -> Docs \cup {NoDoc}]
  BY DEF MarkInv, LeaseInv, EvidenceInv, LaunchInv, TypeOK
<1>2. Apart /\ MarkHeld BY DEF MarkInv
<1> USE <1>1, <1>2 DEF Apart, MarkHeld, Owner, Busy, Ended, AtOutput, AtRecovery, Goto, worldVars,
       markVars, outVars
<1>3. ASSUME NEW p \in Procs, Execute(p) \/ Adopt(p) PROVE MarkHeld'
  <2>1. CASE Execute(p)
    BY <2>1 DEF Execute, Joins
  <2>2. CASE Adopt(p)
    <3>1. {"adopt", "execute"} = {"execute", "adopt"} OBVIOUS
    <3> QED BY <2>2, <3>1 DEF Adopt, Joins
  <2> QED BY <1>3, <2>1, <2>2
<1>4. ASSUME NEW p \in Procs, LaunchStep(p) PROVE MarkHeld'
  <2>1. /\ mode[p] = "execute"
        /\ \A result \in {"zero", "bad"} :
             AfterExit(p, result) \in {"withdraw", "validate", "failed"}
    BY <1>4 DEF LaunchStep, BeginStaging, GrantAccess, FinishStaging, VerifyJail, MarkStarted,
       Launch, LaunchFails, CollectExit, ExitKnown, AtLaunch, AfterExit, AfterRecovery
  <2>2. CASE BeginStaging(p) \/ GrantAccess(p) \/ FinishStaging(p) \/ VerifyJail(p)
    BY <2>1, <2>2 DEF BeginStaging, GrantAccess, FinishStaging, VerifyJail
  <2>3. CASE MarkStarted(p)
    <3>1. published # "whole" /\ completed # "whole"
      BY <2>3 DEF MarkStarted, EvidenceHeld, ExitKnown, LaunchInv
    <3> QED BY <2>1, <2>3, <3>1 DEF MarkStarted
  <2>4. CASE Launch(p) BY <2>1, <2>4 DEF Launch
  <2>5. CASE LaunchFails(p) BY <2>1, <2>5 DEF LaunchFails
  <2>6. ASSUME NEW result \in {"zero", "bad"}, CollectExit(p, result) PROVE MarkHeld'
    BY <2>1, <2>6 DEF CollectExit
  <2> QED BY <1>4, <2>2, <2>3, <2>4, <2>5, <2>6 DEF LaunchStep
<1>5. ASSUME NEW p \in Procs, RecoveryStep(p) PROVE MarkHeld'
  <2>1. /\ AfterRecovery(p, rc[p]) \in {"hash", "validate", "failed"}
        /\ AfterRevocation(p) \in {"recover", "hash", "validate", "failed"}
        /\ rc[p] = "jail" => AfterRevocation(p) = "failed"
        /\ rc[p] = "jail" /\ mode[p] # "adopt" => AfterRecovery(p, rc[p]) = "failed"
        /\ mode[p] = "adopt" => /\ AfterRecovery(p, rc[p]) # "validate"
                                /\ AfterRevocation(p) # "validate"
        /\ mode[p] # "adopt" => /\ AfterRecovery(p, rc[p]) # "hash"
                                /\ AfterRevocation(p) # "hash"
    BY RecoveryLeads, RevocationLeads DEF AfterRevocation, AfterRecovery
  <2> QED
    BY <1>5, <2>1 DEF RecoveryStep, Withdraw, Release, Recover
<1>6. ASSUME NEW p \in Procs, OutputStep(p) PROVE MarkHeld'
  <2>1. CASE Validate(p) \/ Examine(p)
    BY <2>1 DEF Validate, Examine, ValidateOutput
  <2>2. CASE HashArtifacts(p) \/ WindowPasses(p) \/ Confirm(p)
    BY <2>2 DEF HashArtifacts, WindowPasses, Confirm
  <2>3. CASE Complete(p) BY <2>3 DEF Complete
  <2>4. CASE Publish(p) BY <2>4 DEF Publish
  <2> QED BY <1>6, <2>1, <2>2, <2>3, <2>4 DEF OutputStep
<1>7. ASSUME NEW p \in Procs, Refuse(p) \/ CallFails(p) \/ Crash(p) \/ RunAgain(p)
      PROVE  MarkHeld'
  <2>1. CASE Crash(p) BY <2>1 DEF Crash
  <2>2. CASE Refuse(p) \/ CallFails(p) \/ RunAgain(p)
    BY <2>2 DEF Refuse, CallFails, RunAgain
  <2> QED BY <1>7, <2>1, <2>2
<1>8. ASSUME ChildStep \/ Expire \/ UNCHANGED vars PROVE MarkHeld'
  BY <1>8 DEF Expire, ChildStep, ChildTampers, ChildExits, ChildWrites, procVars, vars
<1> QED
  BY <1>3, <1>4, <1>5, <1>6, <1>7, <1>8 DEF Next, ProcessStep

LEMMA MarkInvNext == MarkInv /\ [Next]_vars => MarkInv'
<1> SUFFICES ASSUME MarkInv, [Next]_vars PROVE MarkInv'
  OBVIOUS
<1>1. LeaseInv' /\ Unstamped'
  BY LeaseInvNext, UnstampedNext DEF MarkInv
<1>2. setup' = setup
  BY SetupStays
<1> QED
  BY <1>1, <1>2, ApartNext, MarkHeldNext DEF MarkInv

(* The marker attests the published document, for any number of commands,  *)
(* crashes and adoptions, as far as the program can promise it at all.     *)
THEOREM MarkersAgree == Spec => []MarkerMatchesOutput
<1>1. MarkInv => MarkerMatchesOutput
  <2> SUFFICES ASSUME MarkInv, Role = "builder" \/ {"execute", "adopt"} \notin setup.overlap,
                      published = "whole", completed = "whole"
               PROVE  attested = output
    BY DEF MarkerMatchesOutput
  <2>1. CASE Role = "builder"
    <3>1. /\ attested[1] = modelOutput /\ output[1] = modelOutput
          /\ attested[2] = 0 /\ output[2] = 0
      BY <2>1 DEF MarkInv, LeaseInv, EvidenceInv, EvidenceHeld, IsChildOutput, Unstamped
    <3>2. attested \in Docs \cup {NoDoc} /\ output \in Docs \cup {NoDoc}
      BY DEF MarkInv, LeaseInv, EvidenceInv, LaunchInv, TypeOK
    <3>3. \A d \in Docs \cup {NoDoc} : d = <<d[1], d[2]>>
      BY DEF Docs, NoDoc
    <3> QED
      BY <3>1, <3>2, <3>3
  <2>2. CASE {"execute", "adopt"} \notin setup.overlap
    BY <2>2 DEF MarkInv, MarkHeld
  <2> QED
    BY <2>1, <2>2
<1> QED
  BY <1>1, MarkInit, MarkInvNext, PTL DEF Spec

(***************************************************************************)
(* What the lease alone is worth: proved of the abstract specification, so *)
(* that it holds of everything that implements it.                         *)
(***************************************************************************)
LeaseWhole == Lease!LeaseTypeOK /\ Lease!Contained

(* No path is open to the sandbox principal and no Codex child runs        *)
(* outside a lease: the promise of stage_native_invocation_acl and         *)
(* revoke_native_invocation_acl to execute_invocation.                     *)
THEOREM LeaseContains == Lease!LeaseSpec => []Lease!Contained
<1> USE DEF LeaseWhole, Lease!LeaseTypeOK, Lease!Contained
<1>1. Lease!Init => LeaseWhole
  BY DEF Lease!Init
<1>2. LeaseWhole /\ [Lease!Next]_(Lease!leaseVars) => LeaseWhole'
  <2> SUFFICES ASSUME LeaseWhole, [Lease!Next]_(Lease!leaseVars) PROVE LeaseWhole'
    OBVIOUS
  <2>1. CASE Lease!Begin BY <2>1 DEF Lease!Begin
  <2>2. CASE Lease!Expose BY <2>2 DEF Lease!Expose
  <2>3. CASE Lease!Hold BY <2>3 DEF Lease!Hold
  <2>4. CASE Lease!Launch BY <2>4 DEF Lease!Launch
  <2>5. CASE Lease!Exit BY <2>5 DEF Lease!Exit
  <2>6. CASE Lease!Withdraw BY <2>6 DEF Lease!Withdraw
  <2>7. CASE Lease!Release BY <2>7 DEF Lease!Release
  <2>8. CASE UNCHANGED Lease!leaseVars BY <2>8 DEF Lease!leaseVars
  <2> QED BY <2>1, <2>2, <2>3, <2>4, <2>5, <2>6, <2>7, <2>8 DEF Lease!Next
<1>3. LeaseWhole => Lease!Contained
  OBVIOUS
<1> QED BY <1>1, <1>2, <1>3, PTL DEF Lease!LeaseSpec
=============================================================================
