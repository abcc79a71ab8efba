-------------------------- MODULE NativeAcl_proofs --------------------------
(***************************************************************************)
(* Theorems about NativeAcl for any number of processes, epochs, paths and *)
(* faults.  Types, the event history and the lease of a running child are  *)
(* proved whatever overlaps; the refinement to AclLease and what it rests  *)
(* on for executions that do not overlap up to the launch.                 *)
(***************************************************************************)
EXTENDS NativeAcl, WellFoundedInduction, TLAPS

(***************************************************************************)
(* Type correctness.                                                       *)
(***************************************************************************)
LEMMA PathSets ==
  /\ Tree \subseteq Path /\ Outer \subseteq Path
  /\ Traverse \subseteq Path /\ Writable \subseteq Tree
  /\ ".research" \in Path /\ {"work_root", ".research"} \subseteq Tree
  /\ ".runtime" \in Tree /\ "tmp" \in Tree /\ "probe" \in Tree
  /\ Candidate \subseteq Tree /\ Scratch \subseteq Tree
  BY DEF Path, Tree, Traverse, Writable

(* A process that works on an epoch has one.                               *)
AtEpoch == (StagePcs \ {"runtime", "quarantine", "mkruntime", "fillruntime",
                        "preflight", "ledger"})
             \cup (RevokePcs \ {"revoke"})

TypeInv == TypeOK /\ \A p \in Procs : pc[p] \in AtEpoch => epoch[p] # 0

LEMMA InitTyped == Init => TypeInv
<1> SUFFICES ASSUME Init PROVE TypeInv
  OBVIOUS
<1> USE PathsAssumption DEF PathsAssumption, Init, File, Epochs
<1>1. pc \in [Procs -> Pcs]
  BY DEF Pcs
<1>2. exists \in SUBSET Tree
  BY PathSets
<1>3. acl \in [Path -> SUBSET Principal]
  BY DEF Principal
<1>4. /\ DOMAIN baseline = Epochs
      /\ \A e \in Epochs : DOMAIN baseline[e] = {}
  BY DEF Unsaved
<1>5. /\ epoch \in [Procs -> 0 .. MaxEpoch + 1]
      /\ todo \in [Procs -> SUBSET Path]
      /\ verified \in [Epochs -> File]
      /\ planned \in [Epochs -> File]
      /\ staged \in [Epochs -> File]
      /\ revoked \in [Epochs -> File]
  OBVIOUS
<1>6. \A p \in Procs : pc[p] \notin AtEpoch
  BY DEF AtEpoch, StagePcs, RevokePcs
<1> QED BY <1>1, <1>2, <1>3, <1>4, <1>5, <1>6 DEF TypeOK, TypeInv

(* The epoch number a stager takes is one past every recorded one.         *)
LEMMA LastRecordedIs ==
  ASSUME TypeOK
  PROVE  /\ LastRecorded \in 0 .. MaxEpoch + 1
         /\ \A f \in Epochs : Recorded(f) => f <= LastRecorded
         /\ LastRecorded # 0 => LastRecorded \in Epochs /\ Recorded(LastRecorded)
<1> USE PathsAssumption DEF PathsAssumption, Epochs
<1>1. CASE ~ \E e \in Epochs : Recorded(e)
  BY <1>1 DEF LastRecorded
<1>2. CASE \E e \in Epochs : Recorded(e)
  <2> DEFINE Above == {MaxEpoch + 1 - e : e \in {f \in Epochs : Recorded(f)}}
  <2>1. Above \subseteq Nat /\ Above # {}
    BY <1>2
  <2>2. PICK x \in Above : \A y \in Above : ~ (<<y, x>> \in OpToRel(<, Nat))
    BY <2>1, NatLessThanWellFounded, WFMin
  <2>3. \A y \in Above : x <= y
    <3> TAKE y \in Above
    <3>1. x \in Nat /\ y \in Nat BY <2>1
    <3>2. ~ (y < x) BY <2>2, <3>1 DEF OpToRel
    <3> QED BY <3>1, <3>2
  <2>4. PICK e \in Epochs : Recorded(e) /\ x = MaxEpoch + 1 - e
    OBVIOUS
  <2>5. \A f \in Epochs : Recorded(f) => f <= e
    <3> TAKE f \in Epochs
    <3> HAVE Recorded(f)
    <3>1. MaxEpoch + 1 - f \in Above OBVIOUS
    <3>2. x <= MaxEpoch + 1 - f BY <2>3, <3>1
    <3> QED BY <2>4, <3>2
  <2>6. /\ LastRecorded \in Epochs /\ Recorded(LastRecorded)
        /\ \A f \in Epochs : Recorded(f) => f <= LastRecorded
    BY <1>2, <2>4, <2>5 DEF LastRecorded
  <2> QED BY <2>6
<1> QED BY <1>1, <1>2

LEMMA GroupTyped ==
  ASSUME NEW group \in {"traverse", "research", "host", "modify"}
  PROVE  /\ GroupAfter(group) \in AtEpoch \cap StagePcs
         /\ GroupPaths(GroupAfter(group)) \in SUBSET Path
         /\ {Grantee(group)} \in SUBSET Principal
  BY PathSets DEF GroupAfter, GroupPaths, Grantee, Principal, AtEpoch, StagePcs,
     RevokePcs, Path

(* Whatever a killed icacls leaves of a verification snapshot is a file.   *)
LEMMA SaveTyped ==
  ASSUME TypeOK, NEW p \in Procs, SaveBreaksOff(p)
  PROVE  verified' \in [Epochs -> File]
  BY DEF TypeOK, SaveBreaksOff, File

LEMMA NextTyped == TypeInv /\ [Next]_vars => TypeInv'
<1> SUFFICES ASSUME TypeInv, [Next]_vars PROVE TypeInv'
  OBVIOUS
<1> USE PathsAssumption, PathSets
    DEF TypeInv, TypeOK, Pcs, AtEpoch, StagePcs, JailPcs, RevokePcs, Ended, File,
        Goto, treeVars, ledgerVars, runVars, procVars
<1>1. ASSUME NEW p \in Procs, Execute(p) \/ Adopt(p) PROVE TypeInv'
  BY <1>1 DEF Execute, Adopt
<1>2. ASSUME NEW p \in Procs, StageStep(p) PROVE TypeInv'
  <2>1. CASE CheckRuntime(p) BY <2>1 DEF CheckRuntime
  <2>2. CASE QuarantineRuntime(p)
    <3>1. acl' \in [Path -> SUBSET Principal] BY <2>2 DEF QuarantineRuntime
    <3> QED BY <2>2, <3>1 DEF QuarantineRuntime
  <2>3. CASE MakeRuntime(p) BY <2>3 DEF MakeRuntime
  <2>4. CASE FillRuntime(p) BY <2>4 DEF FillRuntime
  <2>5. CASE ReadLedger(p)
    <3>1. LastRecorded # MaxEpoch + 1
      BY <2>5, LastRecordedIs DEF ReadLedger, StageAllowed, Unreadable
    <3>2. LastRecorded + 1 \in (0 .. MaxEpoch + 1) \ {0}
      BY <3>1, LastRecordedIs
    <3> QED BY <2>5, <3>2 DEF ReadLedger
  <2>6. CASE MakeEpoch(p)
    <3>1. epoch[p] \in 0 .. MaxEpoch + 1 /\ epoch[p] # 0 BY <2>6 DEF MakeEpoch
    <3>2. epoch[p] \in Epochs BY ONLY <3>1 DEF Epochs
    <3> QED BY <2>6, <3>2 DEF MakeEpoch
  <2>7. CASE SaveBaseline(p)
    <3>1. /\ DOMAIN Snapshot = exists
          /\ \A path \in exists : Snapshot[path] \in SUBSET Principal
      BY DEF Snapshot, Path
    <3>2. /\ DOMAIN baseline' = Epochs
          /\ \A e \in Epochs : \A path \in DOMAIN baseline'[e] :
               path \in Tree /\ baseline'[e][path] \in SUBSET Principal
      BY <2>7, <3>1 DEF SaveBaseline
    <3> QED BY <2>7, <3>2 DEF SaveBaseline
  <2>8. CASE WritePlan(p) BY <2>8 DEF WritePlan
  <2>9. ASSUME NEW path \in Path, Grant(p, path) PROVE TypeInv'
    <3>1. acl' \in [Path -> SUBSET Principal]
      BY <2>9, GroupTyped DEF Grant
    <3>2. CASE todo[p] = {path}
      BY <2>9, <3>1, <3>2, GroupTyped DEF Grant
    <3>3. CASE todo[p] # {path}
      BY <2>9, <3>1, <3>3 DEF Grant
    <3> HIDE DEF TypeInv
    <3> QED BY <3>2, <3>3
  <2>10. CASE WriteStaged(p) BY <2>10 DEF WriteStaged
  <2>11. CASE QuarantineReport(p) BY <2>11 DEF QuarantineReport, ReportGone
  <2> HIDE DEF TypeInv
  <2> QED BY <1>2, <2>1, <2>2, <2>3, <2>4, <2>5, <2>6, <2>7, <2>8, <2>9, <2>10,
              <2>11
          DEF StageStep
<1>3. ASSUME NEW p \in Procs, LaunchStep(p) PROVE TypeInv'
  <2>1. CASE OpenProbe(p)
    <3>1. acl' \in [Path -> SUBSET Principal] BY <2>1 DEF OpenProbe, Principal
    <3> QED BY <2>1, <3>1 DEF OpenProbe
  <2>2. CASE CloseProbe(p) BY <2>2 DEF CloseProbe
  <2>3. CASE MarkStarted(p) BY <2>3 DEF MarkStarted
  <2>4. CASE Launch(p) BY <2>4 DEF Launch
  <2>5. CASE CollectExit(p) BY <2>5 DEF CollectExit
  <2>6. CASE RecheckReport(p)
    BY <2>6, SMTT(20) DEF RecheckReport, ReportGone, ReportStays
  <2>7. CASE WriteReport(p) BY <2>7 DEF WriteReport
  <2> HIDE DEF TypeInv
  <2> QED BY <1>3, <2>1, <2>2, <2>3, <2>4, <2>5, <2>6, <2>7 DEF LaunchStep
<1>4. ASSUME NEW p \in Procs, RevokeStep(p) PROVE TypeInv'
  <2>1. CASE BeginRevoke(p)
    <3>1. CASE ActiveEpochs = {} BY <2>1, <3>1 DEF BeginRevoke
    <3>2. CASE ActiveEpochs # {}
      <4>1. (CHOOSE e \in Epochs : Active(e)) \in (0 .. MaxEpoch + 1) \ {0}
        BY <3>2 DEF ActiveEpochs, Epochs, PathsAssumption
      <4>2. PICK e \in (0 .. MaxEpoch + 1) \ {0} :
              epoch' = [epoch EXCEPT ![p] = e]
        BY <2>1, <3>2, <4>1 DEF BeginRevoke
      <4>3. Writable \in SUBSET Path
        BY DEF Path
      <4> QED BY <2>1, <3>2, <4>2, <4>3 DEF BeginRevoke
    <3> HIDE DEF TypeInv
    <3> QED BY <3>1, <3>2
  <2>2. ASSUME NEW path \in Path, Regrant(p, path) PROVE TypeInv'
    <3>1. acl' \in [Path -> SUBSET Principal] BY <2>2 DEF Regrant, Principal
    <3> QED BY <2>2, <3>1 DEF Regrant
  <2>3. ASSUME NEW path \in Path, RemoveGrant(p, path) PROVE TypeInv'
    BY <2>3 DEF RemoveGrant
  <2>4. CASE ResetTree(p) BY <2>4 DEF ResetTree
  <2>5. CASE RestoreBaseline(p)
    <3>1. epoch[p] \in Epochs
      BY <2>5 DEF RestoreBaseline, Epochs, PathsAssumption
    <3>2. acl' \in [Path -> SUBSET Principal]
      BY <2>5, <3>1 DEF RestoreBaseline
    <3> QED BY <2>5, <3>2 DEF RestoreBaseline
  <2>6. CASE DropVerification(p) BY <2>6 DEF DropVerification
  <2>7. CASE VerifyTree(p)
    <3>1. epoch[p] \in Epochs BY <2>7 DEF VerifyTree, Epochs, PathsAssumption
    <3> QED BY <2>7, <3>1 DEF VerifyTree
  <2>8. CASE WriteRevoked(p) BY <2>8 DEF WriteRevoked
  <2> HIDE DEF TypeInv
  <2> QED BY <1>4, <2>1, <2>2, <2>3, <2>4, <2>5, <2>6, <2>7, <2>8 DEF RevokeStep
<1>5. ASSUME NEW p \in Procs, Refuse(p) \/ RunAgain(p) PROVE TypeInv'
  BY <1>5 DEF Refuse, RunAgain
<1>6. ASSUME NEW p \in Procs, CommandFails(p) PROVE TypeInv'
  BY <1>6, SaveTyped DEF CommandFails
<1>7. ASSUME NEW p \in Procs, Crash(p) PROVE TypeInv'
  BY <1>7, SaveTyped DEF Crash
<1>8. CASE ChildExits BY <1>8 DEF ChildExits
<1>9. ASSUME NEW path \in Tree, ChildCreates(path) PROVE TypeInv'
  <2>1. acl' \in [Path -> SUBSET Principal] BY <1>9 DEF ChildCreates, Principal
  <2> QED BY <1>9, <2>1 DEF ChildCreates
<1>10. ASSUME NEW path \in Tree, ChildRemoves(path) PROVE TypeInv'
  BY <1>10 DEF ChildRemoves
<1>11. CASE UNCHANGED vars BY <1>11 DEF vars
<1> HIDE DEF TypeInv
<1> QED
  BY <1>1, <1>2, <1>3, <1>4, <1>5, <1>6, <1>7, <1>8, <1>9, <1>10, <1>11
  DEF Next, ProcessStep, ChildStep

(* Every variable keeps its type, in all runs of the program.              *)
THEOREM TypeCorrect == Spec => []TypeOK
<1>1. TypeInv => TypeOK
  BY DEF TypeInv
<1> QED BY <1>1, InitTyped, NextTyped, PTL DEF Spec

(***************************************************************************)
(* HistorySound.  The strengthening says why the epoch directory is enough *)
(* to keep concurrent stagers apart: everything below an existing          *)
(* directory, and below the number a stager has read, is closed for good.  *)
(***************************************************************************)
Closed(e) == planned[e] # "absent" /\ revoked[e] # "absent"

AtOwn    == {"baseline", "plan"}
AtGrant  == {"traverse", "research", "host", "modify", "staged"}
AtRevoke == RevokePcs \ {"revoke"}

Chained ==
  \A e \in Epochs : /\ staged[e] # "absent" => planned[e] # "absent"
                    /\ revoked[e] # "absent" => staged[e] # "absent"

AllBelowClosed ==
  /\ \A e \in Epochs : planned[e] # "absent" => e \in dirs
  /\ \A d \in dirs, f \in Epochs : f < d => Closed(f)

StagersKnow ==
  \A p \in Procs :
    /\ pc[p] = "mkepoch" => \A f \in Epochs : f < epoch[p] => Closed(f)
    /\ pc[p] \in AtOwn => epoch[p] \in dirs
    /\ pc[p] \in AtGrant => planned[epoch[p]] # "absent"
    /\ pc[p] \in AtRevoke => staged[epoch[p]] # "absent"

HistoryInv == TypeInv /\ Chained /\ AllBelowClosed /\ StagersKnow

LEMMA HistoryImplies == HistoryInv => HistorySound
<1> SUFFICES ASSUME HistoryInv PROVE HistorySound
  OBVIOUS
<1>1. ASSUME NEW e \in Epochs PROVE ~Malformed(e)
  BY DEF HistoryInv, Chained, Malformed, Recorded
<1>2. ASSUME NEW e \in Epochs, NEW f \in Epochs, Open(e), Recorded(f)
      PROVE f <= e
  <2>1. planned[f] # "absent" /\ f \in dirs
    BY <1>2 DEF HistoryInv, Chained, AllBelowClosed, Recorded
  <2>2. e < f => Closed(e)
    BY <2>1 DEF HistoryInv, AllBelowClosed
  <2> QED BY <1>2, <2>2, PathsAssumption
          DEF Closed, Open, Epochs, PathsAssumption
<1> QED BY <1>1, <1>2 DEF HistorySound

LEMMA HistoryInit == Init => HistoryInv
<1> SUFFICES ASSUME Init PROVE HistoryInv
  OBVIOUS
<1>1. \A p \in Procs : pc[p] = "idle"
  BY DEF Init
<1>2. dirs = {} /\ \A e \in Epochs : /\ planned[e] = "absent"
                                     /\ staged[e] = "absent"
                                     /\ revoked[e] = "absent"
  BY DEF Init
<1> QED BY <1>1, <1>2, InitTyped
        DEF HistoryInv, Chained, AllBelowClosed, StagersKnow, AtOwn, AtGrant,
            AtRevoke, RevokePcs

(* A step that leaves the ledger and the epochs alone, and takes nobody to *)
(* a place it was not allowed at before.                                   *)
LEMMA HistoryQuiet ==
  ASSUME HistoryInv, TypeInv',
         UNCHANGED <<epoch, dirs, planned, staged, revoked>>,
         \A p \in Procs :
           \/ pc'[p] = pc[p]
           \/ pc'[p] \notin {"mkepoch"} \cup AtOwn \cup AtGrant \cup AtRevoke
           \/ {pc[p], pc'[p]} \subseteq AtOwn
           \/ {pc[p], pc'[p]} \subseteq AtGrant
           \/ {pc[p], pc'[p]} \subseteq AtRevoke
  PROVE  HistoryInv'
<1>1. Chained' /\ AllBelowClosed'
  BY DEF HistoryInv, Chained, AllBelowClosed, Closed
<1>2. ASSUME NEW p \in Procs
      PROVE  /\ pc'[p] = "mkepoch" => \A f \in Epochs : f < epoch[p] => Closed(f)
             /\ pc'[p] \in AtOwn => epoch[p] \in dirs
             /\ pc'[p] \in AtGrant => planned[epoch[p]] # "absent"
             /\ pc'[p] \in AtRevoke => staged[epoch[p]] # "absent"
  <2>1. /\ pc[p] = "mkepoch" => \A f \in Epochs : f < epoch[p] => Closed(f)
        /\ pc[p] \in AtOwn => epoch[p] \in dirs
        /\ pc[p] \in AtGrant => planned[epoch[p]] # "absent"
        /\ pc[p] \in AtRevoke => staged[epoch[p]] # "absent"
    BY DEF HistoryInv, StagersKnow
  <2> QED BY <2>1 DEF AtOwn, AtGrant, AtRevoke, RevokePcs
<1>3. StagersKnow'
  BY <1>2 DEF StagersKnow, Closed
<1> QED BY <1>1, <1>3 DEF HistoryInv

LEMMA HistoryNext == HistoryInv /\ [Next]_vars => HistoryInv'
<1> SUFFICES ASSUME HistoryInv, [Next]_vars PROVE HistoryInv'
  OBVIOUS
<1>1. /\ TypeInv' /\ TypeInv /\ TypeOK
      /\ Chained /\ AllBelowClosed /\ StagersKnow
  BY NextTyped DEF HistoryInv, TypeInv
<1>2. /\ pc \in [Procs -> Pcs] /\ epoch \in [Procs -> 0 .. MaxEpoch + 1]
      /\ planned \in [Epochs -> File] /\ staged \in [Epochs -> File]
      /\ revoked \in [Epochs -> File] /\ dirs \in SUBSET Epochs
      /\ \A p \in Procs : pc[p] \in AtEpoch => epoch[p] \in Epochs
      /\ Epochs \subseteq Nat
  BY <1>1, PathsAssumption DEF TypeInv, TypeOK, Epochs, PathsAssumption
<1> DEFINE Quiet ==
      /\ UNCHANGED <<epoch, dirs, planned, staged, revoked>>
      /\ \A p \in Procs :
           \/ pc'[p] = pc[p]
           \/ pc'[p] \notin {"mkepoch"} \cup AtOwn \cup AtGrant \cup AtRevoke
           \/ {pc[p], pc'[p]} \subseteq AtOwn
           \/ {pc[p], pc'[p]} \subseteq AtGrant
           \/ {pc[p], pc'[p]} \subseteq AtRevoke
<1> USE <1>1, <1>2
    DEF Goto, AtOwn, AtGrant, AtRevoke, AtEpoch, StagePcs, RevokePcs, treeVars,
        ledgerVars, runVars, procVars
<1>3. ASSUME NEW p \in Procs, ReadLedger(p) PROVE HistoryInv'
  <2>1. \A f \in Epochs : f < LastRecorded + 1 => Closed(f)
    <3> SUFFICES ASSUME NEW f \in Epochs, f < LastRecorded + 1 PROVE Closed(f)
      OBVIOUS
    <3>1. LastRecorded \in Epochs /\ Recorded(LastRecorded) /\ f <= LastRecorded
      BY LastRecordedIs, PathsAssumption DEF Epochs, PathsAssumption
    <3>2. LastRecorded \in dirs
      BY <3>1 DEF Recorded, Chained, AllBelowClosed
    <3>3. CASE f = LastRecorded
      BY <1>3, <3>1, <3>3
      DEF ReadLedger, StageAllowed, Open, Malformed, Closed, Chained, Recorded
    <3>4. CASE f # LastRecorded
      <4>1. f < LastRecorded BY <3>1, <3>4
      <4> QED BY <3>2, <4>1 DEF AllBelowClosed
    <3> QED BY <3>3, <3>4
  <2>2. UNCHANGED <<dirs, planned, staged, revoked>>
    BY <1>3 DEF ReadLedger
  <2>3. Chained' /\ AllBelowClosed'
    BY <2>2 DEF Chained, AllBelowClosed, Closed
  <2>4. StagersKnow'
    BY <1>3, <2>1, <2>2 DEF ReadLedger, StagersKnow, Closed
  <2> QED BY <2>3, <2>4 DEF HistoryInv
<1>4. ASSUME NEW p \in Procs, MakeEpoch(p) PROVE HistoryInv'
  <2>1. /\ dirs' = dirs \cup {epoch[p]}
        /\ UNCHANGED <<epoch, planned, staged, revoked>>
    BY <1>4 DEF MakeEpoch
  <2>2. \A f \in Epochs : f < epoch[p] => Closed(f)
    BY <1>4 DEF MakeEpoch, StagersKnow
  <2>3. Chained' /\ AllBelowClosed'
    BY <2>1, <2>2 DEF Chained, AllBelowClosed, Closed
  <2>4. StagersKnow'
    BY <1>4, <2>1 DEF MakeEpoch, StagersKnow, Closed
  <2> QED BY <2>3, <2>4 DEF HistoryInv
<1>5. ASSUME NEW p \in Procs, NEW body \in File \ {"absent"}, pc[p] = "plan",
             planned' = [planned EXCEPT ![epoch[p]] = body],
             UNCHANGED <<epoch, dirs, staged, revoked>>,
             \/ pc' = [pc EXCEPT ![p] = "traverse"]
             \/ pc' = [pc EXCEPT ![p] = "crashed"]
      PROVE HistoryInv'
  <2>1. epoch[p] \in Epochs /\ epoch[p] \in dirs
    BY <1>5 DEF StagersKnow
  <2>2. \A e \in Epochs : planned[e] # "absent" => planned'[e] # "absent"
    BY <1>5
  <2>3. Chained' /\ AllBelowClosed'
    BY <1>5, <2>1, <2>2 DEF Chained, AllBelowClosed, Closed
  <2>4. StagersKnow'
    BY <1>5, <2>1, <2>2 DEF StagersKnow, Closed
  <2> QED BY <2>3, <2>4 DEF HistoryInv
<1>6. ASSUME NEW p \in Procs, NEW body \in File \ {"absent"}, pc[p] = "staged",
             staged' = [staged EXCEPT ![epoch[p]] = body],
             UNCHANGED <<epoch, dirs, planned, revoked>>,
             \/ pc' = [pc EXCEPT ![p] = "recheck"]
             \/ pc' = [pc EXCEPT ![p] = "crashed"]
      PROVE HistoryInv'
  <2>1. epoch[p] \in Epochs /\ planned[epoch[p]] # "absent"
    BY <1>6 DEF StagersKnow
  <2>2. Chained' /\ AllBelowClosed'
    BY <1>6, <2>1 DEF Chained, AllBelowClosed, Closed
  <2>3. StagersKnow'
    BY <1>6, <2>1 DEF StagersKnow, Closed
  <2> QED BY <2>2, <2>3 DEF HistoryInv
<1>7. ASSUME NEW p \in Procs, NEW body \in File \ {"absent"}, pc[p] = "revoked",
             revoked' = [revoked EXCEPT ![epoch[p]] = body],
             UNCHANGED <<epoch, dirs, planned, staged>>,
             \/ pc' = [pc EXCEPT ![p] = "done"]
             \/ pc' = [pc EXCEPT ![p] = "crashed"]
      PROVE HistoryInv'
  <2>1. epoch[p] \in Epochs /\ staged[epoch[p]] # "absent"
    BY <1>7 DEF StagersKnow
  <2>2. \A e \in Epochs : revoked[e] # "absent" => revoked'[e] # "absent"
    BY <1>7
  <2>3. Chained' /\ AllBelowClosed'
    BY <1>7, <2>1, <2>2 DEF Chained, AllBelowClosed, Closed
  <2>4. StagersKnow'
    BY <1>7, <2>1, <2>2 DEF StagersKnow, Closed
  <2> QED BY <2>3, <2>4 DEF HistoryInv
<1>8. ASSUME NEW p \in Procs, BeginRevoke(p) PROVE HistoryInv'
  <2>1. CASE ActiveEpochs = {}
    <3>1. Quiet BY <1>8, <2>1 DEF BeginRevoke
    <3> QED BY <3>1, HistoryQuiet
  <2>2. CASE ActiveEpochs # {}
    <3>1. PICK e \in Epochs : Active(e) /\ epoch' = [epoch EXCEPT ![p] = e]
      BY <1>8, <2>2 DEF BeginRevoke, ActiveEpochs
    <3>2. Chained' /\ AllBelowClosed'
      BY <1>8 DEF BeginRevoke, Chained, AllBelowClosed, Closed
    <3>3. StagersKnow'
      BY <1>8, <2>2, <3>1 DEF BeginRevoke, StagersKnow, Closed, Active
    <3> QED BY <3>2, <3>3 DEF HistoryInv
  <2> QED BY <2>1, <2>2
<1>9. ASSUME NEW p \in Procs, StageStep(p), ~ReadLedger(p), ~MakeEpoch(p),
             ~WritePlan(p), ~WriteStaged(p)
      PROVE Quiet
  <2>1. CASE CheckRuntime(p) \/ QuarantineRuntime(p) \/ MakeRuntime(p)
             \/ FillRuntime(p) \/ QuarantineReport(p) \/ SaveBaseline(p)
    BY <2>1 DEF CheckRuntime, QuarantineRuntime, MakeRuntime, FillRuntime,
       QuarantineReport, SaveBaseline
  <2>2. ASSUME NEW path \in Path, Grant(p, path) PROVE Quiet
    <3>1. GroupAfter(pc[p]) \in AtGrant
      BY <2>2 DEF Grant, GroupAfter
    <3> QED BY <2>2, <3>1 DEF Grant
  <2> QED BY <1>9, <2>1, <2>2 DEF StageStep
<1>10. ASSUME NEW p \in Procs, LaunchStep(p) PROVE Quiet
  BY <1>10 DEF LaunchStep, RecheckReport, OpenProbe, CloseProbe, WriteReport,
     MarkStarted, Launch, CollectExit
<1>11. ASSUME NEW p \in Procs, RevokeStep(p), ~BeginRevoke(p), ~WriteRevoked(p)
       PROVE Quiet
  BY <1>11 DEF RevokeStep, Regrant, RemoveGrant, ResetTree, RestoreBaseline,
     DropVerification, VerifyTree
<1>12. ASSUME NEW p \in Procs,
              Execute(p) \/ Adopt(p) \/ Refuse(p) \/ CommandFails(p) \/ RunAgain(p)
       PROVE Quiet
  BY <1>12 DEF Execute, Adopt, Refuse, CommandFails, RunAgain
<1>13. ASSUME NEW p \in Procs, Crash(p) PROVE HistoryInv'
  <2>0. pc' = [pc EXCEPT ![p] = "crashed"] /\ UNCHANGED <<epoch, dirs>>
    BY <1>13 DEF Crash
  <2>1. CASE UNCHANGED <<planned, staged, revoked>>
    <3>1. Quiet BY <2>0, <2>1
    <3> QED BY <3>1, HistoryQuiet
  <2>2. CASE /\ pc[p] = "plan"
             /\ planned' = [planned EXCEPT ![epoch[p]] = "torn"]
             /\ UNCHANGED <<staged, revoked>>
    BY <1>5, <2>0, <2>2 DEF File
  <2>3. CASE /\ pc[p] = "staged"
             /\ staged' = [staged EXCEPT ![epoch[p]] = "torn"]
             /\ UNCHANGED <<planned, revoked>>
    BY <1>6, <2>0, <2>3 DEF File
  <2>4. CASE /\ pc[p] = "revoked"
             /\ revoked' = [revoked EXCEPT ![epoch[p]] = "torn"]
             /\ UNCHANGED <<planned, staged>>
    BY <1>7, <2>0, <2>4 DEF File
  <2> QED BY <1>13, <2>1, <2>2, <2>3, <2>4 DEF Crash
<1>14. ASSUME NEW p \in Procs, WritePlan(p) PROVE HistoryInv'
  BY <1>5, <1>14 DEF WritePlan, File
<1>15. ASSUME NEW p \in Procs, WriteStaged(p) PROVE HistoryInv'
  BY <1>6, <1>15 DEF WriteStaged, File
<1>16. ASSUME NEW p \in Procs, WriteRevoked(p) PROVE HistoryInv'
  BY <1>7, <1>16 DEF WriteRevoked, File
<1>17. CASE ChildStep
  <2>1. Quiet BY <1>17 DEF ChildStep, ChildExits, ChildCreates, ChildRemoves
  <2> QED BY <2>1, HistoryQuiet
<1>18. CASE UNCHANGED vars
  <2>1. Quiet BY <1>18 DEF vars
  <2> QED BY <2>1, HistoryQuiet
<1>19. Quiet => HistoryInv'
  BY HistoryQuiet
<1> HIDE DEF Quiet
<1> QED
  BY <1>3, <1>4, <1>8, <1>9, <1>10, <1>11, <1>12, <1>13, <1>14, <1>15, <1>16,
     <1>17, <1>18, <1>19
  DEF Next, ProcessStep

(* The event history stays readable to _native_acl_epochs and              *)
(* _active_native_acl_epoch, whatever stagers and revokers overlap or die: *)
(* the exclusive epoch directory keeps them apart.                         *)
THEOREM HistoryStaysSound == Spec => []HistorySound
  BY HistoryInit, HistoryNext, HistoryImplies, PTL DEF Spec

(***************************************************************************)
(* ChildKeepsLease.  Until the child has exited nobody adopts, so that a   *)
(* process past the exclusive epoch directory is alone there and its epoch *)
(* cannot be revoked by another one.                                       *)
(***************************************************************************)
AtLaunch == JailPcs \cup {"mark", "launch", "wait"}
Owning   == AtOwn \cup AtGrant \cup AtLaunch \cup RevokePcs

(* What the child needs for as long as it runs. *)
Needed == Outer \cup {"work_root", ".research"}

OwnEpoch(p) ==
  /\ epoch[p] \in dirs /\ revoked[epoch[p]] = "absent"
  /\ pc[p] \in AtOwn => planned[epoch[p]] = "absent"
  /\ pc[p] \in AtGrant =>
       planned[epoch[p]] # "absent" /\ staged[epoch[p]] = "absent"
  /\ pc[p] \in AtLaunch \cup RevokePcs => staged[epoch[p]] # "absent"

Owned ==
  child # "exited" =>
    /\ \A p \in Procs : pc[p] \in Owning => OwnEpoch(p)
    /\ \A p, q \in Procs : pc[p] \in Owning /\ pc[q] \in Owning => p = q

(* The child is launched once, behind the start marker. *)
Launched ==
  /\ child # "none" =>
       started # "absent" /\ \A p \in Procs : pc[p] # "launch"
  /\ \A p \in Procs : pc[p] = "launch" => started # "absent"
  /\ \A p \in Procs : pc[p] = "wait" => child # "none"

(* While it runs, nobody else is at its epoch. *)
Guarded ==
  child = "running" =>
    /\ ActiveEpochs # {}
    /\ \A p \in Procs : pc[p] \in Owning => pc[p] = "wait"

(* The grants the groups of commands have made so far. *)
Laid ==
  child # "exited" =>
    \A p \in Procs :
      /\ pc[p] = "traverse" =>
           \A path \in (Outer \cup {"work_root"}) \ todo[p] : Granted(path)
      /\ pc[p] = "research" => \A path \in Needed \ todo[p] : Granted(path)
      /\ pc[p] \in {"host", "modify", "staged"} \cup AtLaunch =>
           \A path \in Needed : Granted(path)

Supplied == child = "running" => \A path \in Needed : Granted(path)

LeaseInv == HistoryInv /\ Owned /\ Launched /\ Guarded /\ Laid /\ Supplied

LEMMA LeaseInit == Init => LeaseInv
<1> SUFFICES ASSUME Init PROVE LeaseInv
  OBVIOUS
<1>1. child = "none" /\ \A p \in Procs : pc[p] = "idle"
  BY DEF Init
<1> QED
  BY <1>1, HistoryInit
  DEF LeaseInv, Owned, Launched, Guarded, Laid, Supplied, Owning, AtOwn,
      AtGrant, AtLaunch, JailPcs, RevokePcs

(* The child only goes from none to running to exited. *)
LEMMA ChildOnward ==
  ASSUME LeaseInv, [Next]_vars
  PROVE  /\ child' # "exited" => child # "exited"
         /\ child' = "running" /\ child # "running" =>
              \E p \in Procs : Launch(p)
<1> USE DEF treeVars, ledgerVars, runVars, procVars
<1>1. ASSUME NEW p \in Procs, ProcessStep(p), ~Launch(p), ~CollectExit(p)
      PROVE  child' = child
  BY <1>1
  DEF ProcessStep, StageStep, LaunchStep, RevokeStep, CheckRuntime,
      QuarantineRuntime, MakeRuntime, FillRuntime, QuarantineReport,
      ReadLedger, MakeEpoch, SaveBaseline, WritePlan, Grant, WriteStaged,
      RecheckReport, OpenProbe, CloseProbe, WriteReport, MarkStarted,
      BeginRevoke, Regrant, RemoveGrant, ResetTree, RestoreBaseline,
      DropVerification, VerifyTree, WriteRevoked, Refuse
<1>2. ASSUME NEW p \in Procs, Launch(p) PROVE child = "none"
  BY <1>2 DEF Launch, LeaseInv, HistoryInv, TypeInv, TypeOK, Launched
<1>3. ASSUME NEW p \in Procs, CollectExit(p) PROVE child' = "exited"
  BY <1>3 DEF CollectExit
<1>4. ASSUME NEW p \in Procs,
             Execute(p) \/ Adopt(p) \/ CommandFails(p) \/ Crash(p) \/ RunAgain(p)
      PROVE  child' = child
  BY <1>4 DEF Execute, Adopt, CommandFails, Crash, RunAgain
<1>5. ChildStep => child' = child \/ child' = "exited"
  BY DEF ChildStep, ChildExits, ChildCreates, ChildRemoves
<1>6. UNCHANGED vars => child' = child
  BY DEF vars
<1> QED
  BY <1>1, <1>2, <1>3, <1>4, <1>5, <1>6 DEF Next

(* A step that leaves the ledger and the epochs alone and takes nobody     *)
(* into the epoch it was not in before.                                    *)
LEMMA OwnedQuiet ==
  ASSUME Owned, child' # "exited" => child # "exited",
         UNCHANGED <<epoch, dirs, planned, staged, revoked>>,
         \A p \in Procs :
           \/ pc'[p] = pc[p]
           \/ pc'[p] \notin Owning
           \/ {pc[p], pc'[p]} \subseteq AtOwn
           \/ {pc[p], pc'[p]} \subseteq AtGrant
           \/ {pc[p], pc'[p]} \subseteq AtLaunch \cup RevokePcs
  PROVE  Owned'
<1> SUFFICES ASSUME child' # "exited" PROVE Owned'
  BY DEF Owned
<1>1. /\ \A p \in Procs : pc[p] \in Owning => OwnEpoch(p)
      /\ \A p, q \in Procs : pc[p] \in Owning /\ pc[q] \in Owning => p = q
  BY DEF Owned
<1>2. \A p \in Procs : pc'[p] \in Owning => pc[p] \in Owning
  BY DEF Owning
<1>3. ASSUME NEW p \in Procs, pc'[p] \in Owning PROVE OwnEpoch(p)'
  <2>1. OwnEpoch(p)
    BY <1>1, <1>2, <1>3
  <2> QED BY <1>3, <2>1
          DEF OwnEpoch, AtOwn, AtGrant, AtLaunch, JailPcs, RevokePcs
<1> QED BY <1>1, <1>2, <1>3 DEF Owned

LEMMA OwnedNext == LeaseInv /\ [Next]_vars => Owned'
<1> SUFFICES ASSUME LeaseInv, [Next]_vars, child' # "exited" PROVE Owned'
  BY DEF Owned
<1>1. /\ child # "exited"
      /\ child' = "running" /\ child # "running" => \E p \in Procs : Launch(p)
  BY ChildOnward
<1>2. /\ TypeInv /\ TypeOK /\ Chained /\ AllBelowClosed /\ StagersKnow
      /\ HistorySound /\ Owned /\ Guarded
  BY HistoryImplies DEF LeaseInv, HistoryInv, TypeInv
<1>3. /\ pc \in [Procs -> Pcs] /\ epoch \in [Procs -> 0 .. MaxEpoch + 1]
      /\ planned \in [Epochs -> File] /\ staged \in [Epochs -> File]
      /\ revoked \in [Epochs -> File] /\ dirs \in SUBSET Epochs
      /\ \A p \in Procs : pc[p] \in AtEpoch => epoch[p] \in Epochs
      /\ Epochs \subseteq Nat
  BY <1>2, PathsAssumption DEF TypeInv, TypeOK, Epochs, PathsAssumption
<1>4. /\ \A p \in Procs : pc[p] \in Owning => OwnEpoch(p)
      /\ \A p, q \in Procs : pc[p] \in Owning /\ pc[q] \in Owning => p = q
  BY <1>1, <1>2 DEF Owned
<1> DEFINE Quiet ==
      /\ UNCHANGED <<epoch, dirs, planned, staged, revoked>>
      /\ \A p \in Procs :
           \/ pc'[p] = pc[p]
           \/ pc'[p] \notin Owning
           \/ {pc[p], pc'[p]} \subseteq AtOwn
           \/ {pc[p], pc'[p]} \subseteq AtGrant
           \/ {pc[p], pc'[p]} \subseteq AtLaunch \cup RevokePcs
<1>5. Quiet => Owned'
  BY <1>1, <1>2, OwnedQuiet
<1> HIDE DEF Quiet
<1> USE <1>3 DEF Goto, AtOwn, AtGrant, AtLaunch, JailPcs, RevokePcs, AtEpoch,
        StagePcs, Owning, treeVars, ledgerVars, runVars, procVars
<1>6. ASSUME NEW p \in Procs, ReadLedger(p) PROVE Owned'
  <2>1. /\ \A q \in Procs : pc'[q] \in Owning =>
             pc[q] = pc'[q] /\ epoch'[q] = epoch[q]
        /\ UNCHANGED <<dirs, planned, staged, revoked>>
    BY <1>6 DEF ReadLedger
  <2> QED BY <1>4, <2>1 DEF Owned, OwnEpoch
<1>7. ASSUME NEW p \in Procs, MakeEpoch(p) PROVE Owned'
  <2>1. /\ \A f \in Epochs : f < epoch[p] => Closed(f)
        /\ epoch[p] \in Epochs /\ epoch[p] \notin dirs
        /\ UNCHANGED <<epoch, planned, staged, revoked>>
        /\ dirs' = dirs \cup {epoch[p]}
        /\ \A q \in Procs \ {p} : pc'[q] = pc[q]
        /\ pc'[p] = "baseline"
    BY <1>2, <1>7 DEF MakeEpoch, StagersKnow
  <2>2. planned[epoch[p]] = "absent" /\ revoked[epoch[p]] = "absent"
    BY <1>2, <2>1 DEF AllBelowClosed, Chained
  <2>3. ASSUME NEW q \in Procs, pc[q] \in Owning PROVE FALSE
    <3>1. epoch[q] \in dirs /\ revoked[epoch[q]] = "absent"
      BY <1>4, <2>3 DEF OwnEpoch
    <3>2. ~ (epoch[q] < epoch[p])
      BY <2>1, <3>1 DEF Closed
    <3>3. ~ (epoch[p] < epoch[q])
      BY <1>2, <2>1, <2>2, <3>1 DEF AllBelowClosed, Closed
    <3> QED BY <2>1, <3>1, <3>2, <3>3
  <2>4. \A q \in Procs : pc'[q] \in Owning => q = p
    BY <2>1, <2>3
  <2>5. OwnEpoch(p)'
    BY <2>1, <2>2 DEF OwnEpoch
  <2> QED BY <2>4, <2>5 DEF Owned
<1>8. ASSUME NEW p \in Procs, NEW body \in File \ {"absent"}, pc[p] = "plan",
             planned' = [planned EXCEPT ![epoch[p]] = body],
             UNCHANGED <<epoch, dirs, staged, revoked>>,
             \/ pc' = [pc EXCEPT ![p] = "traverse"]
             \/ pc' = [pc EXCEPT ![p] = "crashed"]
      PROVE Owned'
  <2>1. OwnEpoch(p) /\ \A q \in Procs : pc[q] \in Owning => q = p
    BY <1>4, <1>8
  <2>2. \A q \in Procs : pc'[q] \in Owning => q = p /\ pc'[p] = "traverse"
    BY <1>8, <2>1
  <2>3. staged[epoch[p]] = "absent"
    BY <1>2, <1>8, <2>1 DEF OwnEpoch, Chained
  <2> QED BY <1>8, <2>1, <2>2, <2>3 DEF Owned, OwnEpoch
<1>9. ASSUME NEW p \in Procs, NEW body \in File \ {"absent"}, pc[p] = "staged",
             staged' = [staged EXCEPT ![epoch[p]] = body],
             UNCHANGED <<epoch, dirs, planned, revoked>>,
             \/ pc' = [pc EXCEPT ![p] = "recheck"]
             \/ pc' = [pc EXCEPT ![p] = "crashed"]
      PROVE Owned'
  <2>1. OwnEpoch(p) /\ \A q \in Procs : pc[q] \in Owning => q = p
    BY <1>4, <1>9
  <2>2. \A q \in Procs : pc'[q] \in Owning => q = p /\ pc'[p] = "recheck"
    BY <1>9, <2>1
  <2> QED BY <1>9, <2>1, <2>2 DEF Owned, OwnEpoch
<1>10. ASSUME NEW p \in Procs,
              pc[p] = "revoked",
              \/ pc' = [pc EXCEPT ![p] = "done"]
              \/ pc' = [pc EXCEPT ![p] = "crashed"]
       PROVE Owned'
  <2>1. \A q \in Procs : pc[q] \in Owning => q = p
    BY <1>4, <1>10
  <2>2. \A q \in Procs : pc'[q] \notin Owning
    BY <1>10, <2>1
  <2> QED BY <2>2 DEF Owned
<1>11. ASSUME NEW p \in Procs, BeginRevoke(p) PROVE Owned'
  <2>1. CASE ActiveEpochs = {}
    <3>1. Quiet BY <1>11, <2>1 DEF BeginRevoke, Quiet
    <3> QED BY <1>5, <3>1
  <2>2. CASE ActiveEpochs # {}
    <3>1. PICK e \in Epochs : Active(e) /\ epoch' = [epoch EXCEPT ![p] = e]
      BY <1>11, <2>2 DEF BeginRevoke, ActiveEpochs
    <3>2. pc[p] = "revoke" /\ OwnEpoch(p)
      BY <1>4, <1>11 DEF BeginRevoke
    <3>3. Active(epoch[p]) /\ epoch[p] \in Epochs
      BY <3>2 DEF OwnEpoch, Active
    <3>4. e = epoch[p]
      BY <1>11, <3>1, <3>3 DEF BeginRevoke, RevokeAllowed, ActiveEpochs
    <3>5. epoch' = epoch
      BY <3>1, <3>4
    <3>6. Quiet BY <1>11, <2>2, <3>5 DEF BeginRevoke, Quiet
    <3> QED BY <1>5, <3>6
  <2> QED BY <2>1, <2>2
<1>12. ASSUME NEW p \in Procs, StageStep(p), ~ReadLedger(p), ~MakeEpoch(p),
              ~WritePlan(p), ~WriteStaged(p)
       PROVE Quiet
  <2>1. CASE CheckRuntime(p) \/ QuarantineRuntime(p) \/ MakeRuntime(p)
             \/ FillRuntime(p) \/ QuarantineReport(p) \/ SaveBaseline(p)
    BY <2>1 DEF Quiet, CheckRuntime, QuarantineRuntime, MakeRuntime, FillRuntime,
       QuarantineReport, SaveBaseline
  <2>2. ASSUME NEW path \in Path, Grant(p, path) PROVE Quiet
    <3>1. GroupAfter(pc[p]) \in AtGrant
      BY <2>2 DEF Grant, GroupAfter
    <3> QED BY <2>2, <3>1 DEF Grant, Quiet
  <2> QED BY <1>12, <2>1, <2>2 DEF StageStep
<1>13. ASSUME NEW p \in Procs, LaunchStep(p) PROVE Quiet
  BY <1>13 DEF Quiet, LaunchStep, RecheckReport, OpenProbe, CloseProbe,
     WriteReport, MarkStarted, Launch, CollectExit
<1>14. ASSUME NEW p \in Procs, RevokeStep(p), ~BeginRevoke(p), ~WriteRevoked(p)
       PROVE Quiet
  BY <1>14 DEF Quiet, RevokeStep, Regrant, RemoveGrant, ResetTree,
     RestoreBaseline, DropVerification, VerifyTree
<1>15. ASSUME NEW p \in Procs,
              Execute(p) \/ Refuse(p) \/ CommandFails(p) \/ RunAgain(p)
       PROVE Quiet
  BY <1>15 DEF Quiet, Execute, Refuse, CommandFails, RunAgain
<1>16. ASSUME NEW p \in Procs, Adopt(p) PROVE FALSE
  BY <1>1, <1>16 DEF Adopt
<1>17. ASSUME NEW p \in Procs, Crash(p) PROVE Owned'
  <2>0. pc' = [pc EXCEPT ![p] = "crashed"] /\ UNCHANGED <<epoch, dirs>>
    BY <1>17 DEF Crash
  <2>1. CASE UNCHANGED <<planned, staged, revoked>>
    <3>1. Quiet BY <2>0, <2>1 DEF Quiet
    <3> QED BY <1>5, <3>1
  <2>2. CASE /\ pc[p] = "plan"
             /\ planned' = [planned EXCEPT ![epoch[p]] = "torn"]
             /\ UNCHANGED <<staged, revoked>>
    BY <1>8, <2>0, <2>2 DEF File
  <2>3. CASE /\ pc[p] = "staged"
             /\ staged' = [staged EXCEPT ![epoch[p]] = "torn"]
             /\ UNCHANGED <<planned, revoked>>
    BY <1>9, <2>0, <2>3 DEF File
  <2>4. CASE pc[p] = "revoked"
    BY <1>10, <2>0, <2>4 DEF File
  <2> QED BY <1>17, <2>1, <2>2, <2>3, <2>4 DEF Crash
<1>18. ASSUME NEW p \in Procs, WritePlan(p) PROVE Owned'
  BY <1>8, <1>18 DEF WritePlan, File
<1>19. ASSUME NEW p \in Procs, WriteStaged(p) PROVE Owned'
  BY <1>9, <1>19 DEF WriteStaged, File
<1>20. ASSUME NEW p \in Procs, WriteRevoked(p) PROVE Owned'
  BY <1>10, <1>20 DEF WriteRevoked, File
<1>21. CASE ChildStep
  <2>1. Quiet
    BY <1>21 DEF Quiet, ChildStep, ChildExits, ChildCreates, ChildRemoves
  <2> QED BY <1>5, <2>1
<1>22. CASE UNCHANGED vars
  <2>1. Quiet BY <1>22 DEF Quiet, vars
  <2> QED BY <1>5, <2>1
<1> QED
  BY <1>5, <1>6, <1>7, <1>11, <1>12, <1>13, <1>14, <1>15, <1>16, <1>17, <1>18,
     <1>19, <1>20, <1>21, <1>22
  DEF Next, ProcessStep

LEMMA LaunchedNext == LeaseInv /\ [Next]_vars => Launched'
<1> SUFFICES ASSUME LeaseInv, [Next]_vars PROVE Launched'
  OBVIOUS
<1>1. /\ TypeOK /\ pc \in [Procs -> Pcs]
      /\ Launched /\ Owned
  BY DEF LeaseInv, HistoryInv, TypeInv, TypeOK
<1> DEFINE Quiet ==
      /\ child' = child /\ started' = started
      /\ \A p \in Procs :
           \/ pc'[p] = pc[p]
           \/ pc'[p] \notin {"launch", "wait"}
<1>2. Quiet => Launched'
  BY <1>1 DEF Launched
<1> HIDE DEF Quiet
<1> USE <1>1 DEF Goto, treeVars, ledgerVars, runVars, procVars
<1>3. ASSUME NEW p \in Procs, MarkStarted(p) PROVE Launched'
  BY <1>3 DEF MarkStarted, Launched
<1>4. ASSUME NEW p \in Procs, Launch(p) PROVE Launched'
  <2>1. child = "none" /\ pc[p] = "launch" /\ started # "absent"
    BY <1>4 DEF Launch, Launched
  <2>2. \A q \in Procs : pc[q] = "launch" => q = p
    BY <2>1 DEF Owned, Owning, AtLaunch
  <2> QED BY <1>4, <2>1, <2>2 DEF Launch, Launched
<1>5. ASSUME NEW p \in Procs, CollectExit(p) PROVE Launched'
  BY <1>5 DEF CollectExit, Launched
<1>6. CASE ChildStep
  BY <1>6 DEF ChildStep, ChildExits, ChildCreates, ChildRemoves, Launched
<1>7. ASSUME NEW p \in Procs, StageStep(p) PROVE Quiet
  <2>1. CASE CheckRuntime(p) \/ QuarantineRuntime(p) \/ MakeRuntime(p)
             \/ FillRuntime(p) \/ QuarantineReport(p) \/ SaveBaseline(p)
             \/ ReadLedger(p) \/ MakeEpoch(p) \/ WritePlan(p) \/ WriteStaged(p)
    BY <2>1 DEF Quiet, CheckRuntime, QuarantineRuntime, MakeRuntime,
       FillRuntime, QuarantineReport, SaveBaseline, ReadLedger, MakeEpoch,
       WritePlan, WriteStaged
  <2>2. ASSUME NEW path \in Path, Grant(p, path) PROVE Quiet
    <3>1. GroupAfter(pc[p]) \in AtGrant
      BY <2>2 DEF Grant, GroupAfter, AtGrant
    <3> QED BY <2>2, <3>1 DEF Grant, Quiet, AtGrant
  <2> QED BY <1>7, <2>1, <2>2 DEF StageStep
<1>8. ASSUME NEW p \in Procs,
             RecheckReport(p) \/ OpenProbe(p) \/ CloseProbe(p) \/ WriteReport(p)
      PROVE Quiet
  BY <1>8 DEF Quiet, RecheckReport, OpenProbe, CloseProbe, WriteReport
<1>9. ASSUME NEW p \in Procs, RevokeStep(p) PROVE Quiet
  BY <1>9 DEF Quiet, RevokeStep, BeginRevoke, Regrant, RemoveGrant, ResetTree,
     RestoreBaseline, DropVerification, VerifyTree, WriteRevoked
<1>10. ASSUME NEW p \in Procs,
              \/ Execute(p) \/ Adopt(p) \/ Refuse(p) \/ CommandFails(p)
              \/ RunAgain(p)
       PROVE Quiet
  BY <1>10 DEF Quiet, Execute, Adopt, Refuse, CommandFails, RunAgain
<1>11. ASSUME NEW p \in Procs, Crash(p) PROVE Launched'
  <2>1. /\ pc' = [pc EXCEPT ![p] = "crashed"] /\ child' = child
        /\ started' = started \/ started' = "torn"
    BY <1>11 DEF Crash
  <2> QED BY <2>1 DEF Launched
<1>12. CASE UNCHANGED vars
  <2>1. Quiet BY <1>12 DEF Quiet, vars
  <2> QED BY <1>2, <2>1
<1> QED
  BY <1>2, <1>3, <1>4, <1>5, <1>6, <1>7, <1>8, <1>9, <1>10, <1>11, <1>12
  DEF Next, ProcessStep, LaunchStep

(* What a step can still be while the child runs.                          *)
LEMMA WhileRunning ==
  ASSUME LeaseInv, [Next]_vars, child = "running", child' = "running"
  PROVE  /\ UNCHANGED <<planned, staged, revoked>>
         /\ \A p \in Procs : pc'[p] \in Owning => pc[p] \in Owning /\ pc'[p] = "wait"
         /\ \A path \in Needed : Granted(path)' = Granted(path)
<1>1. /\ TypeOK /\ Guarded /\ HistoryInv /\ Launched
      /\ \A p \in Procs : pc[p] \in Owning => pc[p] = "wait"
      /\ \A p \in Procs : pc[p] # "launch"
  BY DEF LeaseInv, HistoryInv, TypeInv, Guarded, Launched
<1>2. pc \in [Procs -> Pcs] /\ acl \in [Path -> SUBSET Principal]
  BY <1>1 DEF TypeOK
<1>3. /\ Needed \subseteq Path
      /\ Needed \cap ({".runtime", "tmp", "probe"} \cup Candidate \cup Scratch) = {}
  BY PathsAssumption DEF PathsAssumption, Needed, Path, Tree
<1> DEFINE Quiet ==
      /\ UNCHANGED <<planned, staged, revoked>>
      /\ \A p \in Procs : pc'[p] = pc[p] \/ pc'[p] \notin Owning
      /\ \A path \in Needed : acl'[path] = acl[path]
<1>4. SUFFICES Quiet
  BY <1>1 DEF Granted
<1> HIDE DEF Quiet
<1> USE <1>2, <1>3
    DEF Goto, AtOwn, AtGrant, AtLaunch, JailPcs, RevokePcs, Owning,
        treeVars, ledgerVars, runVars, procVars
<1>5. ASSUME NEW p \in Procs, StageStep(p) PROVE Quiet
  <2>1. CASE CheckRuntime(p) \/ QuarantineRuntime(p) \/ MakeRuntime(p)
             \/ FillRuntime(p) \/ QuarantineReport(p) \/ ReadLedger(p)
    BY <2>1 DEF Quiet, CheckRuntime, QuarantineRuntime, MakeRuntime,
       FillRuntime, QuarantineReport, ReadLedger
  <2>2. CASE MakeEpoch(p)
    <3>1. PICK e \in Epochs : Active(e)
      BY <1>1 DEF Guarded, ActiveEpochs
    <3>2. e \in dirs /\ ~Closed(e)
      BY <1>1, <3>1 DEF Active, Closed, HistoryInv, Chained, AllBelowClosed
    <3>3. pc[p] = "mkepoch" /\ epoch[p] \notin dirs
      BY <2>2 DEF MakeEpoch
    <3>4. epoch[p] \in Epochs
      <4>1. epoch[p] \in 0 .. MaxEpoch + 1 /\ epoch[p] # 0
        BY <1>1, <3>3 DEF HistoryInv, TypeInv, TypeOK, AtEpoch, StagePcs
      <4> QED BY ONLY <4>1 DEF Epochs
    <3>5. \A f \in Epochs : f < epoch[p] => Closed(f)
      BY <1>1, <3>3 DEF HistoryInv, StagersKnow
    <3>6. ~ (epoch[p] < e)
      BY <1>1, <3>2, <3>3, <3>4
      DEF HistoryInv, AllBelowClosed, Closed, Chained
    <3>7. e < epoch[p]
      <4>1. epoch[p] \in Nat /\ e \in Nat /\ e # epoch[p]
        BY <3>2, <3>3, <3>4 DEF Epochs
      <4> QED BY ONLY <4>1, <3>6
    <3> QED BY <3>2, <3>5, <3>7
  <2>3. CASE \/ SaveBaseline(p) \/ WritePlan(p) \/ WriteStaged(p)
             \/ \E path \in Path : Grant(p, path)
    BY <1>1, <2>3 DEF SaveBaseline, WritePlan, WriteStaged, Grant
  <2> QED BY <1>5, <2>1, <2>2, <2>3 DEF StageStep
<1>6. ASSUME NEW p \in Procs, LaunchStep(p) PROVE FALSE
  BY <1>1, <1>6 DEF LaunchStep, RecheckReport, OpenProbe, CloseProbe,
     WriteReport, MarkStarted, Launch, CollectExit
<1>7. ASSUME NEW p \in Procs, RevokeStep(p) PROVE FALSE
  BY <1>1, <1>7 DEF RevokeStep, BeginRevoke, Regrant, RemoveGrant, ResetTree,
     RestoreBaseline, DropVerification, VerifyTree, WriteRevoked
<1>8. ASSUME NEW p \in Procs, Execute(p) \/ Refuse(p) \/ CommandFails(p) \/ RunAgain(p)
      PROVE Quiet
  BY <1>8 DEF Quiet, Execute, Refuse, CommandFails, RunAgain
<1>9. ASSUME NEW p \in Procs, Adopt(p) PROVE FALSE
  BY <1>9 DEF Adopt
<1>10. ASSUME NEW p \in Procs, Crash(p) PROVE Quiet
  <2>1. pc[p] \notin {"plan", "staged", "revoked", "report", "mark"}
    BY <1>1
  <2> QED BY <1>10, <2>1 DEF Quiet, Crash
<1>11. CASE ChildStep
  BY <1>11, PathSets
  DEF Quiet, ChildStep, ChildExits, ChildCreates, ChildRemoves, Writable
<1>12. CASE UNCHANGED vars
  BY <1>12 DEF Quiet, vars
<1> QED
  BY <1>5, <1>6, <1>7, <1>8, <1>9, <1>10, <1>11, <1>12 DEF Next, ProcessStep

LEMMA GuardedNext == LeaseInv /\ [Next]_vars => Guarded' /\ Supplied'
<1> SUFFICES ASSUME LeaseInv, [Next]_vars, child' = "running"
             PROVE  Guarded' /\ Supplied'
  BY DEF Guarded, Supplied
<1>1. CASE child = "running"
  BY <1>1, WhileRunning DEF LeaseInv, Guarded, Supplied, ActiveEpochs, Active
<1>2. CASE child # "running"
  <2>1. PICK p \in Procs : Launch(p)
    BY <1>2, ChildOnward
  <2>2. /\ pc[p] = "launch" /\ child = "none"
        /\ pc' = [pc EXCEPT ![p] = "wait"]
        /\ UNCHANGED <<acl, planned, staged, revoked, epoch>>
    BY <1>2, <2>1
    DEF Launch, LeaseInv, Launched, Goto, treeVars, ledgerVars
  <2>3. /\ OwnEpoch(p) /\ \A q \in Procs : pc[q] \in Owning => q = p
        /\ \A path \in Needed : Granted(path)
    BY <2>2 DEF LeaseInv, Owned, Owning, Laid, AtLaunch
  <2>4. epoch[p] \in Epochs /\ pc \in [Procs -> Pcs]
    BY <2>3 DEF LeaseInv, HistoryInv, TypeInv, TypeOK, OwnEpoch
  <2>5. Active(epoch[p])'
    BY <2>2, <2>3 DEF OwnEpoch, Active, AtLaunch
  <2>6. ActiveEpochs' # {}
    BY <2>2, <2>4, <2>5 DEF ActiveEpochs, Active
  <2> QED BY <2>2, <2>3, <2>4, <2>6 DEF Guarded, Supplied, Granted
<1> QED BY <1>1, <1>2

LEMMA LaidNext == LeaseInv /\ [Next]_vars => Laid'
<1> SUFFICES ASSUME LeaseInv, [Next]_vars, child' # "exited" PROVE Laid'
  BY DEF Laid
<1>1. /\ child # "exited" /\ TypeOK /\ Laid
      /\ \A p, q \in Procs : pc[p] \in Owning /\ pc[q] \in Owning => p = q
  BY ChildOnward DEF LeaseInv, HistoryInv, TypeInv, Owned
<1>2. /\ pc \in [Procs -> Pcs] /\ acl \in [Path -> SUBSET Principal]
      /\ todo \in [Procs -> SUBSET Path]
  BY <1>1 DEF TypeOK
<1>3. /\ Needed \subseteq Path
      /\ Needed \cap ({".runtime", "tmp", "probe"} \cup Candidate \cup Scratch) = {}
  BY PathsAssumption DEF PathsAssumption, Needed, Path, Tree
<1> DEFINE Steady == {"host", "modify", "staged"} \cup AtLaunch
           Kept   == \A path \in Needed : Granted(path) => Granted(path)'
           Quiet  == /\ Kept
                     /\ \A p \in Procs :
                          \/ pc'[p] = pc[p] /\ todo'[p] = todo[p]
                          \/ pc'[p] \notin AtGrant \cup AtLaunch
                          \/ pc[p] \in Steady /\ pc'[p] \in Steady
<1>4. Quiet => Laid'
  <2> SUFFICES ASSUME Quiet, NEW p \in Procs
               PROVE  /\ pc'[p] = "traverse" =>
                           \A path \in (Outer \cup {"work_root"}) \ todo'[p] :
                             Granted(path)'
                      /\ pc'[p] = "research" =>
                           \A path \in Needed \ todo'[p] : Granted(path)'
                      /\ pc'[p] \in Steady =>
                           \A path \in Needed : Granted(path)'
    BY DEF Laid
  <2>1. /\ pc[p] = "traverse" =>
             \A path \in (Outer \cup {"work_root"}) \ todo[p] : Granted(path)
        /\ pc[p] = "research" => \A path \in Needed \ todo[p] : Granted(path)
        /\ pc[p] \in Steady => \A path \in Needed : Granted(path)
    BY <1>1 DEF Laid
  <2>2. Kept /\ Outer \cup {"work_root"} \subseteq Needed
    BY DEF Needed
  <2>3. CASE pc'[p] = pc[p] /\ todo'[p] = todo[p]
    BY <2>1, <2>2, <2>3
  <2>4. CASE pc'[p] \notin AtGrant \cup AtLaunch
    BY <2>4 DEF AtGrant, AtLaunch, JailPcs
  <2>5. CASE pc[p] \in Steady /\ pc'[p] \in Steady
    BY <2>1, <2>2, <2>5 DEF AtLaunch, JailPcs
  <2> QED BY <2>3, <2>4, <2>5
<1> HIDE DEF Quiet
<1> USE <1>2, <1>3
    DEF Goto, AtGrant, AtLaunch, JailPcs, treeVars, ledgerVars, runVars, procVars
<1>5. ASSUME NEW p \in Procs, NEW path \in Path, Grant(p, path) PROVE Laid'
  <2>1. /\ pc[p] \in {"traverse", "research", "host", "modify"}
        /\ path \in todo[p]
        /\ acl' = [acl EXCEPT ![path] = @ \cup {Grantee(pc[p])}]
    BY <1>5 DEF Grant
  <2>2. Kept
    BY <2>1 DEF Granted
  <2>3. \A q \in Procs \ {p} : pc'[q] = pc[q] /\ pc[q] \notin AtGrant \cup AtLaunch
    BY <1>1, <1>5, <2>1 DEF Grant, Owning
  <2>4. pc[p] # "host" => Granted(path)'
    BY <2>1 DEF Granted, Grantee
  <2>5. CASE todo[p] # {path}
    <3>1. pc' = pc /\ todo'[p] = todo[p] \ {path}
      BY <1>5, <2>5 DEF Grant
    <3>2. CASE pc[p] = "traverse"
      <4>1. \A x \in (Outer \cup {"work_root"}) \ todo'[p] : Granted(x)'
        BY <1>1, <2>2, <2>4, <3>1, <3>2 DEF Laid, Needed
      <4> QED BY <2>3, <3>1, <3>2, <4>1 DEF Laid
    <3>3. CASE pc[p] = "research"
      <4>1. \A x \in Needed \ todo'[p] : Granted(x)'
        BY <1>1, <2>2, <2>4, <3>1, <3>3 DEF Laid
      <4> QED BY <2>3, <3>1, <3>3, <4>1 DEF Laid
    <3>4. CASE pc[p] \in {"host", "modify"}
      <4>1. \A x \in Needed : Granted(x)'
        BY <1>1, <2>2, <3>4 DEF Laid
      <4> QED BY <2>3, <3>1, <3>4, <4>1 DEF Laid
    <3> QED BY <2>1, <3>2, <3>3, <3>4
  <2>6. CASE todo[p] = {path}
    <3>1. pc'[p] = GroupAfter(pc[p]) /\ todo'[p] = GroupPaths(GroupAfter(pc[p]))
      BY <1>5, <2>6 DEF Grant
    <3>2. CASE pc[p] = "traverse"
      <4>1. pc'[p] = "research" /\ todo'[p] = {".research"}
        BY <3>1, <3>2 DEF GroupAfter, GroupPaths
      <4>2. \A x \in Needed \ todo'[p] : Granted(x)'
        BY <1>1, <2>2, <2>4, <2>6, <3>2, <4>1 DEF Laid, Needed
      <4> QED BY <2>3, <4>1, <4>2 DEF Laid
    <3>3. CASE pc[p] = "research"
      <4>1. pc'[p] = "host"
        BY <3>1, <3>3 DEF GroupAfter
      <4>2. \A x \in Needed : Granted(x)'
        BY <1>1, <2>2, <2>4, <2>6, <3>3 DEF Laid
      <4> QED BY <2>3, <4>1, <4>2 DEF Laid
    <3>4. CASE pc[p] \in {"host", "modify"}
      <4>1. pc'[p] \in {"modify", "staged"}
        BY <3>1, <3>4 DEF GroupAfter
      <4>2. \A x \in Needed : Granted(x)'
        BY <1>1, <2>2, <3>4 DEF Laid
      <4> QED BY <2>3, <4>1, <4>2 DEF Laid
    <3> QED BY <2>1, <3>2, <3>3, <3>4
  <2> QED BY <2>5, <2>6
<1>6. ASSUME NEW p \in Procs, WritePlan(p) PROVE Laid'
  <2>1. /\ pc'[p] = "traverse" /\ todo'[p] = Traverse
        /\ \A q \in Procs \ {p} : pc'[q] = pc[q] /\ pc[q] \notin AtGrant \cup AtLaunch
    BY <1>1, <1>6 DEF WritePlan, Owning, AtOwn
  <2>2. (Outer \cup {"work_root"}) \ todo'[p] = {}
    BY <2>1 DEF Traverse
  <2> QED BY <2>1, <2>2 DEF Laid
<1>7. ASSUME NEW p \in Procs,
             \/ CheckRuntime(p) \/ QuarantineRuntime(p) \/ MakeRuntime(p)
             \/ FillRuntime(p) \/ QuarantineReport(p) \/ ReadLedger(p)
             \/ MakeEpoch(p) \/ SaveBaseline(p) \/ WriteStaged(p)
      PROVE Quiet
  BY <1>7 DEF Quiet, Granted, CheckRuntime, QuarantineRuntime, MakeRuntime,
     FillRuntime, QuarantineReport, ReadLedger, MakeEpoch, SaveBaseline,
     WriteStaged
<1>8. ASSUME NEW p \in Procs, LaunchStep(p) PROVE Quiet
  BY <1>8 DEF Quiet, Granted, LaunchStep, RecheckReport, OpenProbe, CloseProbe,
     WriteReport, MarkStarted, Launch, CollectExit
<1>9. ASSUME NEW p \in Procs, RevokeStep(p) PROVE Laid'
  <2>1. pc[p] \in RevokePcs /\ pc'[p] \in RevokePcs \cup Ended
    BY <1>9 DEF RevokeStep, BeginRevoke, Regrant, RemoveGrant, ResetTree,
       RestoreBaseline, DropVerification, VerifyTree, WriteRevoked, RevokePcs,
       Ended
  <2>2. \A q \in Procs \ {p} : pc'[q] = pc[q]
    BY <1>9 DEF RevokeStep, BeginRevoke, Regrant, RemoveGrant, ResetTree,
       RestoreBaseline, DropVerification, VerifyTree, WriteRevoked
  <2>3. \A q \in Procs : pc'[q] \notin AtGrant \cup AtLaunch
    BY <1>1, <2>1, <2>2 DEF Owning, RevokePcs, Ended
  <2> QED BY <2>3 DEF Laid
<1>10. ASSUME NEW p \in Procs,
              \/ Execute(p) \/ Adopt(p) \/ Refuse(p) \/ CommandFails(p)
              \/ RunAgain(p)
       PROVE Quiet
  BY <1>10 DEF Quiet, Granted, Execute, Adopt, Refuse, CommandFails, RunAgain
<1>11. ASSUME NEW p \in Procs, Crash(p) PROVE Quiet
  <2>1. pc' = [pc EXCEPT ![p] = "crashed"] /\ UNCHANGED <<todo, acl>>
    BY <1>11 DEF Crash
  <2> QED BY <2>1 DEF Quiet, Granted
<1>12. ASSUME ChildStep PROVE Quiet
  <2>1. \A path \in Needed : acl'[path] = acl[path]
    BY <1>12, PathSets
    DEF ChildStep, ChildExits, ChildCreates, ChildRemoves, Writable
  <2>2. pc' = pc /\ todo' = todo
    BY <1>12 DEF ChildStep, ChildExits, ChildCreates, ChildRemoves
  <2> QED BY <2>1, <2>2 DEF Quiet, Granted
<1>13. ASSUME UNCHANGED vars PROVE Quiet
  BY <1>13 DEF Quiet, Granted, vars
<1> QED
  BY <1>4, <1>5, <1>6, <1>7, <1>8, <1>9, <1>10, <1>11, <1>12, <1>13
  DEF Next, ProcessStep, StageStep

(* While the Codex child runs, the epoch it was launched under stays       *)
(* active and the research inputs readable: no execution that overlaps,    *)
(* no adoption, no crash lets another process revoke under it.             *)
THEOREM LeaseKeptForChild == Spec => []ChildKeepsLease
<1>1. LeaseInv /\ [Next]_vars => LeaseInv'
  BY HistoryNext, OwnedNext, LaunchedNext, GuardedNext, LaidNext DEF LeaseInv
<1>2. LeaseInv => ChildKeepsLease
  BY DEF LeaseInv, Guarded, Supplied, Needed, ChildKeepsLease
<1> QED BY <1>1, <1>2, LeaseInit, PTL DEF Spec

(***************************************************************************)
(* The refinement, for runs in which two executions do not overlap up to   *)
(* the launch: once the start marker is there nobody stages any more, so   *)
(* that a revocation, however many run at once, only takes grants away.    *)
(***************************************************************************)
Early == StagePcs \cup JailPcs \cup {"mark"}

Solo ==
  /\ \A p, q \in Procs : Launching(p) /\ Launching(q) => p = q
  /\ started # "absent" => \A p \in Procs : pc[p] \notin Early

(* The fixed directories stay, and what is not there has no grant.         *)
Fixed ==
  /\ {"work_root", ".research"} \subseteq exists
  /\ \A path \in Tree \ exists : ~Granted(path)
  /\ \A e \in Epochs : planned[e] # "absent" =>
       {"work_root", ".research"} \subseteq DOMAIN baseline[e]
  /\ \A p \in Procs : pc[p] = "plan" =>
       {"work_root", ".research"} \subseteq DOMAIN baseline[epoch[p]]

Pristine ==
  \A e \in Epochs : \A path \in DOMAIN baseline[e] :
    "sandbox" \notin baseline[e][path]

UnderLease == Exposed => \E e \in Epochs : Open(e)

(* How far a revocation is: first the tree, then the paths above it.       *)
TakenBack ==
  \A p \in Procs :
    /\ pc[p] = "remove" => \A path \in Outer \ todo[p] : ~Granted(path)
    /\ pc[p] \in {"unlink", "verify", "revoked"} =>
         \A path \in Outer : ~Granted(path)
    /\ pc[p] = "revoked" => ~Exposed

SoloInv == LeaseInv /\ Solo /\ Fixed /\ Pristine /\ UnderLease /\ TakenBack

LEMMA SoloInit == Init => SoloInv
<1> SUFFICES ASSUME Init PROVE SoloInv
  OBVIOUS
<1>1. \A p \in Procs : pc[p] = "idle"
  BY DEF Init
<1>2. \A path \in Path : ~Granted(path)
  BY DEF Init, Granted
<1>3. /\ \A e \in Epochs : planned[e] = "absent" /\ DOMAIN baseline[e] = {}
      /\ {"work_root", ".research"} \subseteq exists
  BY DEF Init, Unsaved
<1>4. Fixed /\ Pristine
  BY <1>1, <1>2, <1>3, PathSets DEF Fixed, Pristine
<1>5. UnderLease /\ TakenBack
  BY <1>1, <1>2 DEF UnderLease, TakenBack, Exposed
<1>6. Solo
  BY <1>1 DEF Solo, Launching, Early, StagePcs, JailPcs, Init
<1> QED
  BY <1>4, <1>5, <1>6, LeaseInit DEF SoloInv

LEMMA SoloNext == ~Overlap /\ TypeInv /\ Solo /\ [Next]_vars => Solo'
<1> SUFFICES ASSUME ~Overlap, TypeInv, Solo, [Next]_vars PROVE Solo'
  OBVIOUS
<1>1. pc \in [Procs -> Pcs]
  BY DEF TypeInv, TypeOK
<1> DEFINE Quiet ==
      /\ \A p \in Procs : Launching(p)' => Launching(p)
      /\ started' # "absent" => started # "absent"
      /\ \A p \in Procs : pc'[p] \in Early => pc[p] \in Early
<1>2. Quiet => Solo'
  BY DEF Solo
<1> HIDE DEF Quiet
<1> USE <1>1 DEF Goto, Launching, Early, StagePcs, JailPcs, treeVars, ledgerVars,
        runVars, procVars
<1>3. ASSUME NEW p \in Procs, Execute(p) PROVE Solo'
  <2>1. /\ started' = "absent" /\ \A q \in Procs : ~Launching(q)
        /\ \A q \in Procs \ {p} : pc'[q] = pc[q]
    BY <1>3 DEF Execute
  <2>2. \A q \in Procs : Launching(q)' => q = p
    BY <2>1
  <2> QED BY <2>1, <2>2 DEF Solo
<1>4. ASSUME NEW p \in Procs, pc[p] = "mark",
             pc' = [pc EXCEPT ![p] = "launch"] \/ pc' = [pc EXCEPT ![p] = "crashed"]
      PROVE Solo'
  <2>1. \A q \in Procs \ {p} : ~Launching(q) /\ pc'[q] = pc[q]
    BY <1>4 DEF Solo
  <2>2. \A q \in Procs : Launching(q)' => q = p
    BY <2>1
  <2>3. \A q \in Procs : pc'[q] \notin Early
    BY <1>4, <2>1
  <2> QED BY <2>2, <2>3 DEF Solo
<1>5. ASSUME NEW p \in Procs, MarkStarted(p) PROVE Solo'
  BY <1>4, <1>5 DEF MarkStarted
<1>6. ASSUME NEW p \in Procs, StageStep(p) PROVE Quiet
  <2>1. CASE CheckRuntime(p) \/ QuarantineRuntime(p) \/ MakeRuntime(p)
             \/ FillRuntime(p) \/ QuarantineReport(p) \/ ReadLedger(p)
             \/ MakeEpoch(p) \/ SaveBaseline(p) \/ WritePlan(p) \/ WriteStaged(p)
    BY <2>1 DEF Quiet, CheckRuntime, QuarantineRuntime, MakeRuntime, FillRuntime,
       QuarantineReport, ReadLedger, MakeEpoch, SaveBaseline, WritePlan,
       WriteStaged
  <2>2. ASSUME NEW path \in Path, Grant(p, path) PROVE Quiet
    <3>1. /\ pc[p] \in Early /\ started' = started
          /\ \A q \in Procs \ {p} : pc'[q] = pc[q]
      BY <2>2 DEF Grant
    <3> QED BY <3>1 DEF Quiet
  <2> QED BY <1>6, <2>1, <2>2 DEF StageStep
<1>7. ASSUME NEW p \in Procs,
             \/ RecheckReport(p) \/ OpenProbe(p) \/ CloseProbe(p)
             \/ WriteReport(p) \/ Launch(p) \/ CollectExit(p)
      PROVE Quiet
  BY <1>7 DEF Quiet, RecheckReport, OpenProbe, CloseProbe, WriteReport, Launch,
     CollectExit
<1>8. ASSUME NEW p \in Procs, RevokeStep(p) PROVE Quiet
  BY <1>8 DEF Quiet, RevokeStep, BeginRevoke, Regrant, RemoveGrant, ResetTree,
     RestoreBaseline, DropVerification, VerifyTree, WriteRevoked
<1>9. ASSUME NEW p \in Procs,
             Adopt(p) \/ Refuse(p) \/ CommandFails(p) \/ RunAgain(p)
      PROVE Quiet
  BY <1>9 DEF Quiet, Adopt, Refuse, CommandFails, RunAgain
<1>10. ASSUME NEW p \in Procs, Crash(p) PROVE Solo'
  <2>1. pc' = [pc EXCEPT ![p] = "crashed"]
    BY <1>10 DEF Crash
  <2>2. CASE pc[p] = "mark"
    BY <1>4, <2>1, <2>2
  <2>3. CASE pc[p] # "mark"
    <3>1. started' = started
      BY <1>10, <2>3 DEF Crash
    <3>2. Quiet
      BY <2>1, <3>1 DEF Quiet
    <3> QED BY <1>2, <3>2
  <2> QED BY <2>2, <2>3
<1>11. ASSUME ChildStep PROVE Quiet
  BY <1>11 DEF Quiet, ChildStep, ChildExits, ChildCreates, ChildRemoves
<1>12. ASSUME UNCHANGED vars PROVE Quiet
  BY <1>12 DEF Quiet, vars
<1> QED
  BY <1>2, <1>3, <1>5, <1>6, <1>7, <1>8, <1>9, <1>10, <1>11, <1>12
  DEF Next, ProcessStep, LaunchStep

LEMMA FixedNext == TypeInv /\ Fixed /\ [Next]_vars => Fixed'
<1> SUFFICES ASSUME TypeInv, Fixed, [Next]_vars PROVE Fixed'
  OBVIOUS
<1>1. /\ TypeInv' /\ pc \in [Procs -> Pcs] /\ epoch \in [Procs -> 0 .. MaxEpoch + 1]
      /\ acl \in [Path -> SUBSET Principal] /\ DOMAIN baseline = Epochs
      /\ planned \in [Epochs -> File] /\ exists \in SUBSET Tree
      /\ \A p \in Procs : pc[p] \in AtEpoch => epoch[p] \in Epochs
  BY NextTyped, PathsAssumption DEF TypeInv, TypeOK, Epochs, PathsAssumption
<1>2. /\ {"work_root", ".research"} \subseteq exists
      /\ {"work_root", ".research"} \cap (Writable \cup Scratch \cup
            {".runtime", "tmp", "probe"}) = {}
  BY PathsAssumption DEF Fixed, PathsAssumption, Writable
<1> DEFINE Present == \A e \in Epochs : planned[e] # "absent" =>
                        {"work_root", ".research"} \subseteq DOMAIN baseline[e]
           Saved   == \A p \in Procs : pc[p] = "plan" =>
                        {"work_root", ".research"} \subseteq DOMAIN baseline[epoch[p]]
           Bare    == \A path \in Tree \ exists : ~Granted(path)
           Quiet   == /\ baseline' = baseline
                      /\ \A e \in Epochs : planned'[e] # "absent" => planned[e] # "absent"
                      /\ \A p \in Procs :
                           \/ pc'[p] # "plan"
                           \/ pc'[p] = pc[p] /\ epoch'[p] = epoch[p]
<1>3. Present /\ Saved /\ Bare
  BY DEF Fixed
<1>4. Quiet => Present' /\ Saved'
  BY <1>3
<1> HIDE DEF Quiet
<1>5. {"work_root", ".research"} \subseteq exists' /\ Bare'
  <2> USE <1>1, <1>2, PathSets
      DEF Goto, Granted, treeVars, ledgerVars, runVars, procVars
  <2> DEFINE Goal == {"work_root", ".research"} \subseteq exists' /\ Bare'
  <2>0. UNCHANGED treeVars => Goal
    BY <1>3
  <2>1. ASSUME NEW p \in Procs, StageStep(p) PROVE Goal
    <3>1. CASE QuarantineRuntime(p) BY <1>3, <3>1 DEF QuarantineRuntime
    <3>2. CASE MakeRuntime(p) BY <1>3, <3>2 DEF MakeRuntime
    <3>3. CASE FillRuntime(p) BY <1>3, <3>3 DEF FillRuntime
    <3>4. ASSUME NEW path \in Path, Grant(p, path) PROVE Goal
      <4>1. /\ acl' = [acl EXCEPT ![path] = @ \cup {Grantee(pc[p])}]
            /\ exists' = exists /\ path \in Outer \cup exists
        BY <3>4 DEF Grant
      <4>2. path \notin Tree \ exists
        BY <4>1, PathsAssumption DEF PathsAssumption
      <4> QED BY <1>3, <4>1, <4>2
    <3>5. CASE \/ CheckRuntime(p) \/ QuarantineReport(p) \/ ReadLedger(p)
               \/ MakeEpoch(p) \/ SaveBaseline(p) \/ WritePlan(p) \/ WriteStaged(p)
      BY <2>0, <3>5 DEF CheckRuntime, QuarantineReport, ReadLedger, MakeEpoch,
         SaveBaseline, WritePlan, WriteStaged
    <3> QED BY <2>1, <3>1, <3>2, <3>3, <3>4, <3>5 DEF StageStep
  <2>2. ASSUME NEW p \in Procs, LaunchStep(p) PROVE Goal
    <3>1. CASE OpenProbe(p) BY <1>3, <3>1 DEF OpenProbe
    <3>2. CASE CloseProbe(p) BY <1>3, <3>2 DEF CloseProbe
    <3>3. CASE \/ RecheckReport(p) \/ WriteReport(p) \/ MarkStarted(p)
               \/ Launch(p) \/ CollectExit(p)
      BY <2>0, <3>3 DEF RecheckReport, WriteReport, MarkStarted, Launch,
         CollectExit
    <3> QED BY <2>2, <3>1, <3>2, <3>3 DEF LaunchStep
  <2>3. ASSUME NEW p \in Procs, RevokeStep(p) PROVE Goal
    <3>1. ASSUME NEW path \in Path, Regrant(p, path) PROVE Goal
      BY <1>3, <3>1 DEF Regrant
    <3>2. ASSUME NEW path \in Path, RemoveGrant(p, path) PROVE Goal
      BY <1>3, <3>2 DEF RemoveGrant
    <3>3. CASE ResetTree(p) BY <1>3, <3>3 DEF ResetTree
    <3>4. CASE RestoreBaseline(p) BY <1>3, <3>4 DEF RestoreBaseline
    <3>5. CASE BeginRevoke(p) \/ DropVerification(p) \/ VerifyTree(p) \/ WriteRevoked(p)
      BY <2>0, <3>5 DEF BeginRevoke, DropVerification, VerifyTree, WriteRevoked
    <3> QED BY <2>3, <3>1, <3>2, <3>3, <3>4, <3>5 DEF RevokeStep
  <2>4. ASSUME NEW p \in Procs,
               \/ Execute(p) \/ Adopt(p) \/ Refuse(p) \/ CommandFails(p)
               \/ Crash(p) \/ RunAgain(p)
        PROVE Goal
    BY <2>0, <2>4 DEF Execute, Adopt, Refuse, CommandFails, Crash, RunAgain
  <2>5. ASSUME ChildStep PROVE Goal
    <3>1. ASSUME NEW path \in Tree, ChildCreates(path) PROVE Goal
      BY <1>3, <3>1 DEF ChildCreates
    <3>2. ASSUME NEW path \in Tree, ChildRemoves(path) PROVE Goal
      BY <1>3, <3>2 DEF ChildRemoves
    <3>3. CASE ChildExits BY <2>0, <3>3 DEF ChildExits
    <3> QED BY <2>5, <3>1, <3>2, <3>3 DEF ChildStep
  <2>6. UNCHANGED vars => Goal
    BY <2>0 DEF vars
  <2> QED BY <2>1, <2>2, <2>3, <2>4, <2>5, <2>6 DEF Next, ProcessStep
<1>6. Present' /\ Saved'
  <2> USE <1>1 DEF Goto, AtEpoch, StagePcs, treeVars, ledgerVars, runVars, procVars
  <2>1. ASSUME NEW p \in Procs, SaveBaseline(p) PROVE Present' /\ Saved'
    <3>1. /\ baseline' = [baseline EXCEPT ![epoch[p]] = Snapshot]
          /\ DOMAIN Snapshot = exists /\ epoch[p] \in Epochs
          /\ UNCHANGED <<epoch, planned>> /\ pc' = [pc EXCEPT ![p] = "plan"]
      BY <2>1 DEF SaveBaseline, Snapshot
    <3> QED BY <1>2, <1>3, <3>1
  <2>2. ASSUME NEW p \in Procs, NEW body, pc[p] = "plan",
               planned' = [planned EXCEPT ![epoch[p]] = body],
               UNCHANGED <<epoch, baseline>>,
               \/ pc' = [pc EXCEPT ![p] = "traverse"]
               \/ pc' = [pc EXCEPT ![p] = "crashed"]
        PROVE Present' /\ Saved'
    BY <1>3, <2>2
  <2>3. ASSUME NEW p \in Procs, WritePlan(p) PROVE Present' /\ Saved'
    BY <2>2, <2>3 DEF WritePlan
  <2>4. ASSUME NEW p \in Procs, Crash(p) PROVE Present' /\ Saved'
    <3>1. pc' = [pc EXCEPT ![p] = "crashed"] /\ UNCHANGED <<epoch, baseline>>
      BY <2>4 DEF Crash
    <3>2. CASE planned' = planned
      BY <1>3, <3>1, <3>2
    <3>3. CASE pc[p] = "plan" /\ planned' = [planned EXCEPT ![epoch[p]] = "torn"]
      BY <2>2, <3>1, <3>3
    <3> QED BY <2>4, <3>2, <3>3 DEF Crash
  <2>5. ASSUME NEW p \in Procs,
               \/ CheckRuntime(p) \/ QuarantineRuntime(p) \/ MakeRuntime(p)
               \/ FillRuntime(p) \/ QuarantineReport(p) \/ ReadLedger(p)
               \/ MakeEpoch(p) \/ WriteStaged(p)
        PROVE Quiet
    BY <2>5 DEF Quiet, CheckRuntime, QuarantineRuntime, MakeRuntime, FillRuntime,
       QuarantineReport, ReadLedger, MakeEpoch, WriteStaged
  <2>6. ASSUME NEW p \in Procs, NEW path \in Path, Grant(p, path) PROVE Quiet
    <3>1. GroupAfter(pc[p]) \in AtGrant
      BY <2>6 DEF Grant, GroupAfter, AtGrant
    <3> QED BY <2>6, <3>1 DEF Grant, Quiet, AtGrant
  <2>7. ASSUME NEW p \in Procs, LaunchStep(p) PROVE Quiet
    BY <2>7 DEF Quiet, LaunchStep, RecheckReport, OpenProbe, CloseProbe,
       WriteReport, MarkStarted, Launch, CollectExit
  <2>8. ASSUME NEW p \in Procs, RevokeStep(p) PROVE Quiet
    BY <2>8 DEF Quiet, RevokeStep, BeginRevoke, Regrant, RemoveGrant, ResetTree,
       RestoreBaseline, DropVerification, VerifyTree, WriteRevoked
  <2>9. ASSUME NEW p \in Procs,
               \/ Execute(p) \/ Adopt(p) \/ Refuse(p) \/ CommandFails(p)
               \/ RunAgain(p)
        PROVE Quiet
    BY <2>9 DEF Quiet, Execute, Adopt, Refuse, CommandFails, RunAgain
  <2>10. ASSUME ChildStep PROVE Quiet
    BY <2>10 DEF Quiet, ChildStep, ChildExits, ChildCreates, ChildRemoves
  <2>11. ASSUME UNCHANGED vars PROVE Quiet
    BY <2>11 DEF Quiet, vars
  <2> HIDE DEF Present, Saved
  <2> QED
    BY <1>4, <2>1, <2>3, <2>4, <2>5, <2>6, <2>7, <2>8, <2>9, <2>10, <2>11
    DEF Next, ProcessStep, StageStep
<1> QED BY <1>5, <1>6 DEF Fixed

(* Nobody grants next to a revocation.                                     *)
LEMMA RevocationAlone ==
  ASSUME SoloInv, NEW p \in Procs, pc[p] \in RevokePcs
  PROVE  child # "running" /\ \A q \in Procs : pc[q] \notin AtOwn \cup AtGrant \cup JailPcs
<1>1. Owned /\ Guarded /\ Launched /\ Solo
  BY DEF SoloInv, LeaseInv
<1>2. child # "running"
  BY <1>1 DEF Guarded, Owning, RevokePcs
<1>3. CASE child = "exited"
  <2>1. \A q \in Procs : pc[q] \notin Early
    BY <1>1, <1>3 DEF Launched, Solo
  <2> QED BY <1>2, <2>1 DEF Early, AtOwn, AtGrant, StagePcs
<1>4. CASE child # "exited"
  <2>1. \A q \in Procs : pc[q] \in Owning => q = p
    BY <1>1, <1>4 DEF Owned, Owning
  <2> QED BY <1>2, <2>1 DEF Owning, AtLaunch, AtOwn, AtGrant, JailPcs, RevokePcs
<1> QED BY <1>3, <1>4

(* Whoever stages has the last epoch, and it is not revoked.               *)
LEMMA StagerOwns ==
  ASSUME SoloInv, NEW p \in Procs, pc[p] \in AtOwn \cup AtGrant \cup JailPcs
  PROVE  /\ OwnEpoch(p) /\ epoch[p] \in Epochs
         /\ pc[p] \in AtOwn => \A e \in Epochs : ~Open(e)
         /\ pc[p] \notin AtOwn => Open(epoch[p])
<1>1. /\ Owned /\ Launched /\ Solo /\ HistoryInv
      /\ Chained /\ AllBelowClosed /\ dirs \in SUBSET Epochs
  BY DEF SoloInv, LeaseInv, HistoryInv, TypeInv, TypeOK
<1>2. child # "exited"
  BY <1>1 DEF Launched, Solo, Early, AtOwn, AtGrant, StagePcs
<1>3. OwnEpoch(p) /\ epoch[p] \in Epochs
  BY <1>1, <1>2 DEF Owned, Owning, AtLaunch, OwnEpoch
<1>4. ASSUME pc[p] \in AtOwn, NEW e \in Epochs PROVE ~Open(e)
  <2>1. e = epoch[p] \/ e < epoch[p] \/ epoch[p] < e
    BY <1>3 DEF Epochs
  <2>2. planned[epoch[p]] = "absent" /\ epoch[p] \in dirs
    BY <1>3, <1>4 DEF OwnEpoch
  <2>3. CASE e = epoch[p]
    BY <2>2, <2>3 DEF Open
  <2>4. CASE e < epoch[p]
    BY <1>1, <2>2, <2>4 DEF AllBelowClosed, Closed, Open
  <2>5. CASE epoch[p] < e
    BY <1>1, <1>3, <2>2, <2>5 DEF AllBelowClosed, Closed, Open
  <2> QED BY <2>1, <2>3, <2>4, <2>5
<1>5. pc[p] \notin AtOwn => Open(epoch[p])
  BY <1>1, <1>3
  DEF OwnEpoch, Chained, Open, AtOwn, AtGrant, AtLaunch, JailPcs
<1> QED BY <1>3, <1>4, <1>5

LEMMA GrantsNext ==
  SoloInv /\ [Next]_vars => Pristine' /\ UnderLease' /\ TakenBack'
<1> SUFFICES ASSUME SoloInv, [Next]_vars
             PROVE  Pristine' /\ UnderLease' /\ TakenBack'
  OBVIOUS
<1>1. /\ TypeInv /\ Pristine /\ UnderLease /\ TakenBack /\ Fixed /\ Chained
      /\ Guarded
  BY DEF SoloInv, LeaseInv, HistoryInv
<1>2. /\ pc \in [Procs -> Pcs] /\ epoch \in [Procs -> 0 .. MaxEpoch + 1]
      /\ todo \in [Procs -> SUBSET Path] /\ exists \in SUBSET Tree
      /\ acl \in [Path -> SUBSET Principal] /\ DOMAIN baseline = Epochs
      /\ planned \in [Epochs -> File] /\ staged \in [Epochs -> File]
      /\ revoked \in [Epochs -> File]
      /\ \A p \in Procs : pc[p] \in AtEpoch => epoch[p] \in Epochs
  BY <1>1, PathsAssumption DEF TypeInv, TypeOK, Epochs, PathsAssumption
<1> DEFINE Late == {"remove", "unlink", "verify", "revoked"}
           Goal == Pristine' /\ UnderLease' /\ TakenBack'
           Recede == \A path \in Path : Granted(path)' => Granted(path)
           Lasting == \A e \in Epochs : Open(e) => Open(e)'
           Places == \A p \in Procs :
                       \/ pc'[p] = pc[p] /\ todo'[p] = todo[p]
                       \/ pc'[p] \notin Late
                       \/ {pc[p], pc'[p]} \subseteq {"unlink", "verify"}
           Quiet == Recede /\ Lasting /\ Places /\ baseline' = baseline
<1>3. Outer \subseteq Path /\ Outer \cap Tree = {} /\ Path = Outer \cup Tree
  BY PathsAssumption DEF PathsAssumption, Path
<1>4. Quiet => Goal
  <2> SUFFICES ASSUME Quiet PROVE Goal
    OBVIOUS
  <2>1. Pristine'
    BY <1>1 DEF Pristine
  <2>2. Exposed' => Exposed
    BY DEF Exposed
  <2>3. UnderLease'
    BY <1>1, <2>2 DEF UnderLease
  <2>4. ASSUME NEW p \in Procs
        PROVE  /\ pc'[p] = "remove" => \A path \in Outer \ todo'[p] : ~Granted(path)'
               /\ pc'[p] \in {"unlink", "verify", "revoked"} =>
                    \A path \in Outer : ~Granted(path)'
               /\ pc'[p] = "revoked" => ~Exposed'
    <3>1. /\ pc[p] = "remove" => \A path \in Outer \ todo[p] : ~Granted(path)
          /\ pc[p] \in {"unlink", "verify", "revoked"} =>
               \A path \in Outer : ~Granted(path)
          /\ pc[p] = "revoked" => ~Exposed
      BY <1>1 DEF TakenBack
    <3>2. \A path \in Outer : Granted(path)' => Granted(path)
      BY <1>3
    <3>3. CASE pc'[p] = pc[p] /\ todo'[p] = todo[p]
      BY <2>2, <3>1, <3>2, <3>3
    <3>4. CASE pc'[p] \notin Late
      BY <3>4
    <3>5. CASE {pc[p], pc'[p]} \subseteq {"unlink", "verify"}
      BY <3>1, <3>2, <3>5
    <3> QED BY <3>3, <3>4, <3>5
  <2>5. TakenBack'
    BY <2>4 DEF TakenBack
  <2> QED BY <2>1, <2>3, <2>5
<1> HIDE DEF Quiet, Goal
<1> USE <1>2 DEF Goto, treeVars, ledgerVars, runVars, procVars

(* A grant: made under an open epoch, and next to no revocation.           *)
<1>5. ASSUME baseline' = baseline, UNCHANGED <<planned, revoked>>,
             \E e \in Epochs : Open(e),
             \A p \in Procs : pc'[p] \notin RevokePcs
      PROVE  Goal
  <2>1. Pristine' /\ UnderLease'
    BY <1>1, <1>5 DEF Pristine, UnderLease, Open
  <2>2. TakenBack'
    BY <1>5 DEF TakenBack, RevokePcs
  <2> QED BY <2>1, <2>2 DEF Goal
<1>6. ASSUME NEW p \in Procs, NEW path \in Path, Grant(p, path) PROVE Goal
  <2>1. pc[p] \in AtGrant
    BY <1>6 DEF Grant, AtGrant
  <2>2. Open(epoch[p]) /\ epoch[p] \in Epochs
    BY <2>1, StagerOwns DEF AtGrant, AtOwn
  <2>3. \A q \in Procs : pc[q] \notin RevokePcs
    BY <2>1, RevocationAlone
  <2>4. /\ baseline' = baseline /\ UNCHANGED <<planned, revoked>>
        /\ pc' = pc \/ pc' = [pc EXCEPT ![p] = GroupAfter(pc[p])]
    BY <1>6 DEF Grant
  <2>5. GroupAfter(pc[p]) \in AtGrant
    BY <1>6 DEF Grant, GroupAfter, AtGrant
  <2>6. \A q \in Procs : pc'[q] \notin RevokePcs
    BY <2>3, <2>4, <2>5 DEF AtGrant, RevokePcs
  <2> QED BY <1>5, <2>2, <2>4, <2>6
<1>7. ASSUME NEW p \in Procs, OpenProbe(p) PROVE Goal
  <2>1. pc[p] = "jail" /\ baseline' = baseline /\ UNCHANGED <<planned, revoked>>
    BY <1>7 DEF OpenProbe
  <2>2. Open(epoch[p]) /\ epoch[p] \in Epochs
    BY <2>1, StagerOwns DEF AtOwn, JailPcs
  <2>3. \A q \in Procs : pc[q] \notin RevokePcs
    BY <2>1, RevocationAlone DEF JailPcs
  <2>4. CASE "probe" \in exists
    <3>1. Quiet
      BY <1>7, <2>4 DEF OpenProbe, Quiet, Granted, Open
    <3> QED BY <1>4, <3>1
  <2>5. CASE "probe" \notin exists
    <3>1. \A q \in Procs : pc'[q] \notin RevokePcs
      BY <1>7, <2>3, <2>5 DEF OpenProbe, RevokePcs
    <3> QED BY <1>5, <2>1, <2>2, <3>1
  <2> QED BY <2>4, <2>5
<1>8. ASSUME NEW path \in Tree, ChildCreates(path) PROVE Goal
  <2>1. PICK e \in Epochs : Active(e)
    BY <1>1, <1>8 DEF ChildCreates, Guarded, ActiveEpochs
  <2>2. Open(e)
    BY <1>1, <2>1 DEF Active, Open, Chained
  <2>3. \A q \in Procs : pc[q] \notin RevokePcs
    BY <1>8, RevocationAlone DEF ChildCreates
  <2> QED BY <1>5, <1>8, <2>2, <2>3 DEF ChildCreates
<1>9. ASSUME NEW p \in Procs, SaveBaseline(p) PROVE Goal
  <2>1. \A e \in Epochs : ~Open(e)
    BY <1>9, StagerOwns DEF SaveBaseline, AtOwn
  <2>2. \A path \in exists : "sandbox" \notin acl[path]
    BY <1>1, <1>3, <2>1 DEF UnderLease, Exposed, Granted
  <2>3. /\ baseline' = [baseline EXCEPT ![epoch[p]] = Snapshot]
        /\ epoch[p] \in Epochs
        /\ DOMAIN Snapshot = exists
        /\ \A path \in exists : "sandbox" \notin Snapshot[path]
    BY <1>9, <2>2 DEF SaveBaseline, Snapshot, AtEpoch, StagePcs
  <2>4. Pristine'
    BY <1>1, <2>3 DEF Pristine
  <2>5. UnderLease'
    BY <1>1, <1>9 DEF SaveBaseline, UnderLease, Exposed, Granted, Open
  <2>6. TakenBack'
    BY <1>1, <1>9 DEF SaveBaseline, TakenBack, Exposed, Granted
  <2> QED BY <2>4, <2>5, <2>6 DEF Goal
<1>10. ASSUME NEW p \in Procs, RestoreBaseline(p) PROVE Goal
  <2>1. epoch[p] \in Epochs /\ pc[p] = "restore"
    BY <1>10 DEF RestoreBaseline, AtEpoch, RevokePcs
  <2>2. Recede
    BY <1>1, <1>10, <2>1 DEF RestoreBaseline, Granted, Pristine
  <2>3. Pristine' /\ UnderLease'
    BY <1>1, <1>10, <2>2
    DEF RestoreBaseline, Pristine, UnderLease, Exposed, Open
  <2>4. /\ pc' = [pc EXCEPT ![p] = "remove"]
        /\ todo' = [todo EXCEPT ![p] = Outer]
    BY <1>10 DEF RestoreBaseline
  <2>5. TakenBack'
    BY <1>1, <1>3, <2>2, <2>4 DEF TakenBack, Exposed
  <2> QED BY <2>3, <2>5 DEF Goal
<1>11. ASSUME NEW p \in Procs, NEW path \in Path, RemoveGrant(p, path) PROVE Goal
  <2>1. /\ Recede /\ ~Granted(path)'
        /\ UNCHANGED <<baseline, planned, revoked>>
    BY <1>11 DEF RemoveGrant, Granted
  <2>2. Pristine' /\ UnderLease'
    BY <1>1, <2>1 DEF Pristine, UnderLease, Exposed, Open
  <2>3. /\ pc[p] = "remove" /\ todo' = [todo EXCEPT ![p] = @ \ {path}]
        /\ pc' = [pc EXCEPT ![p] = IF todo[p] = {path} THEN "unlink" ELSE "remove"]
    BY <1>11 DEF RemoveGrant
  <2>4. \A x \in Outer \ todo'[p] : ~Granted(x)'
    BY <1>1, <1>3, <2>1, <2>3 DEF TakenBack
  <2>5. pc'[p] = "unlink" => todo'[p] = {}
    BY <2>3
  <2>6. TakenBack'
    BY <1>1, <1>3, <2>1, <2>3, <2>4, <2>5 DEF TakenBack, Exposed
  <2> QED BY <2>2, <2>6 DEF Goal
<1>12. ASSUME NEW p \in Procs, VerifyTree(p) PROVE Goal
  <2>1. /\ pc[p] = "verify" /\ UNCHANGED <<exists, acl, baseline, planned, revoked, todo>>
        /\ pc' = [pc EXCEPT ![p] =
                    IF InheritedOnly(baseline[epoch[p]], Snapshot)
                      THEN "revoked" ELSE "failed"]
        /\ epoch[p] \in Epochs
    BY <1>12 DEF VerifyTree, AtEpoch, RevokePcs
  <2>2. Pristine' /\ UnderLease'
    BY <1>1, <2>1 DEF Pristine, UnderLease, Exposed, Granted, Open
  <2>3. ASSUME InheritedOnly(baseline[epoch[p]], Snapshot) PROVE ~Exposed
    <3>1. \A path \in exists : ~Granted(path)
      <4> TAKE path \in exists
      <4>1. /\ DOMAIN Snapshot = exists /\ Snapshot[path] = acl[path]
        BY DEF Snapshot
      <4>2. \/ acl[path] = {}
            \/ /\ path \in DOMAIN baseline[epoch[p]]
               /\ acl[path] = baseline[epoch[p]][path]
        BY <2>3, <4>1 DEF InheritedOnly
      <4> QED BY <1>1, <2>1, <4>2 DEF Pristine, Granted
    <3>2. \A path \in Outer : ~Granted(path)
      BY <1>1, <2>1 DEF TakenBack
    <3>3. \A path \in Tree \ exists : ~Granted(path)
      BY <1>1 DEF Fixed
    <3> QED BY <1>3, <3>1, <3>2, <3>3 DEF Exposed
  <2>4. TakenBack'
    BY <1>1, <2>1, <2>3 DEF TakenBack, Exposed, Granted
  <2> QED BY <2>2, <2>4 DEF Goal
<1>13. ASSUME NEW p \in Procs, pc[p] = "revoked",
              UNCHANGED <<acl, baseline, todo>>,
              \/ pc' = [pc EXCEPT ![p] = "done"]
              \/ pc' = [pc EXCEPT ![p] = "crashed"]
       PROVE Goal
  <2>1. ~Exposed' /\ Pristine'
    BY <1>1, <1>13 DEF TakenBack, Exposed, Granted, Pristine
  <2>2. TakenBack'
    BY <1>1, <1>13 DEF TakenBack, Exposed, Granted
  <2> QED BY <2>1, <2>2 DEF Goal, UnderLease
<1>14. ASSUME NEW p \in Procs, WriteRevoked(p) PROVE Goal
  BY <1>13, <1>14 DEF WriteRevoked
<1>15. ASSUME NEW p \in Procs, NEW body \in File \ {"absent"}, pc[p] = "plan",
              planned' = [planned EXCEPT ![epoch[p]] = body],
              UNCHANGED <<acl, baseline, revoked>>,
              \A q \in Procs \ {p} : todo'[q] = todo[q],
              \/ pc' = [pc EXCEPT ![p] = "traverse"]
              \/ pc' = [pc EXCEPT ![p] = "crashed"]
       PROVE Goal
  <2>1. Recede /\ Lasting
    BY <1>15 DEF Granted, Open
  <2>2. Places
    BY <1>15
  <2> QED BY <1>4, <1>15, <2>1, <2>2 DEF Quiet
<1>16. ASSUME NEW p \in Procs, WritePlan(p) PROVE Goal
  BY <1>15, <1>16 DEF WritePlan, File
<1>17. ASSUME NEW p \in Procs, Crash(p) PROVE Goal
  <2>1. /\ pc' = [pc EXCEPT ![p] = "crashed"]
        /\ UNCHANGED <<acl, baseline, todo, epoch>>
    BY <1>17 DEF Crash
  <2>2. CASE planned' = planned /\ revoked' = revoked
    <3>1. Quiet BY <2>1, <2>2 DEF Quiet, Granted, Open
    <3> QED BY <1>4, <3>1
  <2>3. CASE /\ pc[p] = "plan" /\ revoked' = revoked
             /\ planned' = [planned EXCEPT ![epoch[p]] = "torn"]
    BY <1>15, <2>1, <2>3 DEF File
  <2>4. CASE pc[p] = "revoked"
    BY <1>13, <2>1, <2>4
  <2> QED BY <1>17, <2>2, <2>3, <2>4 DEF Crash
<1>18. ASSUME NEW p \in Procs,
              \/ CheckRuntime(p) \/ QuarantineRuntime(p) \/ MakeRuntime(p)
              \/ FillRuntime(p) \/ QuarantineReport(p) \/ ReadLedger(p)
              \/ MakeEpoch(p) \/ WriteStaged(p)
       PROVE Quiet
  BY <1>18 DEF Quiet, Granted, Open, CheckRuntime, QuarantineRuntime,
     MakeRuntime, FillRuntime, QuarantineReport, ReadLedger, MakeEpoch,
     WriteStaged
<1>19. ASSUME NEW p \in Procs,
              \/ RecheckReport(p) \/ CloseProbe(p) \/ WriteReport(p)
              \/ MarkStarted(p) \/ Launch(p) \/ CollectExit(p)
       PROVE Quiet
  BY <1>19 DEF Quiet, Granted, Open, RecheckReport, CloseProbe, WriteReport,
     MarkStarted, Launch, CollectExit
<1>20. ASSUME NEW p \in Procs, BeginRevoke(p) PROVE Quiet
  BY <1>20 DEF Quiet, Granted, Open, BeginRevoke
<1>21. ASSUME NEW p \in Procs, NEW path \in Path, Regrant(p, path) PROVE Quiet
  BY <1>21 DEF Quiet, Granted, Open, Regrant
<1>22. ASSUME NEW p \in Procs, ResetTree(p) \/ DropVerification(p) PROVE Quiet
  BY <1>22 DEF Quiet, Granted, Open, ResetTree, DropVerification
<1>23. ASSUME NEW p \in Procs,
              \/ Execute(p) \/ Adopt(p) \/ Refuse(p) \/ CommandFails(p)
              \/ RunAgain(p)
       PROVE Quiet
  BY <1>23 DEF Quiet, Granted, Open, Execute, Adopt, Refuse, CommandFails,
     RunAgain
<1>24. ASSUME NEW path \in Tree, ChildRemoves(path) PROVE Quiet
  BY <1>24 DEF Quiet, Granted, Open, ChildRemoves
<1>25. ASSUME ChildExits PROVE Quiet
  BY <1>25 DEF Quiet, Granted, Open, ChildExits
<1>26. ASSUME UNCHANGED vars PROVE Quiet
  BY <1>26 DEF Quiet, Granted, Open, vars
<1>27. Goal
  BY <1>4, <1>6, <1>7, <1>8, <1>9, <1>10, <1>11, <1>12, <1>14, <1>16, <1>17,
     <1>18, <1>19, <1>20, <1>21, <1>22, <1>23, <1>24, <1>25, <1>26
  DEF Next, ProcessStep, StageStep, LaunchStep, RevokeStep, ChildStep
<1> QED BY <1>27 DEF Goal

LEMMA SoloStep == ~Overlap /\ SoloInv /\ [Next]_vars => SoloInv'
<1> SUFFICES ASSUME ~Overlap, SoloInv, [Next]_vars PROVE SoloInv'
  OBVIOUS
<1>1. LeaseInv /\ TypeInv /\ Solo /\ Fixed
  BY DEF SoloInv, LeaseInv, HistoryInv
<1>2. LeaseInv'
  BY <1>1, HistoryNext, OwnedNext, LaunchedNext, GuardedNext, LaidNext
  DEF LeaseInv
<1>3. Solo' /\ Fixed'
  BY <1>1, SoloNext, FixedNext
<1> QED BY <1>2, <1>3, GrantsNext DEF SoloInv

(* Without overlapping executions the baseline a revocation would restore  *)
(* has no sandbox grant and has the fixed directories, whatever crashes    *)
(* and adoptions come between.                                             *)
THEOREM BaselinePristine ==
  ASSUME ~Overlap
  PROVE  Spec => []BaselineIsPreGrant
<1>1. SoloInv => BaselineIsPreGrant
  BY DEF SoloInv, LeaseInv, HistoryInv, Chained, Fixed, Pristine,
     BaselineIsPreGrant, ActiveEpochs, Active
<1>2. SoloInv /\ [Next]_vars => SoloInv'
  BY SoloStep
<1> QED BY <1>1, <1>2, SoloInit, PTL DEF Spec

(* Without overlapping executions nobody stages or checks the read jail    *)
(* once the invocation has started: the overlap alone is what breaks it.   *)
THEOREM StagersUnstarted ==
  ASSUME ~Overlap
  PROVE  Spec => []StagedIsUnstarted
<1>1. SoloInv => StagedIsUnstarted
  BY DEF SoloInv, Solo, StagedIsUnstarted, Early
<1>2. SoloInv /\ [Next]_vars => SoloInv'
  BY SoloStep
<1> QED BY <1>1, <1>2, SoloInit, PTL DEF Spec

(* The steps that write an event file, wholly or torn.                     *)
Records(p, label, file, next) ==
  \E body \in File \ {"absent"} :
    /\ pc[p] = label /\ file[epoch[p]] = "absent"
    /\ next = [file EXCEPT ![epoch[p]] = body]
    /\ UNCHANGED <<acl, child>>

LEMMA EventSteps ==
  ASSUME [Next]_vars
  PROVE  \/ UNCHANGED <<planned, staged, revoked>>
         \/ \E p \in Procs : /\ Records(p, "plan", planned, planned')
                             /\ UNCHANGED <<staged, revoked>>
         \/ \E p \in Procs : /\ Records(p, "staged", staged, staged')
                             /\ UNCHANGED <<planned, revoked>>
         \/ \E p \in Procs : /\ Records(p, "revoked", revoked, revoked')
                             /\ UNCHANGED <<planned, staged>>
<1> DEFINE Same == UNCHANGED <<planned, staged, revoked>>
           Some == \E p \in Procs :
             \/ /\ Records(p, "plan", planned, planned')
                /\ UNCHANGED <<staged, revoked>>
             \/ /\ Records(p, "staged", staged, staged')
                /\ UNCHANGED <<planned, revoked>>
             \/ /\ Records(p, "revoked", revoked, revoked')
                /\ UNCHANGED <<planned, staged>>
<1> USE DEF Goto, treeVars, ledgerVars, runVars, procVars
<1>1. ASSUME NEW p \in Procs, WritePlan(p) PROVE Some
  BY <1>1 DEF WritePlan, Records, File
<1>2. ASSUME NEW p \in Procs, WriteStaged(p) PROVE Some
  BY <1>2 DEF WriteStaged, Records, File
<1>3. ASSUME NEW p \in Procs, WriteRevoked(p) PROVE Some
  BY <1>3 DEF WriteRevoked, Records, File
<1>4. ASSUME NEW p \in Procs, Crash(p) PROVE Same \/ Some
  BY <1>4 DEF Crash, Records, File
<1>5. ASSUME NEW p \in Procs, StageStep(p), ~WritePlan(p), ~WriteStaged(p)
      PROVE Same
  BY <1>5 DEF StageStep, CheckRuntime, QuarantineRuntime, MakeRuntime,
     FillRuntime, QuarantineReport, ReadLedger, MakeEpoch, SaveBaseline, Grant
<1>6. ASSUME NEW p \in Procs, LaunchStep(p) PROVE Same
  BY <1>6 DEF LaunchStep, RecheckReport, OpenProbe, CloseProbe, WriteReport,
     MarkStarted, Launch, CollectExit
<1>7. ASSUME NEW p \in Procs, RevokeStep(p), ~WriteRevoked(p) PROVE Same
  BY <1>7 DEF RevokeStep, BeginRevoke, Regrant, RemoveGrant, ResetTree,
     RestoreBaseline, DropVerification, VerifyTree
<1>8. ASSUME NEW p \in Procs,
             \/ Execute(p) \/ Adopt(p) \/ Refuse(p) \/ CommandFails(p)
             \/ RunAgain(p)
      PROVE Same
  BY <1>8 DEF Execute, Adopt, Refuse, CommandFails, RunAgain
<1>9. ASSUME ChildStep \/ UNCHANGED vars PROVE Same
  BY <1>9 DEF ChildStep, ChildExits, ChildCreates, ChildRemoves, vars
<1>10. Same \/ Some
  <2> HIDE DEF Same, Some
  <2> QED
    BY <1>1, <1>2, <1>3, <1>4, <1>5, <1>6, <1>7, <1>8, <1>9 DEF Next, ProcessStep
<1> QED BY <1>10

(* Without overlapping executions a REVOKED event is final, and is only    *)
(* written over a tree without sandbox grants.                             *)
THEOREM RevocationFinal ==
  ASSUME ~Overlap
  PROVE  Spec => RevokedIsFinal
<1> DEFINE Final(e) ==
      /\ revoked[e] # "absent" => /\ UNCHANGED <<planned[e], staged[e]>>
                                  /\ revoked'[e] # "absent"
      /\ revoked[e] = "absent" /\ revoked'[e] # "absent" => ~Exposed
<1>1. ASSUME SoloInv, [Next]_vars, NEW e \in Epochs PROVE Final(e)
  <2>1. /\ planned \in [Epochs -> File] /\ staged \in [Epochs -> File]
        /\ revoked \in [Epochs -> File] /\ Chained /\ TakenBack
    BY <1>1 DEF SoloInv, LeaseInv, HistoryInv, TypeInv, TypeOK
  <2>2. CASE UNCHANGED <<planned, staged, revoked>>
    BY <2>2
  <2>3. ASSUME NEW p \in Procs, Records(p, "plan", planned, planned'),
               UNCHANGED <<staged, revoked>>
        PROVE  Final(e)
    BY <2>1, <2>3 DEF Records, Chained
  <2>4. ASSUME NEW p \in Procs, Records(p, "staged", staged, staged'),
               UNCHANGED <<planned, revoked>>
        PROVE  Final(e)
    BY <2>1, <2>4 DEF Records, Chained
  <2>5. ASSUME NEW p \in Procs, Records(p, "revoked", revoked, revoked'),
               UNCHANGED <<planned, staged>>
        PROVE  Final(e)
    BY <2>1, <2>5 DEF Records, TakenBack
  <2> QED BY <1>1, <2>2, <2>3, <2>4, <2>5, EventSteps
<1>2. SoloInv /\ [Next]_vars => [\A e \in Epochs : Final(e)]_vars
  BY <1>1
<1>3. SoloInv /\ [Next]_vars => SoloInv'
  BY SoloStep
<1> QED BY <1>2, <1>3, SoloInit, PTL DEF Spec, RevokedIsFinal

(* The steps that start or end the child touch nothing else of the lease.  *)
LEMMA ChildSteps ==
  ASSUME SoloInv, [Next]_vars, child' # child
  PROVE  /\ UNCHANGED <<acl, planned, staged, revoked>>
         /\ \/ child = "running" /\ child' = "exited"
            \/ child = "none" /\ child' = "running" /\ ActiveEpochs # {}
<1> USE DEF Goto, treeVars, ledgerVars, runVars, procVars
<1>1. /\ Launched /\ Owned /\ Guarded /\ dirs \in SUBSET Epochs
      /\ child \in {"none", "running", "exited"}
  BY DEF SoloInv, LeaseInv, HistoryInv, TypeInv, TypeOK
<1> DEFINE Goal == /\ UNCHANGED <<acl, planned, staged, revoked>>
                   /\ \/ child = "running" /\ child' = "exited"
                      \/ child = "none" /\ child' = "running" /\ ActiveEpochs # {}
<1>2. ASSUME NEW p \in Procs, Launch(p) PROVE Goal
  <2>1. pc[p] = "launch" /\ child = "none" /\ child' = "running"
    BY <1>1, <1>2 DEF Launch, Launched
  <2>2. OwnEpoch(p)
    BY <1>1, <2>1 DEF Owned, Owning, AtLaunch
  <2>3. Active(epoch[p]) /\ epoch[p] \in Epochs
    BY <1>1, <2>1, <2>2 DEF OwnEpoch, Active, AtLaunch
  <2>4. ActiveEpochs # {}
    BY <2>3 DEF ActiveEpochs
  <2> QED BY <1>2, <2>1, <2>4 DEF Launch
<1>3. ASSUME NEW p \in Procs, CollectExit(p) PROVE Goal
  <2>1. child # "none" /\ child' = "exited"
    BY <1>1, <1>3 DEF CollectExit, Launched
  <2> QED BY <1>1, <1>3, <2>1 DEF CollectExit
<1>4. ASSUME ChildExits PROVE Goal
  BY <1>4 DEF ChildExits
<1>5. ASSUME NEW p \in Procs, ProcessStep(p), ~Launch(p), ~CollectExit(p)
      PROVE  child' = child
  BY <1>5
  DEF ProcessStep, StageStep, LaunchStep, RevokeStep, CheckRuntime,
      QuarantineRuntime, MakeRuntime, FillRuntime, QuarantineReport,
      ReadLedger, MakeEpoch, SaveBaseline, WritePlan, Grant, WriteStaged,
      RecheckReport, OpenProbe, CloseProbe, WriteReport, MarkStarted,
      BeginRevoke, Regrant, RemoveGrant, ResetTree, RestoreBaseline,
      DropVerification, VerifyTree, WriteRevoked, Refuse
<1>6. ASSUME NEW p \in Procs,
             Execute(p) \/ Adopt(p) \/ CommandFails(p) \/ Crash(p) \/ RunAgain(p)
      PROVE  child' = child
  BY <1>6 DEF Execute, Adopt, CommandFails, Crash, RunAgain
<1>7. ASSUME NEW path \in Tree, ChildCreates(path) \/ ChildRemoves(path)
      PROVE  child' = child
  BY <1>7 DEF ChildCreates, ChildRemoves
<1>8. UNCHANGED vars => child' = child
  BY DEF vars
<1>9. Goal
  <2> HIDE DEF Goal
  <2> QED
    BY <1>2, <1>3, <1>4, <1>5, <1>6, <1>7, <1>8 DEF Next, ChildStep
<1> QED BY <1>9

LEMMA LeaseSteps ==
  ASSUME SoloInv, SoloInv', [Next]_vars
  PROVE  [Lease!Next]_(Lease!leaseVars)
<1>1. /\ planned \in [Epochs -> File] /\ staged \in [Epochs -> File]
      /\ revoked \in [Epochs -> File] /\ child \in {"none", "running", "exited"}
      /\ Chained /\ UnderLease /\ TakenBack /\ HistorySound /\ StagersKnow
      /\ Epochs \subseteq Nat
  BY HistoryImplies
  DEF SoloInv, LeaseInv, HistoryInv, TypeInv, TypeOK, Epochs
<1>2. /\ Exposed \in BOOLEAN /\ Exposed' \in BOOLEAN
      /\ Exposed => \E e \in Epochs : Open(e)
      /\ Exposed' => (\E e \in Epochs : Open(e))'
  BY DEF SoloInv, UnderLease, Exposed
<1>3. \A e \in Epochs : Active(e) => Open(e)
  BY <1>1 DEF Chained, Active, Open
<1>4. \A e, f \in Epochs : Open(e) /\ Open(f) => e = f
  BY <1>1 DEF HistorySound, Open, Recorded
<1>5. /\ ActiveEpochs # {} => LeaseState = "held"
      /\ LeaseState = "free" <=> \A e \in Epochs : ~Open(e)
      /\ LeaseState = "staging" <=>
           ActiveEpochs = {} /\ \E e \in Epochs : Open(e)
  BY <1>3 DEF LeaseState, ActiveEpochs
<1> DEFINE Abstract == \/ Lease!Next
                       \/ UNCHANGED <<LeaseState, Exposed, child>>
<1>6. Abstract => [Lease!Next]_(Lease!leaseVars)
  BY DEF Lease!leaseVars
<1> HIDE DEF Abstract
<1>7. CASE UNCHANGED <<planned, staged, revoked>>
  <2>1. LeaseState' = LeaseState
    BY <1>7 DEF LeaseState, ActiveEpochs, Active, Open
  <2>2. (\E e \in Epochs : Open(e))' <=> \E e \in Epochs : Open(e)
    BY <1>7 DEF Open
  <2>3. CASE child' # child
    <3>1. Exposed' = Exposed
      BY <2>3, ChildSteps DEF Exposed, Granted
    <3>2. CASE child = "running" /\ child' = "exited"
      <4>1. Lease!Exit BY <2>1, <3>1, <3>2 DEF Lease!Exit
      <4> QED BY <4>1 DEF Abstract, Lease!Next
    <3>3. CASE child = "none" /\ child' = "running" /\ ActiveEpochs # {}
      <4>1. Lease!Launch BY <1>5, <2>1, <3>1, <3>3 DEF Lease!Launch
      <4> QED BY <4>1 DEF Abstract, Lease!Next
    <3> QED BY <2>3, <3>2, <3>3, ChildSteps
  <2>4. CASE child' = child /\ Exposed' = Exposed
    BY <1>6, <2>1, <2>4 DEF Abstract
  <2>5. CASE child' = child /\ Exposed' /\ ~Exposed
    <3>1. LeaseState # "free"
      BY <1>2, <1>5, <2>2, <2>5
    <3>2. Lease!Expose
      BY <1>2, <2>1, <2>5, <3>1 DEF Lease!Expose
    <3> QED BY <3>2 DEF Abstract, Lease!Next
  <2>6. CASE child' = child /\ ~Exposed' /\ Exposed
    <3>1. LeaseState # "free"
      BY <1>2, <1>5, <2>6
    <3>2. child # "running"
      <4>1. Supplied' /\ "work_root" \in Needed /\ "work_root" \in Path
        BY PathSets DEF SoloInv, LeaseInv, Needed
      <4> QED BY <2>6, <4>1 DEF Supplied, Exposed
    <3>3. Lease!Withdraw
      BY <1>2, <2>1, <2>6, <3>1, <3>2 DEF Lease!Withdraw
    <3> QED BY <3>3 DEF Abstract, Lease!Next
  <2> QED BY <1>2, <2>3, <2>4, <2>5, <2>6, <1>6
<1>8. ASSUME NEW p \in Procs, Records(p, "plan", planned, planned'),
             UNCHANGED <<staged, revoked>>
      PROVE  Abstract
  <2>1. /\ \A e \in Epochs : ~Open(e)
        /\ epoch[p] \in Epochs /\ OwnEpoch(p)
    BY <1>8, StagerOwns DEF Records, AtOwn
  <2>2. PICK body \in File \ {"absent"} : planned' = [planned EXCEPT ![epoch[p]] = body]
    BY <1>8 DEF Records
  <2>3. \E e \in Epochs : Open(e)'
    <3>1. PICK e \in Epochs : e = epoch[p]
      BY <2>1
    <3>2. Open(e)'
      BY <1>1, <1>8, <2>1, <2>2, <3>1 DEF Open, OwnEpoch
    <3> QED BY <3>2
  <2>4. ActiveEpochs' = {}
    BY <1>3, <1>8, <2>1 DEF ActiveEpochs, Active
  <2>5. LeaseState' = "staging"
    BY <2>3, <2>4 DEF LeaseState
  <2>6. Exposed' = Exposed /\ child' = child
    BY <1>8 DEF Records, Exposed, Granted
  <2>7. Lease!Begin
    BY <1>5, <2>1, <2>5, <2>6 DEF Lease!Begin
  <2> QED BY <2>7 DEF Abstract, Lease!Next
<1>9. ASSUME NEW p \in Procs, Records(p, "staged", staged, staged'),
             UNCHANGED <<planned, revoked>>
      PROVE  Abstract
  <2>1. Open(epoch[p]) /\ epoch[p] \in Epochs /\ OwnEpoch(p)
    BY <1>9, StagerOwns DEF Records, AtGrant, AtOwn
  <2>2. PICK body \in File \ {"absent"} : staged' = [staged EXCEPT ![epoch[p]] = body]
    BY <1>9 DEF Records
  <2>3. ~Active(epoch[p])
    BY <1>9 DEF Records, Active
  <2>4. ActiveEpochs = {}
    BY <1>3, <1>4, <2>1, <2>3 DEF ActiveEpochs
  <2>5. \E e \in Epochs : Active(e)'
    <3>1. PICK e \in Epochs : e = epoch[p]
      BY <2>1
    <3>2. Active(e)'
      BY <1>1, <1>9, <2>1, <2>2, <3>1 DEF Active, Open
    <3> QED BY <3>2
  <2>6. LeaseState' = "held"
    BY <2>5 DEF LeaseState, ActiveEpochs
  <2>7. Exposed' = Exposed /\ child' = child
    BY <1>9 DEF Records, Exposed, Granted
  <2>8. Lease!Hold
    BY <1>5, <2>1, <2>4, <2>6, <2>7 DEF Lease!Hold
  <2> QED BY <2>8 DEF Abstract, Lease!Next
<1>10. ASSUME NEW p \in Procs, Records(p, "revoked", revoked, revoked'),
              UNCHANGED <<planned, staged>>
       PROVE  Abstract
  <2>1. /\ pc[p] = "revoked" /\ revoked[epoch[p]] = "absent"
        /\ child' = child /\ acl' = acl
    BY <1>10 DEF Records
  <2>2. /\ epoch[p] \in Epochs /\ staged[epoch[p]] # "absent"
    BY <1>1, <2>1, PathsAssumption
    DEF StagersKnow, AtRevoke, RevokePcs, SoloInv, LeaseInv, HistoryInv,
        TypeInv, TypeOK, AtEpoch, Epochs, PathsAssumption
  <2>3. PICK body \in File \ {"absent"} : revoked' = [revoked EXCEPT ![epoch[p]] = body]
    BY <1>10 DEF Records
  <2>4. Active(epoch[p]) /\ ActiveEpochs # {}
    BY <2>1, <2>2 DEF Active, ActiveEpochs
  <2>5. \A e \in Epochs : Open(e)' => Open(e) /\ e # epoch[p]
    BY <1>1, <1>10, <2>2, <2>3 DEF Open
  <2>6. \A e \in Epochs : ~Open(e)'
    BY <1>3, <1>4, <2>2, <2>4, <2>5
  <2>7. Chained'
    BY DEF SoloInv, LeaseInv, HistoryInv
  <2>8. LeaseState' = "free"
    BY <2>6, <2>7 DEF LeaseState, ActiveEpochs, Active, Open, Chained
  <2>9. child # "running"
    BY <2>1, RevocationAlone DEF RevokePcs
  <2>10. ~Exposed /\ Exposed' = Exposed
    BY <1>1, <2>1 DEF TakenBack, Exposed, Granted
  <2>11. Lease!Release
    BY <1>5, <2>1, <2>4, <2>8, <2>9, <2>10 DEF Lease!Release
  <2> QED BY <2>11 DEF Abstract, Lease!Next
<1> QED
  BY <1>6, <1>7, <1>8, <1>9, <1>10, EventSteps

(***************************************************************************)
(* Without overlapping executions the system calls of sandbox.py implement *)
(* the lease: grants only under an open epoch, never taken from under a    *)
(* running child, and none left when the REVOKED event is written.         *)
(***************************************************************************)
THEOREM LeaseImplemented ==
  ASSUME ~Overlap
  PROVE  Spec => ImplementsLease
<1>1. Init => Lease!Init
  <2> SUFFICES ASSUME Init PROVE Lease!Init
    OBVIOUS
  <2>1. /\ child = "none" /\ ~Exposed
        /\ \A e \in Epochs : ~Open(e) /\ ~Active(e)
    BY DEF Init, Exposed, Granted, Open, Active
  <2>2. LeaseState = "free"
    BY <2>1 DEF LeaseState, ActiveEpochs
  <2>3. Exposed = FALSE
    BY <2>1 DEF Exposed
  <2> QED BY <2>1, <2>2, <2>3 DEF Lease!Init
<1>2. SoloInv /\ [Next]_vars => SoloInv'
  BY SoloStep
<1>3. SoloInv /\ SoloInv' /\ [Next]_vars => [Lease!Next]_(Lease!leaseVars)
  BY LeaseSteps
<1> QED
  BY <1>1, <1>2, <1>3, SoloInit, PTL
  DEF Spec, ImplementsLease, Lease!LeaseSpec
=============================================================================
