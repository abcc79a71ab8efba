------------------------ MODULE FencedProcess_proofs ------------------------
(***************************************************************************)
(* For every timeout, grace period, output limit and set of descendants:   *)
(* the supervisor is held no longer than the timeout and its two waits,    *)
(* leaves nothing in the job, and reports what it cut short.               *)
(***************************************************************************)
EXTENDS FencedProcess, TLAPS

(* Before the second wait, one grace period is still to come.              *)
Clock ==
  /\ pc \in {"start", "assign", "kill"} => now = 0
  /\ pc = "killing" => now =< deadline /\ deadline =< Grace
  /\ pc = "kill2" => now =< Grace
  /\ pc = "killing2" => now =< deadline /\ deadline =< 2 * Grace
  /\ pc \in {"poll", "terminate"} => now =< Timeout
  /\ pc = "sleep" => now < Timeout
  /\ pc = "wait" => now =< deadline /\ deadline =< Timeout + Grace
  /\ pc = "again" => now =< Timeout + Grace
  /\ pc = "wait2" => now =< deadline /\ deadline =< Timeout + 2 * Grace
  /\ ReturnsInTime

(* Only members' children are inside, and nobody is once it is closed.     *)
Inside ==
  /\ pc = "start" => main = "unborn"
  /\ pc \in {"start", "assign"} \cup KillPcs => ~member
  /\ main = "killed" => pc \in KillPcs \cup {"raised"} /\ ~member
  /\ ~member => \A k \in Descendants : kids[k] # "inside"
  /\ pc \in {"read"} \cup Ended =>
       /\ member => main # "running"
       /\ \A k \in Descendants : kids[k] # "inside"

(* The job is terminated for a reason that is flagged, and a process that  *)
(* is waited for while it runs was terminated.                             *)
Flagged ==
  /\ doomed \/ pc = "terminate" => timedOut \/ limited
  /\ pc \in {"wait", "again", "wait2"} /\ main = "running" => doomed
  /\ pc = "again" => doomed

IInv == TypeOK /\ Clock /\ Inside /\ Flagged /\ OutputBounded

LEMMA Parameters ==
  /\ Timeout \in Nat /\ Timeout > 0 /\ Grace \in Nat /\ Grace > 0
  /\ MaxOutput \in Nat /\ MaxSize \in Nat
  BY FencedProcessAssumption DEF FencedProcessAssumption

(* The flags are apart from the rest: they are Boolean, and the rest needs *)
(* arithmetic.                                                             *)
Flags ==
  /\ member \in BOOLEAN /\ doomed \in BOOLEAN
  /\ timedOut \in BOOLEAN /\ limited \in BOOLEAN

Rest ==
  /\ variant \in {"tests", "json"}
  /\ pc \in Pcs
  /\ main \in {"unborn", "running", "killed", "exited"}
  /\ kids \in [Descendants -> {"unborn", "inside", "outside", "gone"}]
  /\ size \in 0 .. MaxSize
  /\ now \in Nat /\ deadline \in Nat
  /\ reported \in 0 .. MaxSize

LEMMA TypeOKParts == TypeOK <=> Flags /\ Rest
  BY DEF TypeOK, Flags, Rest

LEMMA NextFlags == Flags /\ [Next]_vars => Flags'
<1> SUFFICES ASSUME Flags, [Next]_vars PROVE Flags'
  OBVIOUS
<1> USE DEF Flags, procs, reply
<1>1. CASE UNCHANGED vars
  BY <1>1 DEF vars
<1>2. CASE Popen \/ AssignJob \/ KillUnassigned \/ WaitKilled
  BY <1>2, Zenon DEF Popen, AssignJob, KillUnassigned, WaitKilled
<1>3. CASE Poll \/ Terminate \/ Wait
  BY <1>3, Zenon DEF Poll, Terminate, Wait
<1>4. CASE TerminateAgain \/ WaitAgain
  BY <1>4, Zenon DEF TerminateAgain, WaitAgain
<1>5. CASE CloseJob \/ ReadOutput
  BY <1>5, Zenon DEF CloseJob, ReadOutput
<1>6. CASE Tick \/ Write \/ ExitMain \/ \E k \in Descendants : Fork(k) \/ ExitKid(k)
  BY <1>6, Zenon DEF Tick, Write, ExitMain, Fork, ExitKid
<1> QED
  BY <1>1, <1>2, <1>3, <1>4, <1>5, <1>6 DEF Next, Supervisor

LEMMA NextRest == Rest /\ [Next]_vars => Rest'
<1> SUFFICES ASSUME Rest, [Next]_vars PROVE Rest'
  OBVIOUS
<1> USE Parameters DEF Rest, Pcs, KillPcs, Ended, procs, reply
<1>0. variant' = variant
  BY DEF Next, vars
<1>1. CASE UNCHANGED vars
  BY <1>1 DEF vars
<1>2. CASE Popen \/ AssignJob \/ KillUnassigned \/ WaitKilled
  BY <1>0, <1>2 DEF Popen, AssignJob, KillUnassigned, WaitKilled
<1>3. CASE Poll \/ Terminate \/ Wait \/ TerminateAgain \/ WaitAgain
  BY <1>0, <1>3 DEF Poll, Terminate, Wait, TerminateAgain, WaitAgain
<1>4. CASE CloseJob \/ ReadOutput
  BY <1>0, <1>4 DEF CloseJob, ReadOutput
<1>5. CASE Tick \/ Write \/ ExitMain
  BY <1>0, <1>5 DEF Tick, Write, ExitMain
<1>6. ASSUME NEW k \in Descendants, Fork(k) \/ ExitKid(k) PROVE Rest'
  BY <1>0, <1>6 DEF Fork, ExitKid
<1> QED
  BY <1>1, <1>2, <1>3, <1>4, <1>5, <1>6 DEF Next, Supervisor

LEMMA NextTypeOK == TypeOK /\ [Next]_vars => TypeOK'
  BY NextFlags, NextRest, TypeOKParts DEF TypeOK, Flags, Rest

LEMMA InitIInv == Init => IInv
<1> SUFFICES ASSUME Init PROVE IInv
  OBVIOUS
<1>1. TypeOK
  <2>1. Flags
    BY Zenon DEF Init, Flags
  <2>2. Rest
    BY Parameters DEF Init, Rest, Pcs, KillPcs, Ended
  <2> QED
    BY <2>1, <2>2, TypeOKParts
<1>2. Clock
  BY Parameters DEF Init, Clock, ReturnsInTime, KillPcs
<1>3. Inside /\ Flagged /\ OutputBounded
  BY DEF Init, Inside, Flagged, OutputBounded, Ended, KillPcs
<1> QED
  BY <1>1, <1>2, <1>3 DEF IInv

LEMMA NextClock == TypeOK /\ Clock /\ [Next]_vars => Clock'
<1> SUFFICES ASSUME TypeOK, Clock, [Next]_vars PROVE Clock'
  OBVIOUS
<1> USE Parameters DEF Clock, ReturnsInTime, KillPcs
<1>0. now \in Nat /\ deadline \in Nat
  BY DEF TypeOK
<1>1. CASE UNCHANGED vars
  BY <1>1 DEF vars
<1>2. CASE Popen \/ AssignJob \/ KillUnassigned \/ WaitKilled \/ CloseJob \/ ReadOutput
  BY <1>0, <1>2 DEF Popen, AssignJob, KillUnassigned, WaitKilled, CloseJob, ReadOutput, procs
<1>3. CASE Poll \/ Terminate \/ TerminateAgain
  BY <1>0, <1>3 DEF Poll, Terminate, TerminateAgain, procs
<1>4. CASE Wait \/ WaitAgain
  BY <1>0, <1>4 DEF Wait, WaitAgain, procs
<1>5. CASE Tick
  BY <1>0, <1>5 DEF Tick
<1>6. CASE UNCHANGED <<pc, now, deadline>>
  BY <1>6
<1> QED
  BY <1>1, <1>2, <1>3, <1>4, <1>5, <1>6
  DEF Next, Supervisor, Write, ExitMain, Fork, ExitKid

LEMMA NextInside == TypeOK /\ Inside /\ [Next]_vars => Inside'
<1> SUFFICES ASSUME TypeOK, Inside, [Next]_vars PROVE Inside'
  OBVIOUS
<1> USE DEF Inside, Ended, TypeOK, KillPcs
<1>1. CASE UNCHANGED vars
  BY <1>1 DEF vars
<1>2. CASE Popen \/ AssignJob \/ KillUnassigned \/ WaitKilled
  BY <1>2 DEF Popen, AssignJob, KillUnassigned, WaitKilled, procs
<1>3. CASE Poll \/ Terminate \/ Wait \/ TerminateAgain \/ WaitAgain
  BY <1>3 DEF Poll, Terminate, Wait, TerminateAgain, WaitAgain, procs
<1>4. CASE CloseJob
  BY <1>4 DEF CloseJob
<1>5. CASE ReadOutput \/ Tick \/ Write \/ ExitMain
  BY <1>5 DEF ReadOutput, Tick, Write, ExitMain, procs
<1>6. ASSUME NEW k \in Descendants, Fork(k) \/ ExitKid(k) PROVE Inside'
  BY <1>6 DEF Fork, ExitKid, MainRuns
<1> QED
  BY <1>1, <1>2, <1>3, <1>4, <1>5, <1>6 DEF Next, Supervisor

LEMMA NextFlagged == TypeOK /\ Flagged /\ [Next]_vars => Flagged'
<1> SUFFICES ASSUME TypeOK, Flagged, [Next]_vars PROVE Flagged'
  OBVIOUS
<1> USE DEF Flagged, TypeOK
<1>1. CASE UNCHANGED vars
  BY <1>1 DEF vars
<1>2. CASE Popen \/ AssignJob \/ KillUnassigned \/ WaitKilled
  BY <1>2 DEF Popen, AssignJob, KillUnassigned, WaitKilled, procs, reply
<1>3. CASE Poll \/ Terminate \/ Wait \/ TerminateAgain \/ WaitAgain
  BY <1>3 DEF Poll, Terminate, Wait, TerminateAgain, WaitAgain, procs, reply
<1>4. CASE CloseJob \/ ReadOutput \/ Tick \/ Write \/ ExitMain
  BY <1>4 DEF CloseJob, ReadOutput, Tick, Write, ExitMain, procs, reply
<1>5. ASSUME NEW k \in Descendants, Fork(k) \/ ExitKid(k) PROVE Flagged'
  BY <1>5 DEF Fork, ExitKid, reply
<1> QED
  BY <1>1, <1>2, <1>3, <1>4, <1>5 DEF Next, Supervisor

LEMMA NextOutputBounded == TypeOK /\ OutputBounded /\ [Next]_vars => OutputBounded'
<1> SUFFICES ASSUME TypeOK, OutputBounded, [Next]_vars, pc' = "returned"
             PROVE  OutputBounded'
  BY DEF OutputBounded
<1>1. variant' = variant
  BY DEF Next, vars
<1>2. CASE ReadOutput
  BY <1>1, <1>2, Parameters DEF ReadOutput, OutputBounded, TypeOK
<1>3. CASE UNCHANGED <<pc, limited, reported>>
  BY <1>1, <1>3 DEF OutputBounded
<1> QED
  BY <1>2, <1>3 DEF vars, Next, Supervisor, Popen, AssignJob, KillUnassigned, WaitKilled, Poll,
     Terminate, Wait, TerminateAgain, WaitAgain, CloseJob, Tick, Write, ExitMain,
     Fork, ExitKid, reply

LEMMA NextIInv == IInv /\ [Next]_vars => IInv'
  BY NextTypeOK, NextClock, NextInside, NextFlagged, NextOutputBounded DEF IInv

LEMMA Invariance == Spec => []IInv
  BY InitIInv, NextIInv, PTL DEF Spec

-----------------------------------------------------------------------------
(* Every variable keeps its type, whatever the processes do.               *)
THEOREM TypeCorrect == Spec => []TypeOK
<1>1. IInv => TypeOK
  BY DEF IInv
<1> QED
  BY <1>1, Invariance, PTL

(* The supervisor's time never passes beyond the timeout and two waits.    *)
THEOREM HeldInTime == Spec => []ReturnsInTime
<1>1. IInv => ReturnsInTime
  BY DEF IInv, Clock
<1> QED
  BY <1>1, Invariance, PTL

(* Nothing that was in the job runs when the supervisor is back.           *)
THEOREM NothingLeftInside == Spec => []JobEmptied
<1>1. IInv => JobEmptied
  BY DEF IInv, Inside, JobEmptied
<1> QED
  BY <1>1, Invariance, PTL

(* The JSON command never reports more output than its limit.              *)
THEOREM AnswersBounded == Spec => []OutputBounded
<1>1. IInv => OutputBounded
  BY DEF IInv
<1> QED
  BY <1>1, Invariance, PTL

(* A call that returns after it terminated the job says why.               *)
THEOREM TerminationsFlagged == Spec => []KilledIsFlagged
<1>1. IInv => KilledIsFlagged
  BY DEF IInv, Flagged, KilledIsFlagged
<1> QED
  BY <1>1, Invariance, PTL
=============================================================================
