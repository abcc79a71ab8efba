--------------------------- MODULE FencedProcess ---------------------------
(***************************************************************************)
(* The supervision of one untrusted process in a Windows Job:              *)
(* run_fenced_candidate_process of candidate_testing.py ("tests") and      *)
(* run_fenced_candidate_json_process of candidate_execution.py ("json").   *)
(* The supervisor polls; between two polls the process, and what it has    *)
(* started, may do anything.  Time is counted in polling intervals and     *)
(* passes while the supervisor sleeps or waits.                            *)
(***************************************************************************)
EXTENDS Naturals

CONSTANTS
  Descendants,   \* processes that the supervised one may start
  Timeout,       \* timeout_seconds
  Grace,         \* the timeout of one wait
  MaxOutput,     \* the limit on the output
  MaxSize        \* bound: output the processes produce at most

ASSUME FencedProcessAssumption ==
  /\ Timeout \in Nat \ {0} /\ Grace \in Nat \ {0}
  /\ MaxOutput \in Nat /\ MaxSize \in Nat /\ MaxSize > MaxOutput

VARIABLES
  variant,        \* which of the two functions was called
  pc,             \* of the supervisor
  main,           \* the process it started
  kids,           \* the descendants, inside the job or outside
  member,         \* main was assigned to the job
  doomed,         \* TerminateJobObject was called
  size,           \* bytes in the output files
  now, deadline,  \* time since the start, end of the current wait
  timedOut, limited, reported  \* what is returned

vars == <<variant, pc, main, kids, member, doomed, size, now, deadline,
          timedOut, limited, reported>>
procs == <<main, kids, member, doomed>>
reply == <<timedOut, limited, reported>>

Ended == {"returned", "raised"}
KillPcs == {"kill", "killing", "kill2", "killing2"}
Pcs == {"start", "assign", "poll", "sleep", "terminate", "wait", "again",
        "wait2", "close", "raise", "read"} \cup KillPcs \cup Ended

Init ==
  /\ variant \in {"tests", "json"}
  /\ pc = "start"
  /\ main = "unborn"
  /\ kids = [k \in Descendants |-> "unborn"]
  /\ member = FALSE /\ doomed = FALSE
  /\ size = 0
  /\ now = 0 /\ deadline = 0
  /\ timedOut = FALSE /\ limited = FALSE /\ reported = 0

(***************************************************************************)
(* The supervisor.                                                         *)
(***************************************************************************)
Popen ==
  /\ pc = "start"
  /\ \/ pc' = "assign" /\ main' = "running"
     \/ pc' = "raised" /\ UNCHANGED main
  /\ UNCHANGED <<kids, member, doomed, size, now, deadline, reply>>

(* create_and_assign_windows_job: the process runs already.  It is killed  *)
(* there when it cannot be assigned ("kill"), and by the caller whatever   *)
(* went wrong ("kill2").                                                   *)
AssignJob ==
  /\ pc = "assign"
  /\ \/ pc' = "poll" /\ member' = (main = "running")
     \/ pc' \in {"kill", "kill2"} /\ UNCHANGED member
  /\ UNCHANGED <<main, kids, doomed, size, now, deadline, reply>>

(* Without a job only the process itself is killed. *)
KillUnassigned ==
  /\ pc \in {"kill", "kill2"}
  /\ main' = IF main = "running" THEN "killed" ELSE main
  /\ deadline' = now + Grace
  /\ pc' = IF pc = "kill" THEN "killing" ELSE "killing2"
  /\ UNCHANGED <<kids, member, doomed, size, now, reply>>

(* The caller catches an expired wait too, and kills and waits once more.  *)
(* Nothing is left to wait for if the first wait saw the exit.             *)
WaitKilled ==
  /\ pc \in {"killing", "killing2"}
  /\ \/ main = "exited" /\ pc' = "raised"
     \/ /\ main # "exited" /\ now >= deadline
        /\ pc' = IF pc = "killing" THEN "kill2" ELSE "raised"
  /\ UNCHANGED <<procs, size, now, deadline, reply>>

(* An exit counts before the clock does, the clock before the size. *)
Poll ==
  /\ pc = "poll"
  /\ \/ /\ main = "exited"
        /\ pc' = "wait"
        /\ deadline' = now + Grace
        /\ UNCHANGED <<timedOut, limited>>
     \/ /\ main = "running" /\ now >= Timeout
        /\ timedOut' = TRUE
        /\ pc' = "terminate"
        /\ UNCHANGED <<limited, deadline>>
     \/ /\ main = "running" /\ now < Timeout /\ size > MaxOutput
        /\ limited' = TRUE
        /\ pc' = "terminate"
        /\ UNCHANGED <<timedOut, deadline>>
     \/ /\ main = "running" /\ now < Timeout /\ size =< MaxOutput
        /\ pc' = "sleep"
        /\ UNCHANGED <<timedOut, limited, deadline>>
  /\ UNCHANGED <<procs, size, now, reported>>

(* For a mutant: the grace period is counted from the start. *)
TerminateLate ==
  /\ pc = "terminate"
  /\ doomed' = TRUE
  /\ deadline' = Grace - now
  /\ pc' = "wait"
  /\ UNCHANGED <<main, kids, member, size, now, reply>>

Terminate ==
  /\ pc = "terminate"
  /\ doomed' = TRUE
  /\ deadline' = now + Grace
  /\ pc' = "wait"
  /\ UNCHANGED <<main, kids, member, size, now, reply>>

(* For a mutant: the wait has no timeout. *)
WaitUntilExit ==
  /\ pc = "wait"
  /\ main = "exited" /\ pc' = "close"
  /\ UNCHANGED <<procs, size, now, deadline, reply>>

Wait ==
  /\ pc = "wait"
  /\ \/ main = "exited" /\ pc' = "close"
     \/ main = "running" /\ now >= deadline /\ pc' = "again"
  /\ UNCHANGED <<procs, size, now, deadline, reply>>

TerminateAgain ==
  /\ pc = "again"
  /\ doomed' = TRUE
  /\ limited' = (limited \/ variant = "json")
  /\ deadline' = now + Grace
  /\ pc' = "wait2"
  /\ UNCHANGED <<main, kids, member, size, now, timedOut, reported>>

(* For a mutant: an expiry is followed by another attempt, without end. *)
WaitForever ==
  /\ pc = "wait2"
  /\ \/ main = "exited" /\ pc' = "close"
     \/ main = "running" /\ now >= deadline /\ pc' = "again"
  /\ UNCHANGED <<procs, size, now, deadline, reply>>

(* A second expiry is raised, after the handle was closed. *)
WaitAgain ==
  /\ pc = "wait2"
  /\ \/ main = "exited" /\ pc' = "close"
     \/ main = "running" /\ now >= deadline /\ pc' = "raise"
  /\ UNCHANGED <<procs, size, now, deadline, reply>>

(* For a mutant: the handle is closed on success only. *)
CloseJobOnSuccess ==
  /\ pc \in {"close", "raise"}
  /\ IF pc = "close"
     THEN /\ kids' = [k \in Descendants |->
                        IF kids[k] = "inside" THEN "gone" ELSE kids[k]]
          /\ main' = IF member THEN "exited" ELSE main
     ELSE UNCHANGED <<kids, main>>
  /\ pc' = IF pc = "close" THEN "read" ELSE "raised"
  /\ UNCHANGED <<member, doomed, size, now, deadline, reply>>

(* Closing the last handle kills whatever is inside the job. *)
CloseJob ==
  /\ pc \in {"close", "raise"}
  /\ kids' = [k \in Descendants |->
                IF kids[k] = "inside" THEN "gone" ELSE kids[k]]
  /\ main' = IF member THEN "exited" ELSE main
  /\ pc' = IF pc = "close" THEN "read" ELSE "raised"
  /\ UNCHANGED <<member, doomed, size, now, deadline, reply>>

(* For a mutant: the lengths are trusted to the polls. *)
ReadUnchecked ==
  /\ pc = "read"
  /\ reported' = size
  /\ pc' = "returned"
  /\ UNCHANGED <<procs, size, now, deadline, timedOut, limited>>

(* Only the JSON variant compares the final lengths with the limits, and   *)
(* drops an output that is too long.                                       *)
ReadOutput ==
  /\ pc = "read"
  /\ IF variant = "json" /\ size > MaxOutput
     THEN limited' = TRUE /\ reported' = 0
     ELSE reported' = size /\ UNCHANGED limited
  /\ pc' = "returned"
  /\ UNCHANGED <<procs, size, now, deadline, timedOut>>

(***************************************************************************)
(* The processes and the clock.                                            *)
(***************************************************************************)

(* A killed process, or one in a terminated job, executes nothing more. *)
MainRuns == main = "running" /\ ~(member /\ doomed)
KidRuns(k) == kids[k] = "outside" \/ (kids[k] = "inside" /\ ~doomed)
SomeRuns == MainRuns \/ \E k \in Descendants : KidRuns(k)

Write ==
  /\ SomeRuns
  /\ size < MaxSize
  /\ size' = size + 1
  /\ UNCHANGED <<pc, procs, now, deadline, reply>>

(* A descendant is in the job if its parent is when it starts it. *)
Fork(k) ==
  /\ MainRuns
  /\ kids[k] = "unborn"
  /\ kids' = [kids EXCEPT ![k] = IF member THEN "inside" ELSE "outside"]
  /\ UNCHANGED <<pc, main, member, doomed, size, now, deadline, reply>>

ExitMain ==
  /\ main \in {"running", "killed"}
  /\ main' = "exited"
  /\ UNCHANGED <<pc, kids, member, doomed, size, now, deadline, reply>>

ExitKid(k) ==
  /\ kids[k] \in {"inside", "outside"}
  /\ kids' = [kids EXCEPT ![k] = "gone"]
  /\ UNCHANGED <<pc, main, member, doomed, size, now, deadline, reply>>

Tick ==
  /\ \/ pc = "sleep" /\ pc' = "poll"
     \/ /\ pc \in {"wait", "wait2", "killing", "killing2"}
        /\ main # "exited" /\ now < deadline
        /\ UNCHANGED pc
  /\ now' = now + 1
  /\ UNCHANGED <<procs, size, deadline, reply>>

Supervisor ==
  \/ Popen \/ AssignJob \/ KillUnassigned \/ WaitKilled \/ Poll
  \/ Terminate \/ Wait \/ TerminateAgain \/ WaitAgain \/ CloseJob \/ ReadOutput

Next ==
  /\ \/ Supervisor \/ Tick \/ Write \/ ExitMain
     \/ \E k \in Descendants : Fork(k) \/ ExitKid(k)
  /\ UNCHANGED variant

Spec == Init /\ [][Next]_vars

(* The supervisor is scheduled and time passes; nothing is assumed of the  *)
(* processes it supervises, not even that they die when terminated.        *)
FairSpec == /\ Spec
            /\ WF_vars(Supervisor /\ UNCHANGED variant)
            /\ WF_vars(Tick /\ UNCHANGED variant)

-----------------------------------------------------------------------------
TypeOK ==
  /\ variant \in {"tests", "json"}
  /\ pc \in Pcs
  /\ main \in {"unborn", "running", "killed", "exited"}
  /\ kids \in [Descendants -> {"unborn", "inside", "outside", "gone"}]
  /\ member \in BOOLEAN /\ doomed \in BOOLEAN
  /\ size \in 0 .. MaxSize
  /\ now \in Nat /\ deadline \in Nat
  /\ timedOut \in BOOLEAN /\ limited \in BOOLEAN
  /\ reported \in 0 .. MaxSize

(* The JSON command never reports more output than its limit, whatever was *)
(* written since the last poll and however it ended.  (Of the test command *)
(* this is not true: what it writes after the last poll is reported in     *)
(* full and without the flag.)                                             *)
OutputBounded ==
  pc = "returned" /\ variant = "json" /\ ~limited => reported =< MaxOutput

(* However the processes behave, time never passes beyond the timeout and  *)
(* two waits, and a run that never came into the job takes the two waits   *)
(* at most: a stuck process cannot hold the supervisor for longer.         *)
ReturnsInTime ==
  /\ now =< Timeout + 2 * Grace
  /\ pc \in KillPcs => now =< 2 * Grace

(* When the supervisor is back, on whatever path, no process that was in   *)
(* the job is left.                                                        *)
JobEmptied ==
  pc \in Ended =>
    /\ member => main # "running"
    /\ \A k \in Descendants : kids[k] # "inside"

(* A run that was cut short says so: the job is never terminated by a call *)
(* that returns without a flag.                                            *)
KilledIsFlagged == pc = "returned" /\ doomed => timedOut \/ limited

(* The supervisor always comes back. *)
Returns == <>(pc \in Ended)
=============================================================================
