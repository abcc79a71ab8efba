------------------------- MODULE CandidateDecision -------------------------
(***************************************************************************)
(* invoke-candidate: invoke_candidate_decision of candidate_execution.py.  *)
(* A decision is filed in a directory named by a hash of the request, the  *)
(* security contract and the execution lane.  The first call with a key    *)
(* makes the directory, runs the candidate and persists its result; every  *)
(* later call, in whatever state the first one is or died, only reads.     *)
(***************************************************************************)
EXTENDS Naturals, FiniteSets

CONSTANTS
  Callers,       \* runs of invoke-candidate
  Requests,      \* requests, each with its security contract
  MaxFaults      \* bound: crashes and failing system calls

ASSUME CandidateDecisionAssumption ==
  /\ MaxFaults \in Nat
  /\ Requests \cap {"failure", "absent", "torn"} = {}

Lanes == {"PRIMARY", "REPLAY"}
Keys  == Requests \X Lanes
Trees == {"sealed", "changed"}

(* What a run of the candidate comes to: a failure, or a response to some  *)
(* request whose targets keep to its caps, gross exposure and cash or not; *)
(* and the worktree its source was copied from.                            *)
Outcomes == [to : Requests \cup {"failure"}, legal : BOOLEAN, of : Trees]

(* _validated_candidate_response; failures are kept as they are.           *)
Acceptable(o, k) == o.to = "failure" \/ (o.to = k[1] /\ o.legal)

(* A result that is not there, and a file without its content. *)
Absent == [to |-> "absent", legal |-> FALSE, of |-> "sealed"]
Torn   == [to |-> "torn", legal |-> FALSE, of |-> "sealed"]
IsWhole(r) == r \notin {Absent, Torn}

VARIABLES
  pc, key,           \* of each caller: place and key
  source,            \* of each caller: the worktree it copied
  answer,            \* of each caller: the outcome in hand
  tree,              \* the candidate worktree: "sealed" | "changed"
  dir,               \* keys whose runtime directory exists
  result,            \* of each key: candidate-process-result.json
  started,           \* of each key: how often the candidate was started
  returned,          \* of each key: the results callers were given
  faults

vars == <<pc, key, source, answer, tree, dir, result, started, returned, faults>>

Ended == {"done", "failed", "crashed"}
Active == {"lookup", "load", "reserve", "project", "run", "judge", "record",
           "fill"}

Goto(p, label) == pc' = [pc EXCEPT ![p] = label]
Ends(p) == Goto(p, "failed")
Give(p, r) == returned' = [returned EXCEPT ![key[p]] = @ \cup {r}]

Init ==
  /\ pc = [p \in Callers |-> "idle"]
  /\ key \in [Callers -> Keys]
  /\ source = [p \in Callers |-> "sealed"]
  /\ answer = [p \in Callers |-> Absent]
  /\ tree = "sealed"
  /\ dir = {}
  /\ result = [k \in Keys |-> Absent]
  /\ started = [k \in Keys |-> 0]
  /\ returned = [k \in Keys |-> {}]
  /\ faults = 0

(* The bundle is there, and worktree, runtime, request and security        *)
(* contract are all found as it binds them.                                *)
Begin(p) ==
  /\ pc[p] = "idle"
  /\ tree = "sealed"
  /\ \E k \in Keys : key' = [key EXCEPT ![p] = k]
  /\ Goto(p, "lookup")
  /\ UNCHANGED <<source, answer, tree, dir, result, started, returned, faults>>

Lookup(p) ==
  /\ pc[p] = "lookup"
  /\ Goto(p, IF key[p] \in dir THEN "load" ELSE "reserve")
  /\ UNCHANGED <<key, source, answer, tree, dir, result, started, returned, faults>>

(* A directory without a whole result is orphaned; a result is validated   *)
(* once more.                                                              *)
LoadPersisted(p) ==
  /\ pc[p] = "load"
  /\ \/ /\ IsWhole(result[key[p]]) /\ Acceptable(result[key[p]], key[p])
        /\ Give(p, result[key[p]])
        /\ Goto(p, "done")
     \/ /\ IsWhole(result[key[p]]) => ~Acceptable(result[key[p]], key[p])
        /\ Ends(p)
        /\ UNCHANGED returned
  /\ UNCHANGED <<key, source, answer, tree, dir, result, started, faults>>

(* For a mutant: the directory may exist already. *)
ReserveAnyway(p) ==
  /\ pc[p] = "reserve"
  /\ dir' = dir \cup {key[p]}
  /\ Goto(p, "project")
  /\ UNCHANGED <<key, source, answer, tree, result, started, returned, faults>>

Reserve(p) ==
  /\ pc[p] = "reserve"
  /\ \/ key[p] \in dir /\ Ends(p) /\ UNCHANGED dir
     \/ key[p] \notin dir /\ dir' = dir \cup {key[p]} /\ Goto(p, "project")
  /\ UNCHANGED <<key, source, answer, tree, result, started, returned, faults>>

(* For a mutant: a failing copy is answered like a run. *)
ProjectOrAnswer(p) ==
  /\ pc[p] = "project"
  /\ source' = [source EXCEPT ![p] = tree]
  /\ \/ Goto(p, "run") /\ UNCHANGED faults
     \/ faults < MaxFaults /\ faults' = faults + 1 /\ Goto(p, "record")
  /\ UNCHANGED <<key, answer, tree, dir, result, started, returned>>

(* The copy of the candidate's source. *)
Project(p) ==
  /\ pc[p] = "project"
  /\ source' = [source EXCEPT ![p] = tree]
  /\ \/ Goto(p, "run") /\ UNCHANGED faults
     \/ faults < MaxFaults /\ faults' = faults + 1 /\ Ends(p)
  /\ UNCHANGED <<key, answer, tree, dir, result, started, returned>>

(* The candidate is started on the copy and comes to some outcome. *)
Run(p) ==
  /\ pc[p] = "run"
  /\ \E o \in Outcomes :
       o.of = source[p] /\ answer' = [answer EXCEPT ![p] = o]
  /\ started' = [started EXCEPT ![key[p]] = @ + 1]
  /\ Goto(p, "judge")
  /\ UNCHANGED <<key, source, tree, dir, result, returned, faults>>

(* For a mutant: the worktree is not hashed again after the run. *)
JudgeOnce(p) ==
  /\ pc[p] = "judge"
  /\ \/ Acceptable(answer[p], key[p]) /\ Goto(p, "record")
     \/ Ends(p)
  /\ UNCHANGED <<key, source, answer, tree, dir, result, started, returned,
                 faults>>

(* A changed worktree, a changed copy or a response that is not acceptable *)
(* is an error; anything else, a failure of the candidate included, is     *)
(* kept.                                                                   *)
Judge(p) ==
  /\ pc[p] = "judge"
  /\ \/ /\ tree = "sealed" /\ Acceptable(answer[p], key[p])
        /\ Goto(p, "record")
     \/ Ends(p)
  /\ UNCHANGED <<key, source, answer, tree, dir, result, started, returned,
                 faults>>

(* write_json_exclusive of the result, in two steps. *)
Record(p) ==
  /\ pc[p] = "record"
  /\ \/ result[key[p]] # Absent /\ Ends(p) /\ UNCHANGED result
     \/ /\ result[key[p]] = Absent
        /\ result' = [result EXCEPT ![key[p]] = Torn]
        /\ Goto(p, "fill")
  /\ UNCHANGED <<key, source, answer, tree, dir, started, returned, faults>>

(* The answer is given only after it was kept. *)
Fill(p) ==
  /\ pc[p] = "fill"
  /\ \/ /\ result' = [result EXCEPT ![key[p]] = answer[p]]
        /\ Give(p, answer[p])
        /\ Goto(p, "done")
        /\ UNCHANGED faults
     \/ /\ faults < MaxFaults /\ faults' = faults + 1
        /\ result' = [result EXCEPT ![key[p]] = Absent]
        /\ Ends(p)
        /\ UNCHANGED returned
  /\ UNCHANGED <<key, source, answer, tree, dir, started>>

(* The worker calls again, with a new process. *)
Again(p) ==
  /\ pc[p] \in Ended
  /\ Goto(p, "idle")
  /\ answer' = [answer EXCEPT ![p] = Absent]
  /\ source' = [source EXCEPT ![p] = "sealed"]
  /\ UNCHANGED <<key, tree, dir, result, started, returned, faults>>

Crash(p) ==
  /\ pc[p] \in Active
  /\ faults < MaxFaults /\ faults' = faults + 1
  /\ Goto(p, "crashed")
  /\ UNCHANGED <<key, source, answer, tree, dir, result, started, returned>>

Disturb ==
  /\ tree = "sealed"
  /\ faults < MaxFaults /\ faults' = faults + 1
  /\ tree' = "changed"
  /\ UNCHANGED <<pc, key, source, answer, dir, result, started, returned>>

Call(p) ==
  \/ Begin(p) \/ Lookup(p) \/ LoadPersisted(p) \/ Reserve(p) \/ Project(p)
  \/ Run(p) \/ Judge(p) \/ Record(p) \/ Fill(p)

Next == (\E p \in Callers : Call(p) \/ Again(p) \/ Crash(p)) \/ Disturb

Spec == Init /\ [][Next]_vars

-----------------------------------------------------------------------------
TypeOK ==
  /\ pc \in [Callers -> {"idle"} \cup Active \cup Ended]
  /\ key \in [Callers -> Keys]
  /\ source \in [Callers -> Trees]
  /\ answer \in [Callers -> Outcomes \cup {Absent}]
  /\ tree \in Trees
  /\ dir \in SUBSET Keys
  /\ result \in [Keys -> Outcomes \cup {Absent, Torn}]
  /\ started \in [Keys -> Nat]
  /\ returned \in [Keys -> SUBSET Outcomes]
  /\ faults \in 0 .. MaxFaults

(* However calls overlap, fail and are repeated, the candidate is executed *)
(* at most once for a request, security contract and lane.                 *)
RunsOnce == \A k \in Keys : started[k] =< 1

(* "A worker retry returns those identical validated bytes": all callers   *)
(* with one key are given the result on disk, which is a failure or a      *)
(* legal response to that very request, and which was computed by the      *)
(* candidate as it was finalized although its source is copied after the   *)
(* worktree was compared.                                                  *)
AnswerStands ==
  \A k \in Keys : \A o \in returned[k] :
    o = result[k] /\ Acceptable(o, k) /\ o.of = "sealed"

(* Nobody is going to write the result of this directory. *)
Orphaned(k) ==
  /\ k \in dir /\ ~IsWhole(result[k])
  /\ \A p \in Callers :
       key[p] = k => pc[p] \notin {"project", "run", "judge", "record", "fill"}

(* An orphaned runtime directory fails closed: once the process that made  *)
(* it is gone without a result, no later call ever fills or removes it.    *)
OrphanStaysClosed == [][\A k \in Keys : Orphaned(k) => Orphaned(k)']_vars

(* The result of a key is written as io.py promises: it is never replaced, *)
(* and a torn one is completed by nobody but the caller that began it.     *)
Results == INSTANCE ExclusiveFile WITH
  Writers <- Callers, Names <- Keys, Values <- Outcomes,
  made <- {k \in Keys : result[k] # Absent},
  kept <- {x \in Keys \X Outcomes : result[x[1]] = x[2]},
  filling <- {x \in Callers \X Keys : pc[x[1]] = "fill" /\ key[x[1]] = x[2]}

WritesOnce == Results!FileSpec
=============================================================================
