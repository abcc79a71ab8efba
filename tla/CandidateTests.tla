--------------------------- MODULE CandidateTests ---------------------------
(***************************************************************************)
(* test-candidate and finalize-candidate on one Builder invocation:        *)
(* run_candidate_tests of candidate_testing.py, and selection, building    *)
(* and publication of the final artifacts in artifact_bundle.py.           *)
(*                                                                         *)
(* Both commands may be run any number of times, at once, and die anywhere.*)
(* What they share is on disk: one immutable manifest and one scratch      *)
(* directory per version of the test runner, and the cycle's output files, *)
(* each created exclusively and never replaced.                            *)
(***************************************************************************)
EXTENDS Naturals, FiniteSets

CONSTANTS
  Testers,       \* runs of test-candidate
  Finalizers,    \* runs of finalize-candidate
  MaxRunner,     \* bound: versions of candidate_testing.py
  MaxFaults      \* bound: crashes and failing system calls

ASSUME CandidateTestsAssumption ==
  /\ MaxRunner \in Nat \ {0} /\ MaxFaults \in Nat

Procs == Testers \cup Finalizers
Runners == 1 .. MaxRunner

(* Verdicts of an attempt.  Only the first two can be finalized. *)
Verdicts == {"PASSED", "FAILED", "PROCESS_ERROR", "INTEGRITY_FAILURE",
             "TIMED_OUT", "RESOURCE_LIMIT"}

(* The files under output/: patch.diff, candidate_manifest.json,           *)
(* validation_request.json, candidate_artifact_bundle.json and             *)
(* candidate_test_manifest.json.                                           *)
Files == {"patch", "challenger", "validation", "bundle", "test"}
Executable == {"validation", "bundle"}

Trees == {"sealed", "changed"}

VARIABLES
  pc,          \* of each process: its place
  key,         \* of each process: the version of the attempt in hand
  verdict,     \* of each process: the verdict in hand
  hashed,      \* of each finalizer: the worktree its code_hash is of
  at,          \* of each finalizer: the output file it is busy with
  runner,      \* the version of candidate_testing.py on disk
  tree,        \* the candidate worktree
  expired,     \* the request's expires_at has passed
  scratch,     \* versions whose scratch directory exists
  attempt,     \* of each version: its manifest
  executed,    \* of each version: times the candidate's tests were started
  output,      \* of each output file: its content
  faults

procVars == <<pc, key, verdict, hashed, at>>
testVars == <<scratch, attempt, executed>>
vars == <<procVars, runner, tree, expired, testVars, output, faults>>

Ended == {"done", "failed", "crashed"}
TestPcs == {"name", "reserve", "project", "run", "record", "recording"}
FinalPcs == {"select", "inputs", "reselect", "build", "guard", "look",
             "create", "fill"}

Goto(p, label) == pc' = [pc EXCEPT ![p] = label]
Ends(p) == Goto(p, "failed")

(* The content of an output file: the patch depends on the sealed inputs   *)
(* alone, everything else on the attempt, and what binds code_hash on the  *)
(* worktree that was hashed.                                               *)
Absent == <<"absent", 0, "none">>
Torn   == <<"torn", 0, "none">>
Content(f, r, t) ==
  CASE f = "patch" -> <<"doc", 0, "none">>
    [] f = "test"  -> <<"doc", r, "none">>
    [] OTHER       -> <<"doc", r, t>>
IsWhole(c) == c[1] = "doc"

-----------------------------------------------------------------------------
Init ==
  /\ pc = [p \in Procs |-> "idle"]
  /\ key = [p \in Procs |-> 1]
  /\ verdict = [p \in Procs |-> "none"]
  /\ hashed = [p \in Procs |-> "sealed"]
  /\ at = [p \in Procs |-> "patch"]
  /\ runner = 1
  /\ tree = "sealed"
  /\ expired = FALSE
  /\ scratch = {}
  /\ attempt = [r \in Runners |-> "absent"]
  /\ executed = [r \in Runners |-> 0]
  /\ output = [f \in Files |-> Absent]
  /\ faults = 0

(***************************************************************************)
(* run_candidate_tests.                                                    *)
(***************************************************************************)

(* The inputs are found as validated, and the Builder's result is still in *)
(* time: load_candidate_inputs validates it once more.                     *)
InputsValid == tree = "sealed" /\ ~expired

BeginTest(p) ==
  /\ pc[p] = "idle" /\ p \in Testers
  /\ InputsValid
  /\ Goto(p, "name")
  /\ UNCHANGED <<key, verdict, hashed, at, runner, tree, expired, testVars,
                 output, faults>>

(* The attempt is named by the hash of the file on disk; a manifest under  *)
(* that name is the answer, an unreadable one an error.                    *)
NameAttempt(p) ==
  /\ pc[p] = "name"
  /\ key' = [key EXCEPT ![p] = runner]
  /\ \/ attempt[runner] = "absent" /\ Goto(p, "reserve")
     \/ attempt[runner] = "torn" /\ Ends(p)
     \/ attempt[runner] \in Verdicts /\ Goto(p, "done")
  /\ UNCHANGED <<verdict, hashed, at, runner, tree, expired, testVars, output,
                 faults>>

(* For a mutant: a scratch directory left behind is used again. *)
ReserveScratchAnyway(p) ==
  /\ pc[p] = "reserve"
  /\ scratch' = scratch \cup {key[p]}
  /\ Goto(p, "project")
  /\ UNCHANGED <<key, verdict, hashed, at, runner, tree, expired, attempt,
                 executed, output, faults>>

ReserveScratch(p) ==
  /\ pc[p] = "reserve"
  /\ \/ /\ key[p] \in scratch
        /\ Ends(p)
        /\ UNCHANGED scratch
     \/ /\ key[p] \notin scratch
        /\ scratch' = scratch \cup {key[p]}
        /\ Goto(p, "project")
  /\ UNCHANGED <<key, verdict, hashed, at, runner, tree, expired, attempt,
                 executed, output, faults>>

(* The copies of tests and source; an error here leaves the scratch        *)
(* directory without a manifest.                                           *)
Project(p) ==
  /\ pc[p] = "project"
  /\ \/ Goto(p, "run") /\ UNCHANGED faults
     \/ faults < MaxFaults /\ faults' = faults + 1 /\ Ends(p)
  /\ UNCHANGED <<key, verdict, hashed, at, runner, tree, expired, testVars,
                 output>>

(* How the fenced process ends, and the verdict on it: an error to start   *)
(* outranks a changed hash, and that outranks every limit and exit code.   *)
Results == {"error", "timeout", "limit", "good", "bad"}
VerdictOf(result, unchanged) ==
  CASE result = "error"   -> "PROCESS_ERROR"
    [] ~unchanged         -> "INTEGRITY_FAILURE"
    [] result = "timeout" -> "TIMED_OUT"
    [] result = "limit"   -> "RESOURCE_LIMIT"
    [] result = "good"    -> "PASSED"
    [] OTHER              -> "FAILED"

RunTests(p) ==
  /\ pc[p] = "run"
  /\ \E result \in Results, projections \in BOOLEAN :
       verdict' = [verdict EXCEPT ![p] =
                     VerdictOf(result, projections /\ tree = "sealed")]
  /\ executed' = [executed EXCEPT ![key[p]] = @ + 1]
  /\ Goto(p, "record")
  /\ UNCHANGED <<key, hashed, at, runner, tree, expired, scratch, attempt,
                 output, faults>>

(* write_json_exclusive of the manifest, in two steps. *)
CreateManifest(p) ==
  /\ pc[p] = "record"
  /\ \/ /\ attempt[key[p]] # "absent"
        /\ Ends(p)
        /\ UNCHANGED attempt
     \/ /\ attempt[key[p]] = "absent"
        /\ attempt' = [attempt EXCEPT ![key[p]] = "torn"]
        /\ Goto(p, "recording")
  /\ UNCHANGED <<key, verdict, hashed, at, runner, tree, expired, scratch,
                 executed, output, faults>>

FillManifest(p) ==
  /\ pc[p] = "recording"
  /\ \/ /\ attempt' = [attempt EXCEPT ![key[p]] = verdict[p]]
        /\ Goto(p, "done")
        /\ UNCHANGED faults
     \/ /\ faults < MaxFaults /\ faults' = faults + 1
        /\ attempt' = [attempt EXCEPT ![key[p]] = "absent"]
        /\ Ends(p)
  /\ UNCHANGED <<key, verdict, hashed, at, runner, tree, expired, scratch,
                 executed, output>>

(***************************************************************************)
(* finalize_candidate_outcome.                                             *)
(***************************************************************************)
BeginFinalize(p) ==
  /\ pc[p] = "idle" /\ p \in Finalizers
  /\ Goto(p, "select")
  /\ UNCHANGED <<key, verdict, hashed, at, runner, tree, expired, testVars,
                 output, faults>>

(* Any readable attempt of the current runner decides which way to go.     *)
Select(p) ==
  /\ pc[p] = "select"
  /\ \/ attempt[runner] \in {"absent", "torn"} /\ Ends(p) /\ UNCHANGED verdict
     \/ /\ attempt[runner] \in Verdicts
        /\ verdict' = [verdict EXCEPT ![p] =
                         IF attempt[runner] = "PASSED" THEN "PASSED"
                         ELSE "FAILED"]
        /\ Goto(p, "inputs")
  /\ UNCHANGED <<key, hashed, at, runner, tree, expired, testVars, output,
                 faults>>

LoadInputs(p) ==
  /\ pc[p] = "inputs"
  /\ IF InputsValid THEN Goto(p, "reselect") ELSE Ends(p)
  /\ UNCHANGED <<key, verdict, hashed, at, runner, tree, expired, testVars,
                 output, faults>>

(* For a mutant: any attempt of the current runner will do. *)
ReselectAny(p) ==
  /\ pc[p] = "reselect"
  /\ \/ attempt[runner] \in {"absent", "torn"} /\ Ends(p) /\ UNCHANGED key
     \/ /\ attempt[runner] \in Verdicts
        /\ key' = [key EXCEPT ![p] = runner]
        /\ Goto(p, "build")
  /\ UNCHANGED <<verdict, hashed, at, runner, tree, expired, testVars, output,
                 faults>>

(* The runner is hashed again, and the attempt must have exactly the       *)
(* verdict that was chosen.                                                *)
Reselect(p) ==
  /\ pc[p] = "reselect"
  /\ \/ attempt[runner] # verdict[p] /\ Ends(p) /\ UNCHANGED key
     \/ /\ attempt[runner] = verdict[p]
        /\ key' = [key EXCEPT ![p] = runner]
        /\ Goto(p, "build")
  /\ UNCHANGED <<verdict, hashed, at, runner, tree, expired, testVars, output,
                 faults>>

(* build_challenger_manifest asks for the time, and for the paths that the *)
(* command protects with --protected-champion-path: the candidate may      *)
(* change one of them.  Then it hashes the worktree once more.             *)
Build(p, protected) ==
  /\ pc[p] = "build"
  /\ \/ /\ expired \/ protected
        /\ Ends(p)
        /\ UNCHANGED <<hashed, at>>
     \/ /\ ~expired /\ ~protected
        /\ hashed' = [hashed EXCEPT ![p] = tree]
        /\ at' = [at EXCEPT ![p] = "patch"]
        /\ Goto(p, IF verdict[p] = "PASSED" THEN "look" ELSE "guard")
  /\ UNCHANGED <<key, verdict, runner, tree, expired, testVars, output,
                 faults>>

(***************************************************************************)
(* publish_finalized_candidate and publish_failed_candidate.               *)
(***************************************************************************)
GuardFailed(p) ==
  /\ pc[p] = "guard"
  /\ IF \E f \in Executable : output[f] # Absent THEN Ends(p)
     ELSE Goto(p, "look")
  /\ UNCHANGED <<key, verdict, hashed, at, runner, tree, expired, testVars,
                 output, faults>>

(* The order of the outputs; a failed candidate has no executable ones. *)
Following(f, v) ==
  CASE f = "patch"      -> "challenger"
    [] f = "challenger" -> IF v = "PASSED" THEN "validation" ELSE "test"
    [] f = "validation" -> "bundle"
    [] f = "bundle"     -> "test"
    [] OTHER            -> "end"

Mine(p) == Content(at[p], key[p], hashed[p])

(* For a mutant: the end of the list is not noticed. *)
AdvancePast(p) ==
  Goto(p, "look") /\ at' = [at EXCEPT ![p] = Following(at[p], verdict[p])]

Advance(p) ==
  LET next == Following(at[p], verdict[p])
  IN  IF next = "end" THEN Goto(p, "done") /\ UNCHANGED at
      ELSE Goto(p, "look") /\ at' = [at EXCEPT ![p] = next]

(* For a mutant: whatever is there is passed over. *)
LookAway(p) ==
  /\ pc[p] = "look"
  /\ \/ output[at[p]] = Absent /\ Goto(p, "create") /\ UNCHANGED at
     \/ output[at[p]] # Absent /\ Advance(p)
  /\ UNCHANGED <<key, verdict, hashed, runner, tree, expired, testVars,
                 output, faults>>

(* For a mutant: publication is not idempotent. *)
LookOnce(p) ==
  /\ pc[p] = "look"
  /\ IF output[at[p]] = Absent THEN Goto(p, "create") ELSE Ends(p)
  /\ UNCHANGED <<key, verdict, hashed, at, runner, tree, expired, testVars,
                 output, faults>>

(* Equal bytes are passed over, other bytes are a conflict. *)
Look(p) ==
  /\ pc[p] = "look"
  /\ \/ output[at[p]] = Absent /\ Goto(p, "create") /\ UNCHANGED at
     \/ output[at[p]] = Mine(p) /\ Advance(p)
     \/ output[at[p]] \notin {Absent, Mine(p)} /\ Ends(p) /\ UNCHANGED at
  /\ UNCHANGED <<key, verdict, hashed, runner, tree, expired, testVars,
                 output, faults>>

(* The exclusive write, in two steps. *)
Create(p) ==
  /\ pc[p] = "create"
  /\ \/ output[at[p]] # Absent /\ Ends(p) /\ UNCHANGED output
     \/ /\ output[at[p]] = Absent
        /\ output' = [output EXCEPT ![at[p]] = Torn]
        /\ Goto(p, "fill")
  /\ UNCHANGED <<key, verdict, hashed, at, runner, tree, expired, testVars,
                 faults>>

Fill(p) ==
  /\ pc[p] = "fill"
  /\ \/ /\ output' = [output EXCEPT ![at[p]] = Mine(p)]
        /\ Advance(p)
        /\ UNCHANGED faults
     \/ /\ faults < MaxFaults /\ faults' = faults + 1
        /\ output' = [output EXCEPT ![at[p]] = Absent]
        /\ Ends(p)
        /\ UNCHANGED at
  /\ UNCHANGED <<key, verdict, hashed, runner, tree, expired, testVars>>

(***************************************************************************)
(* The surroundings.                                                       *)
(***************************************************************************)

(* The command is given again, by a new process. *)
Again(p) ==
  /\ pc[p] \in Ended
  /\ Goto(p, "idle")
  /\ key' = [key EXCEPT ![p] = 1]
  /\ verdict' = [verdict EXCEPT ![p] = "none"]
  /\ hashed' = [hashed EXCEPT ![p] = "sealed"]
  /\ at' = [at EXCEPT ![p] = "patch"]
  /\ UNCHANGED <<runner, tree, expired, testVars, output, faults>>

Crash(p) ==
  /\ pc[p] \in TestPcs \cup FinalPcs
  /\ faults < MaxFaults /\ faults' = faults + 1
  /\ Goto(p, "crashed")
  /\ UNCHANGED <<key, verdict, hashed, at, runner, tree, expired, testVars,
                 output>>

(* The host runner is versioned or repaired. *)
Upgrade ==
  /\ runner < MaxRunner
  /\ runner' = runner + 1
  /\ UNCHANGED <<procVars, tree, expired, testVars, output, faults>>

(* Somebody changes a file of the candidate worktree. *)
Disturb ==
  /\ tree = "sealed"
  /\ faults < MaxFaults /\ faults' = faults + 1
  /\ tree' = "changed"
  /\ UNCHANGED <<procVars, runner, expired, testVars, output>>

(* The request's expires_at passes. *)
Expire ==
  /\ ~expired
  /\ expired' = TRUE
  /\ UNCHANGED <<procVars, runner, tree, testVars, output, faults>>

Test(p) ==
  \/ BeginTest(p) \/ NameAttempt(p) \/ ReserveScratch(p) \/ Project(p)
  \/ RunTests(p) \/ CreateManifest(p) \/ FillManifest(p)

Finalize(p) ==
  \/ BeginFinalize(p) \/ Select(p) \/ LoadInputs(p) \/ Reselect(p)
  \/ \E protected \in BOOLEAN : Build(p, protected)
  \/ GuardFailed(p) \/ Look(p) \/ Create(p) \/ Fill(p)

Next ==
  \/ \E p \in Procs : Test(p) \/ Finalize(p) \/ Again(p) \/ Crash(p)
  \/ Upgrade \/ Disturb \/ Expire

Spec == Init /\ [][Next]_vars

(* A command that was given runs on and is given again by a new process,   *)
(* and some of those commands are finalize-candidate; of those that come   *)
(* as far as Build, some protect no path that the candidate changes.       *)
Fairness ==
  /\ \A p \in Procs : WF_vars(Test(p) \/ Finalize(p) \/ Again(p))
  /\ SF_vars(\E p \in Procs : BeginFinalize(p))
  /\ SF_vars(\E p \in Procs : Build(p, FALSE))

FairSpec == Spec /\ Fairness

-----------------------------------------------------------------------------
Contents ==
  {Absent, Torn}
    \cup ({"doc"} \X (0 .. MaxRunner) \X (Trees \cup {"none"}))

TypeOK ==
  /\ pc \in [Procs -> {"idle"} \cup TestPcs \cup FinalPcs \cup Ended]
  /\ key \in [Procs -> Runners]
  /\ verdict \in [Procs -> Verdicts \cup {"none"}]
  /\ hashed \in [Procs -> Trees]
  /\ at \in [Procs -> Files]
  /\ runner \in Runners
  /\ tree \in Trees
  /\ expired \in BOOLEAN
  /\ scratch \in SUBSET Runners
  /\ attempt \in [Runners -> Verdicts \cup {"absent", "torn"}]
  /\ executed \in [Runners -> Nat]
  /\ output \in [Files -> Contents]
  /\ faults \in 0 .. MaxFaults

(* However many test-candidate commands run at once, crash and are given   *)
(* again, the candidate's tests are started at most once per version of    *)
(* the host runner: "repeating an unchanged runner attempt is idempotent". *)
AttemptOnce == \A r \in Runners : executed[r] =< 1

(* Whatever finalizers of different runner versions and verdicts do at     *)
(* once, the output files that depend on an attempt all come from the same *)
(* one, and those that bind code_hash from the same hash.                  *)
OutputsAgree ==
  \A f, g \in Files \ {"patch"} :
    IsWhole(output[f]) /\ IsWhole(output[g]) =>
      /\ output[f][2] = output[g][2]
      /\ "test" \notin {f, g} => output[f][3] = output[g][3]

(* The outputs keep to the verdict: an executable output, even a torn one, *)
(* is only found beside the Challenger manifest of an attempt that passed  *)
(* on the sealed worktree, and a host that finds the test manifest finds   *)
(* everything its verdict calls for, and nothing executable beside a       *)
(* failure.                                                                *)
VerdictKept ==
  /\ \A f \in Executable :
       output[f] # Absent =>
         /\ IsWhole(output["challenger"])
         /\ attempt[output["challenger"][2]] = "PASSED"
  /\ IsWhole(output["test"]) =>
       LET v == attempt[output["test"][2]]
       IN  /\ v \in {"PASSED", "FAILED"}
           /\ \A f \in Files :
                IF v = "FAILED" /\ f \in Executable THEN output[f] = Absent
                ELSE IsWhole(output[f])

(* Finished artifacts are immutable: no step alters or removes a whole     *)
(* output or an attempt's manifest.                                        *)
Immutable ==
  [][/\ \A f \in Files : IsWhole(output[f]) => output'[f] = output[f]
     /\ \A r \in Runners : attempt[r] \in Verdicts => attempt'[r] = attempt[r]
    ]_vars

(* Everything a finalization of attempt r would publish is published. *)
Published(r) ==
  \A f \in Files \ (IF attempt[r] = "PASSED" THEN {} ELSE Executable) :
    IsWhole(output[f]) /\ output[f][2] \in {0, r}

(* What can stop it: the end of the request's time, a worktree that        *)
(* changed, a file torn by a process that died in the middle of it, and    *)
(* files of another attempt.  The invocation is completed, and its lease   *)
(* settled (module Invocation).                                            *)
Obstructed(r) ==
  \/ ~InputsValid
  \/ \E f \in Files :
       /\ output[f] = Torn
       /\ \A p \in Finalizers : ~(pc[p] = "fill" /\ at[p] = f)
  \/ \E f \in Files \ {"patch"} : IsWhole(output[f]) /\ output[f][2] # r

(* While the runner stays the same and the request has not expired,        *)
(* repeating finalize-candidate completes the publication of a passed or   *)
(* failed attempt, whatever writes failed on the way and whoever tests or  *)
(* finalizes, protected paths included, beside it.                         *)
FinalizationCompletes ==
  LET Attempted == attempt[runner] \in {"PASSED", "FAILED"}
  IN  Attempted ~> Published(runner) \/ Obstructed(runner) \/ ~Attempted

(* Outputs and attempt manifests are written as io.py promises, whatever   *)
(* testers and finalizers overlap: none is replaced, completed by somebody *)
(* else or completed after its writer died.                                *)
Outputs == INSTANCE ExclusiveFile WITH
  Writers <- Procs, Names <- Files,
  Values <- {c \in Contents : IsWhole(c)},
  made <- {f \in Files : output[f] # Absent},
  kept <- {x \in Files \X {c \in Contents : IsWhole(c)} : output[x[1]] = x[2]},
  filling <- {x \in Procs \X Files : pc[x[1]] = "fill" /\ at[x[1]] = x[2]}

Attempts == INSTANCE ExclusiveFile WITH
  Writers <- Procs, Names <- Runners, Values <- Verdicts,
  made <- {r \in Runners : attempt[r] # "absent"},
  kept <- {x \in Runners \X Verdicts : attempt[x[1]] = x[2]},
  filling <- {x \in Procs \X Runners : pc[x[1]] = "recording" /\ key[x[1]] = x[2]}

WritesOnce == Outputs!FileSpec /\ Attempts!FileSpec
=============================================================================
