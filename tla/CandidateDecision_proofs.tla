---------------------- MODULE CandidateDecision_proofs ----------------------
(***************************************************************************)
(* For every number of callers, requests and failures: a decision is       *)
(* executed at most once, everybody who asks for it is given the result on *)
(* disk, which is acceptable and the sealed candidate's, and an orphaned   *)
(* directory is never filled.                                              *)
(***************************************************************************)
EXTENDS CandidateDecision, TLAPS

(* The callers between the making of the directory and its result. *)
Holding == {"project", "run", "judge", "record", "fill"}

(* Nothing is there before the directory.                                  *)
Unmade ==
  \A k \in Keys : k \notin dir => started[k] = 0 /\ result[k] = Absent

(* Who made the directory is alone with it, and no result is there yet.    *)
Held ==
  /\ \A p \in Callers : pc[p] \in Holding =>
       /\ key[p] \in dir
       /\ pc[p] \in {"project", "run"} => started[key[p]] = 0
       /\ pc[p] # "fill" => result[key[p]] = Absent
       /\ pc[p] = "fill" => result[key[p]] = Torn
  /\ \A p, q \in Callers :
       pc[p] \in Holding /\ pc[q] \in Holding /\ key[p] = key[q] => p = q

(* An outcome worth keeping for a key.                                     *)
Fit(o, k) == o \in Outcomes /\ Acceptable(o, k) /\ o.of = "sealed"

(* While the worktree is as it was finalized, so is every copy made of it; *)
(* what passed the second look at it is fit to be kept.                    *)
Sourced ==
  \A p \in Callers :
    /\ pc[p] = "run" /\ tree = "sealed" => source[p] = "sealed"
    /\ pc[p] = "judge" => answer[p] \in Outcomes
    /\ pc[p] = "judge" /\ tree = "sealed" => answer[p].of = "sealed"
    /\ pc[p] \in {"record", "fill"} => Fit(answer[p], key[p])

(* What is kept is fit, and what was returned is what is kept.             *)
Kept ==
  \A k \in Keys :
    /\ result[k] \in {Absent, Torn} \/ Fit(result[k], k)
    /\ \A o \in returned[k] : o = result[k] /\ Fit(o, k)

IInv == TypeOK /\ Unmade /\ Held /\ Sourced /\ Kept /\ RunsOnce

LEMMA NoOutcome == Absent \notin Outcomes /\ Torn \notin Outcomes
  BY CandidateDecisionAssumption DEF CandidateDecisionAssumption, Absent, Torn, Outcomes

LEMMA InitIInv == Init => IInv
<1> SUFFICES ASSUME Init PROVE IInv
  OBVIOUS
<1>1. TypeOK
  BY CandidateDecisionAssumption DEF CandidateDecisionAssumption, Init, TypeOK, Trees
<1>2. Unmade /\ Held /\ Sourced /\ Kept /\ RunsOnce
  BY DEF Init, Unmade, Held, Holding, Sourced, Kept, RunsOnce
<1> QED
  BY <1>1, <1>2 DEF IInv

LEMMA NextTypeOK == TypeOK /\ Sourced /\ [Next]_vars => TypeOK'
<1> SUFFICES ASSUME TypeOK, Sourced, [Next]_vars PROVE TypeOK'
  OBVIOUS
<1> USE DEF Goto, Ends, TypeOK, Active, Ended, Trees
<1>1. CASE UNCHANGED vars
  BY <1>1 DEF vars
<1>2. CASE Disturb
  BY <1>2, CandidateDecisionAssumption DEF CandidateDecisionAssumption, Disturb
<1>3. ASSUME NEW p \in Callers, Begin(p) \/ Lookup(p) \/ Judge(p) \/ Again(p)
      PROVE TypeOK'
  BY <1>3 DEF Begin, Lookup, Judge, Again
<1>4. ASSUME NEW p \in Callers, LoadPersisted(p) PROVE TypeOK'
  <2>1. IsWhole(result[key[p]]) => result[key[p]] \in Outcomes
    BY DEF IsWhole
  <2> QED
    BY <1>4, <2>1 DEF LoadPersisted, Give
<1>5. ASSUME NEW p \in Callers, Reserve(p) \/ Run(p) \/ Record(p) PROVE TypeOK'
  BY <1>5 DEF Reserve, Run, Record
<1>6. ASSUME NEW p \in Callers, Project(p) \/ Crash(p) PROVE TypeOK'
  BY <1>6, CandidateDecisionAssumption DEF CandidateDecisionAssumption, Project, Crash
<1>7. ASSUME NEW p \in Callers, Fill(p) PROVE TypeOK'
  <2>1. answer[p] \in Outcomes
    BY <1>7 DEF Fill, Sourced, Fit
  <2> QED
    BY <1>7, <2>1, CandidateDecisionAssumption DEF CandidateDecisionAssumption, Fill, Give
<1> QED
  BY <1>1, <1>2, <1>3, <1>4, <1>5, <1>6, <1>7 DEF Next, Call

(* A step of one caller, and what it must leave behind.                    *)
LEMMA OneCaller ==
  ASSUME TypeOK, Held, NEW p \in Callers,
         \A q \in Callers \ {p} :
           pc'[q] = pc[q] /\ key'[q] = key[q],
         (pc[p] \in Holding /\ pc'[p] \in Holding) \/ pc'[p] \notin Holding,
         pc'[p] \in Holding =>
           /\ key'[p] = key[p]
           /\ pc'[p] \in {"project", "run"} => started'[key[p]] = 0
           /\ pc'[p] # "fill" => result'[key[p]] = Absent
           /\ pc'[p] = "fill" => result'[key[p]] = Torn,
         dir \subseteq dir',
         \A k \in Keys : (started'[k] = started[k] /\ result'[k] = result[k])
                           \/ (pc[p] \in Holding /\ k = key[p])
  PROVE  Held'
<1>1. \A q \in Callers \ {p} :
        pc[q] \in Holding =>
          /\ key[q] \in Keys /\ key[q] \in dir
          /\ started'[key[q]] = started[key[q]] /\ result'[key[q]] = result[key[q]]
  BY DEF Held, TypeOK
<1>2. \A q \in Callers \ {p} : pc'[q] \in Holding =>
        /\ key'[q] \in dir'
        /\ pc'[q] \in {"project", "run"} => started'[key'[q]] = 0
        /\ pc'[q] # "fill" => result'[key'[q]] = Absent
        /\ pc'[q] = "fill" => result'[key'[q]] = Torn
  BY <1>1 DEF Held
<1>3. pc'[p] \in Holding => key'[p] \in dir'
  BY DEF Held
<1>4. \A q, r \in Callers :
        pc'[q] \in Holding /\ pc'[r] \in Holding /\ key'[q] = key'[r] => q = r
  BY DEF Held
<1> QED
  BY <1>2, <1>3, <1>4 DEF Held

LEMMA NextHeld == IInv /\ [Next]_vars => Held'
<1> SUFFICES ASSUME IInv, [Next]_vars PROVE Held'
  OBVIOUS
<1>0. TypeOK /\ Held /\ Unmade
  BY DEF IInv
<1> USE DEF Goto, Ends
<1>1. CASE UNCHANGED vars \/ Disturb
  BY <1>0, <1>1 DEF vars, Disturb, Held
<1>2. ASSUME NEW p \in Callers,
             Begin(p) \/ Lookup(p) \/ LoadPersisted(p) \/ Again(p) \/ Crash(p)
      PROVE Held'
  <2>1. /\ pc'[p] \notin Holding
        /\ \A q \in Callers \ {p} :
             pc'[q] = pc[q] /\ key'[q] = key[q]
        /\ UNCHANGED <<dir, result, started>>
    BY <1>0, <1>2 DEF Begin, Lookup, LoadPersisted, Again, Crash, Holding, TypeOK
  <2> QED
    BY <1>0, <2>1, OneCaller
<1>3. ASSUME NEW p \in Callers, Reserve(p) PROVE Held'
  <2>1. CASE key[p] \in dir
    BY <1>0, <1>3, <2>1 DEF Reserve, Held, Holding, TypeOK
  <2>2. CASE key[p] \notin dir
    <3>1. /\ pc' = [pc EXCEPT ![p] = "project"] /\ dir' = dir \cup {key[p]}
          /\ UNCHANGED <<key, result, started>>
      BY <1>3, <2>2 DEF Reserve
    <3>2. started[key[p]] = 0 /\ result[key[p]] = Absent
      BY <1>0, <2>2 DEF Unmade, TypeOK
    <3>3. \A q \in Callers : pc[q] \in Holding => key[q] # key[p]
      BY <1>0, <2>2 DEF Held
    <3> QED
      BY <1>0, <3>1, <3>2, <3>3 DEF Held, Holding, TypeOK
  <2> QED
    BY <2>1, <2>2
<1>4. ASSUME NEW p \in Callers, Project(p) \/ Judge(p) PROVE Held'
  <2>1. /\ pc[p] \in Holding
        /\ UNCHANGED <<key, dir, result, started>>
        /\ pc[p] = "project" => pc'[p] \in {"run", "failed"}
        /\ pc[p] # "project" => pc[p] = "judge" /\ pc'[p] \in {"record", "failed"}
        /\ \A q \in Callers \ {p} : pc'[q] = pc[q]
    BY <1>0, <1>4 DEF Project, Judge, Holding, TypeOK
  <2> QED
    BY <1>0, <2>1, OneCaller DEF Held, Holding
<1>5. ASSUME NEW p \in Callers, Run(p) PROVE Held'
  <2>1. /\ pc[p] = "run" /\ pc'[p] = "judge"
        /\ UNCHANGED <<key, dir, result>>
        /\ \A q \in Callers \ {p} : pc'[q] = pc[q]
        /\ \A k \in Keys : k = key[p] \/ started'[k] = started[k]
    BY <1>0, <1>5 DEF Run, TypeOK
  <2> QED
    BY <1>0, <2>1, OneCaller DEF Held, Holding
<1>6. ASSUME NEW p \in Callers, Record(p) PROVE Held'
  <2>1. /\ pc[p] = "record" /\ result[key[p]] = Absent
        /\ UNCHANGED <<key, dir, started>>
        /\ pc'[p] = "fill" /\ result'[key[p]] = Torn
        /\ \A q \in Callers \ {p} : pc'[q] = pc[q]
        /\ \A k \in Keys : k = key[p] \/ result'[k] = result[k]
    BY <1>0, <1>6 DEF Record, Held, Holding, TypeOK
  <2> QED
    BY <1>0, <2>1, OneCaller DEF Held, Holding
<1>7. ASSUME NEW p \in Callers, Fill(p) PROVE Held'
  <2>1. /\ pc[p] = "fill" /\ pc'[p] \in {"done", "failed"}
        /\ UNCHANGED <<key, dir, started>>
        /\ \A q \in Callers \ {p} : pc'[q] = pc[q]
        /\ \A k \in Keys : k = key[p] \/ result'[k] = result[k]
    BY <1>0, <1>7 DEF Fill, TypeOK
  <2> QED
    BY <1>0, <2>1, OneCaller DEF Holding
<1> QED
  BY <1>1, <1>2, <1>3, <1>4, <1>5, <1>6, <1>7 DEF Next, Call

LEMMA NextUnmade == IInv /\ [Next]_vars => Unmade'
<1> SUFFICES ASSUME IInv, [Next]_vars, NEW k \in Keys, k \notin dir'
             PROVE  started'[k] = 0 /\ result'[k] = Absent
  BY DEF Unmade
<1> USE DEF Goto, Ends
<1>1. dir \subseteq dir'
  BY DEF vars, Next, Call, Begin, Lookup, LoadPersisted, Reserve, Project, Run, Judge,
     Record, Fill, Again, Crash, Disturb
<1>2. /\ k \notin dir /\ started[k] = 0 /\ result[k] = Absent
      /\ \A p \in Callers : pc[p] \in Holding => key[p] # k
  BY <1>1 DEF IInv, Unmade, Held
<1>3. CASE UNCHANGED <<started, result>>
  BY <1>2, <1>3
<1>4. ASSUME NEW p \in Callers, Run(p) \/ Record(p) \/ Fill(p)
      PROVE  started'[k] = 0 /\ result'[k] = Absent
  BY <1>2, <1>4 DEF Run, Record, Fill, Holding, IInv, TypeOK
<1> QED
  BY <1>3, <1>4 DEF vars, Next, Call, Begin, Lookup, LoadPersisted, Reserve, Project,
     Judge, Again, Crash, Disturb

LEMMA NextRunsOnce == IInv /\ [Next]_vars => RunsOnce'
<1> SUFFICES ASSUME IInv, [Next]_vars PROVE RunsOnce'
  OBVIOUS
<1>1. CASE UNCHANGED started
  BY <1>1 DEF RunsOnce, IInv
<1>2. ASSUME NEW p \in Callers, Run(p) PROVE RunsOnce'
  <2>1. started[key[p]] = 0
    BY <1>2 DEF Run, IInv, Held, Holding
  <2>2. \A k \in Keys : started'[k] = started[k] \/ started'[k] = 1
    BY <1>2, <2>1 DEF Run, IInv, TypeOK
  <2> QED
    BY <2>2 DEF RunsOnce, IInv
<1> QED
  BY <1>1, <1>2 DEF vars, Next, Call, Begin, Lookup, LoadPersisted, Reserve, Project,
     Judge, Record, Fill, Again, Crash, Disturb

(* A copy made while the worktree is unchanged is of the sealed candidate. *)
LEMMA NextSourced == IInv /\ [Next]_vars => Sourced'
<1> SUFFICES ASSUME IInv, [Next]_vars PROVE Sourced'
  OBVIOUS
<1>0. TypeOK /\ Sourced
  BY DEF IInv
<1> USE DEF Goto, Ends
<1>1. CASE UNCHANGED vars \/ Disturb
  BY <1>0, <1>1 DEF vars, Disturb, Sourced
<1>2. ASSUME NEW p \in Callers,
             Begin(p) \/ Lookup(p) \/ LoadPersisted(p) \/ Reserve(p) \/ Again(p)
               \/ Crash(p) \/ Fill(p)
      PROVE Sourced'
  <2>1. /\ pc'[p] \notin {"run", "judge", "record", "fill"}
        /\ tree' = tree
        /\ \A q \in Callers \ {p} :
             /\ pc'[q] = pc[q] /\ key'[q] = key[q]
             /\ answer'[q] = answer[q] /\ source'[q] = source[q]
    BY <1>0, <1>2 DEF Begin, Lookup, LoadPersisted, Reserve, Again, Crash, Fill, TypeOK
  <2> QED
    BY <1>0, <2>1 DEF Sourced
<1>3. ASSUME NEW p \in Callers, Project(p) PROVE Sourced'
  BY <1>0, <1>3 DEF Project, Sourced, TypeOK
<1>4. ASSUME NEW p \in Callers, Run(p) PROVE Sourced'
  BY <1>0, <1>4 DEF Run, Sourced, TypeOK
<1>5. ASSUME NEW p \in Callers, Judge(p) \/ Record(p) PROVE Sourced'
  BY <1>0, <1>5 DEF Judge, Record, Sourced, Fit, TypeOK
<1> QED
  BY <1>1, <1>2, <1>3, <1>4, <1>5 DEF Next, Call

(* Answers are only added to what is kept, and what is kept stays.         *)
LEMMA NextKept == IInv /\ [Next]_vars => Kept'
<1> SUFFICES ASSUME IInv, [Next]_vars PROVE Kept'
  OBVIOUS
<1> USE DEF Goto, Ends, Give
<1>0. /\ Kept
      /\ returned \in [Keys -> SUBSET Outcomes] /\ key \in [Callers -> Keys]
      /\ result \in [Keys -> Outcomes \cup {Absent, Torn}]
  BY DEF IInv, TypeOK
<1>1. CASE UNCHANGED <<returned, result>>
  BY <1>0, <1>1 DEF Kept, Fit, Acceptable
<1>2. ASSUME NEW p \in Callers, LoadPersisted(p) PROVE Kept'
  <2>1. IsWhole(result[key[p]]) => Fit(result[key[p]], key[p])
    BY <1>0 DEF Kept, IsWhole
  <2> QED
    BY <1>0, <1>2, <2>1 DEF LoadPersisted, Kept
<1>3. ASSUME NEW p \in Callers, Record(p) \/ Fill(p)
      PROVE  returned[key[p]] = {}
  <2>1. result[key[p]] \in {Absent, Torn}
    BY <1>3 DEF Record, Fill, IInv, Held, Holding
  <2> QED
    BY <1>0, <2>1, NoOutcome DEF Kept, Fit
<1>4. ASSUME NEW p \in Callers, Record(p) PROVE Kept'
  BY <1>0, <1>3, <1>4 DEF Record, Kept
<1>5. ASSUME NEW p \in Callers, Fill(p) PROVE Kept'
  <2>1. Fit(answer[p], key[p])
    BY <1>5 DEF Fill, IInv, Sourced
  <2> QED
    BY <1>0, <1>3, <1>5, <2>1 DEF Fill, Kept
<1> QED
  BY <1>1, <1>2, <1>4, <1>5 DEF vars, Next, Call, Begin, Lookup, Reserve, Project, Run,
     Judge, Again, Crash, Disturb

LEMMA NextIInv == IInv /\ [Next]_vars => IInv'
<1>1. IInv => TypeOK /\ Sourced
  BY DEF IInv
<1> QED
  BY <1>1, NextTypeOK, NextUnmade, NextHeld, NextSourced, NextKept, NextRunsOnce DEF IInv

LEMMA Invariance == Spec => []IInv
  BY InitIInv, NextIInv, PTL DEF Spec

(* Only a holder of the directory writes its result.                       *)
LEMMA NextOrphan ==
  ASSUME IInv, Next, NEW k \in Keys, Orphaned(k)
  PROVE  Orphaned(k)'
<1> USE DEF Goto, Ends
<1>1. k \in dir' /\ ~IsWhole(result'[k])
  <2>1. CASE UNCHANGED result
    BY <2>1 DEF Next, Call, Begin, Lookup, LoadPersisted, Reserve, Project, Run, Judge,
       Record, Fill, Again, Crash, Disturb, Orphaned
  <2>2. ASSUME NEW p \in Callers, Record(p) \/ Fill(p)
        PROVE  k \in dir' /\ ~IsWhole(result'[k])
    BY <2>2 DEF Record, Fill, Orphaned, IInv, TypeOK
  <2> QED
    BY <2>1, <2>2 DEF Next, Call, Begin, Lookup, LoadPersisted, Reserve, Project, Run,
       Judge, Again, Crash, Disturb
<1>2. ASSUME NEW q \in Callers, key'[q] = k PROVE pc'[q] \notin Holding
  <2>1. pc[q] \in Holding => key[q] # k
    BY DEF Orphaned, Holding
  <2>2. ASSUME NEW p \in Callers, Call(p) \/ Again(p) \/ Crash(p)
        PROVE  pc'[q] \notin Holding
    <3>1. CASE p # q
      BY <1>2, <2>1, <2>2, <3>1
         DEF Call, Begin, Lookup, LoadPersisted, Reserve, Project, Run, Judge, Record,
         Fill, Again, Crash, IInv, TypeOK
    <3>2. CASE p = q /\ Reserve(p)
      BY <1>2, <3>2 DEF Reserve, Orphaned, Holding, IInv, TypeOK
    <3>3. CASE p = q /\ ~Reserve(p)
      BY <1>2, <2>1, <2>2, <3>3
         DEF Call, Begin, Lookup, LoadPersisted, Project, Run, Judge, Record,
         Fill, Again, Crash, Holding, IInv, TypeOK
    <3> QED
      BY <3>1, <3>2, <3>3
  <2>3. CASE Disturb
    BY <1>2, <2>1, <2>3 DEF Disturb
  <2> QED
    BY <2>2, <2>3 DEF Next
<1> QED
  BY <1>1, <1>2 DEF Orphaned, Holding

-----------------------------------------------------------------------------
(* Every variable keeps its type, whatever callers overlap, fail and are   *)
(* given again.                                                            *)
THEOREM TypeCorrect == Spec => []TypeOK
<1>1. IInv => TypeOK
  BY DEF IInv
<1> QED
  BY <1>1, Invariance, PTL

(* The candidate is executed at most once for a request, contract and      *)
(* lane: the runtime directory is made by mkdir before it is started.      *)
THEOREM ExecutedOnce == Spec => []RunsOnce
<1>1. IInv => RunsOnce
  BY DEF IInv
<1> QED
  BY <1>1, Invariance, PTL

(* Everybody who asks with one key is given the result that is on disk, an *)
(* acceptable one of the candidate as it was finalized.                    *)
THEOREM RetriesAgree == Spec => []AnswerStands
<1>1. IInv => AnswerStands
  BY DEF IInv, Kept, Fit, AnswerStands
<1> QED
  BY <1>1, Invariance, PTL

(* A runtime directory left without a result is never filled or removed.   *)
THEOREM OrphansStayClosed == Spec => OrphanStaysClosed
<1>1. IInv /\ [Next]_vars => [\A k \in Keys : Orphaned(k) => Orphaned(k)']_vars
  BY NextOrphan
<1> QED
  BY <1>1, Invariance, PTL DEF Spec, OrphanStaysClosed

(***************************************************************************)
(* The results implement ExclusiveFile.                                    *)
(***************************************************************************)
LEMMA ResultSteps == IInv /\ [Next]_vars => [Results!FileNext]_(Results!fileVars)
<1> SUFFICES ASSUME IInv, Next PROVE [Results!FileNext]_(Results!fileVars)
  BY DEF vars, Results!fileVars
<1>0. Absent # Torn /\ Absent \notin Outcomes /\ Torn \notin Outcomes
  BY NoOutcome DEF Absent, Torn
<1>1. CASE Disturb
  BY <1>1 DEF Disturb, Results!fileVars
<1>2. ASSUME NEW p \in Callers, Call(p) \/ Again(p) \/ Crash(p)
      PROVE  [Results!FileNext]_(Results!fileVars)
  <2>0. PICK k \in Keys : k = key[p]
    BY DEF IInv, TypeOK
  <2> USE DEF IInv, TypeOK, Goto, Ends
  <2>1. CASE \/ Begin(p) \/ Lookup(p) \/ LoadPersisted(p) \/ Reserve(p) \/ Project(p)
             \/ Run(p) \/ Judge(p) \/ Again(p)
    BY <2>1 DEF Begin, Lookup, LoadPersisted, Reserve, Project, Run, Judge, Again, Ended,
       Results!fileVars
  <2>2. CASE Record(p)
    <3>1. CASE result[k] = Absent
      <4>1. Results!Create(p, k)
        BY <1>0, <2>0, <2>2, <3>1 DEF Record, Results!Create
      <4> QED
        BY <2>0, <4>1 DEF Results!FileNext
    <3>2. CASE result[k] # Absent
      BY <2>0, <2>2, <3>2 DEF Record, Results!fileVars
    <3> QED
      BY <3>1, <3>2
  <2>3. CASE Fill(p)
    <3>0. result[k] = Torn /\ answer[p] \in Outcomes
      BY <2>0, <2>3 DEF Fill, Held, Holding, Sourced, Fit
    <3>1. CASE result' = [result EXCEPT ![k] = answer[p]]
      <4>0. PICK o \in Outcomes : o = answer[p]
        BY <3>0
      <4>1. Results!Fill(p, k, o)
        BY <1>0, <2>0, <2>3, <3>0, <3>1, <4>0 DEF Fill, Results!Fill
      <4> QED
        BY <2>0, <4>1 DEF Results!FileNext
    <3>2. CASE result' = [result EXCEPT ![k] = Absent]
      <4>1. Results!Unlink(p, k)
        BY <1>0, <2>0, <2>3, <3>0, <3>2 DEF Fill, Results!Unlink
      <4> QED
        BY <2>0, <4>1 DEF Results!FileNext
    <3> QED
      BY <2>0, <2>3, <3>1, <3>2 DEF Fill
  <2>4. CASE Crash(p)
    <3>1. CASE pc[p] = "fill"
      <4>1. Results!Die(p, k)
        BY <2>0, <2>4, <3>1 DEF Crash, Results!Die
      <4> QED
        BY <2>0, <4>1 DEF Results!FileNext
    <3>2. CASE pc[p] # "fill"
      BY <2>4, <3>2 DEF Crash, Results!fileVars
    <3> QED
      BY <3>1, <3>2
  <2> QED
    BY <1>2, <2>1, <2>2, <2>3, <2>4 DEF Call
<1> QED
  BY <1>1, <1>2 DEF Next

(* The result of a decision is an exclusive file: whatever callers overlap *)
(* and die, it is created, filled and left as ExclusiveFile allows it.     *)
THEOREM ResultsImplemented == Spec => WritesOnce
<1>1. Init => Results!FileInit
  BY NoOutcome DEF Init, Results!FileInit
<1> QED
  BY <1>1, ResultSteps, Invariance, PTL DEF Spec, WritesOnce, Results!FileSpec
=============================================================================
