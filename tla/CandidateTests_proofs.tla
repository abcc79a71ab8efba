------------------------ MODULE CandidateTests_proofs ------------------------
(***************************************************************************)
(* For every number of commands and versions of the runner: a candidate is *)
(* tested at most once per version, and the outputs that are published     *)
(* agree on the attempt they come from.                                    *)
(***************************************************************************)
EXTENDS CandidateTests, TLAPS

LEMMA ContentTyped ==
  ASSUME NEW f \in Files, NEW r \in Runners, NEW t \in Trees
  PROVE  Content(f, r, t) \in Contents
<1> USE DEF Runners
<1>1. Runners \subseteq 0 .. MaxRunner /\ 0 \in 0 .. MaxRunner
  BY CandidateTestsAssumption DEF CandidateTestsAssumption
<1>2. CASE f = "patch"
  BY <1>1, <1>2 DEF Content, Contents
<1>3. CASE f = "test"
  BY <1>1, <1>3 DEF Content, Contents
<1>4. CASE f \notin {"patch", "test"}
  BY <1>1, <1>4 DEF Content, Contents
<1> QED
  BY <1>2, <1>3, <1>4

LEMMA ContentFacts ==
  ASSUME NEW f \in Files, NEW r, NEW t
  PROVE  /\ IsWhole(Content(f, r, t))
         /\ f # "patch" => Content(f, r, t)[2] = r
         /\ f \notin {"patch", "test"} => Content(f, r, t)[3] = t
  BY DEF Content, IsWhole

LEMMA Unfinished ==
  ~IsWhole(Absent) /\ ~IsWhole(Torn) /\ Absent # Torn
  BY DEF Absent, Torn, IsWhole

LEMMA FollowingTyped ==
  ASSUME NEW f \in Files, NEW v
  PROVE  Following(f, v) \in (Files \ {"patch"}) \cup {"end"}
  BY DEF Following, Files

(* Which outputs come after the Challenger manifest. *)
Late == {"validation", "bundle", "test"}

LEMMA FollowingLate ==
  ASSUME NEW f \in Files, NEW v, Following(f, v) \in Late
  PROVE  f = "challenger" \/ f \in Late
  BY DEF Following, Files, Late

-----------------------------------------------------------------------------
(* Whoever is between the scratch directory and the run made the directory *)
(* itself, alone, and nothing ran under that version before.               *)
Reserved ==
  /\ \A p \in Procs :
       pc[p] \in {"project", "run"} =>
         key[p] \in scratch /\ executed[key[p]] = 0
  /\ \A p, q \in Procs :
       /\ pc[p] \in {"project", "run"} /\ pc[q] \in {"project", "run"}
       /\ key[p] = key[q]
       => p = q
  /\ \A r \in Runners : r \notin scratch => executed[r] = 0
  /\ AttemptOnce

(* A file that is being filled is torn, and filled by one process.         *)
Filling ==
  /\ \A p \in Procs : pc[p] = "fill" => output[at[p]] = Torn
  /\ \A p, q \in Procs :
       pc[p] = "fill" /\ pc[q] = "fill" /\ at[p] = at[q] => p = q

(* The Challenger manifest governs: a process that is past it found or     *)
(* wrote its own there, and what is published after it agrees with it.     *)
Past ==
  \A p \in Procs :
    pc[p] \in {"look", "create", "fill"} /\ at[p] \in Late =>
      output["challenger"] = Content("challenger", key[p], hashed[p])

Governed ==
  \A f \in Late :
    output[f] # Absent =>
      /\ IsWhole(output["challenger"])
      /\ IsWhole(output[f]) =>
           /\ output[f][2] = output["challenger"][2]
           /\ f # "test" => output[f][3] = output["challenger"][3]

(* Publication of a failed candidate starts with the patch. *)
FromPatch == \A p \in Procs : pc[p] = "guard" => at[p] = "patch"

(* A manifest that is being written has its verdict. *)
InHand ==
  \A p \in Procs : pc[p] \in {"record", "recording"} => verdict[p] # "none"

IInv ==
  TypeOK /\ Reserved /\ Filling /\ Past /\ Governed /\ FromPatch /\ InHand

LEMMA InitIInv == Init => IInv
<1> SUFFICES ASSUME Init PROVE IInv
  OBVIOUS
<1>1. TypeOK
  <2>1. expired \in BOOLEAN
    BY DEF Init
  <2> QED
    BY <2>1, CandidateTestsAssumption DEF CandidateTestsAssumption, Init,
       TypeOK, Runners, Files, Trees, Verdicts, Contents, Absent
<1>2. Reserved
  BY DEF Init, Reserved, AttemptOnce
<1>3. Filling /\ Past /\ FromPatch /\ InHand
  BY DEF Init, Filling, Past, FromPatch, InHand
<1>4. Governed
  BY DEF Init, Governed, Late, Files
<1> QED
  BY <1>1, <1>2, <1>3, <1>4 DEF IInv

LEMMA NextIInv == IInv /\ [Next]_vars => IInv'
<1> SUFFICES ASSUME IInv, [Next]_vars PROVE IInv'
  OBVIOUS
<1> USE DEF IInv, Goto, Ends
<1>0. CASE UNCHANGED vars
  BY <1>0 DEF vars, procVars, testVars, TypeOK, Reserved, AttemptOnce, Filling,
     Past, Governed, FromPatch, InHand, IsWhole
<1>1. ASSUME NEW p \in Procs, BeginTest(p) PROVE IInv'
  <2>1. TypeOK'
    BY <1>1 DEF BeginTest, testVars, TypeOK, TestPcs, FinalPcs, Ended, Verdicts
  <2>2. Reserved'
    BY <1>1 DEF BeginTest, testVars, Reserved, AttemptOnce, TypeOK
  <2>3. Filling'
    BY <1>1 DEF BeginTest, Filling, TypeOK
  <2>4. Past'
    BY <1>1 DEF BeginTest, Past, TypeOK
  <2>5. Governed'
    BY <1>1 DEF BeginTest, Governed, IsWhole
  <2>6. FromPatch'
    BY <1>1 DEF BeginTest, FromPatch, TypeOK
  <2>7. InHand'
    BY <1>1 DEF BeginTest, InHand, TypeOK
  <2> QED
    BY <2>1, <2>2, <2>3, <2>4, <2>5, <2>6, <2>7
<1>2. ASSUME NEW p \in Procs, NameAttempt(p) PROVE IInv'
  <2>1. TypeOK'
    BY <1>2
       DEF NameAttempt, testVars, TypeOK, TestPcs, FinalPcs, Ended, Verdicts
  <2>2. Reserved'
    BY <1>2 DEF NameAttempt, testVars, Reserved, AttemptOnce, TypeOK
  <2>3. Filling'
    BY <1>2 DEF NameAttempt, Filling, TypeOK
  <2>4. Past'
    BY <1>2 DEF NameAttempt, Past, TypeOK
  <2>5. Governed'
    BY <1>2 DEF NameAttempt, Governed, IsWhole
  <2>6. FromPatch'
    BY <1>2 DEF NameAttempt, FromPatch, TypeOK
  <2>7. InHand'
    BY <1>2 DEF NameAttempt, InHand, TypeOK
  <2> QED
    BY <2>1, <2>2, <2>3, <2>4, <2>5, <2>6, <2>7
<1>3. ASSUME NEW p \in Procs, ReserveScratch(p) PROVE IInv'
  <2>1. TypeOK'
    BY <1>3
       DEF ReserveScratch, testVars, TypeOK, TestPcs, FinalPcs, Ended, Verdicts
  <2>2. Reserved'
    BY <1>3 DEF ReserveScratch, testVars, Reserved, AttemptOnce, TypeOK
  <2>3. Filling'
    BY <1>3 DEF ReserveScratch, Filling, TypeOK
  <2>4. Past'
    BY <1>3 DEF ReserveScratch, Past, TypeOK
  <2>5. Governed'
    BY <1>3 DEF ReserveScratch, Governed, IsWhole
  <2>6. FromPatch'
    BY <1>3 DEF ReserveScratch, FromPatch, TypeOK
  <2>7. InHand'
    BY <1>3 DEF ReserveScratch, InHand, TypeOK
  <2> QED
    BY <2>1, <2>2, <2>3, <2>4, <2>5, <2>6, <2>7
<1>4. ASSUME NEW p \in Procs, Project(p) PROVE IInv'
  <2>1. TypeOK'
    BY <1>4, CandidateTestsAssumption
       DEF CandidateTestsAssumption, Project, testVars, TypeOK,
       TestPcs, Ended
  <2>2. Reserved'
    BY <1>4 DEF Project, testVars, Reserved, AttemptOnce, TypeOK
  <2>3. Filling'
    BY <1>4 DEF Project, Filling, TypeOK
  <2>4. Past'
    BY <1>4 DEF Project, Past, TypeOK
  <2>5. Governed'
    BY <1>4 DEF Project, Governed, IsWhole
  <2>6. FromPatch'
    BY <1>4 DEF Project, FromPatch, TypeOK
  <2>7. InHand'
    BY <1>4 DEF Project, InHand, TypeOK
  <2> QED
    BY <2>1, <2>2, <2>3, <2>4, <2>5, <2>6, <2>7
<1>5. ASSUME NEW p \in Procs, RunTests(p) PROVE IInv'
  <2>1. TypeOK'
    <3>1. \A result, unchanged : VerdictOf(result, unchanged) \in Verdicts
      BY DEF VerdictOf, Verdicts
    <3>2. key[p] \in Runners
      BY DEF TypeOK
    <3>3. verdict' \in [Procs -> Verdicts \cup {"none"}]
      BY <1>5, <3>1 DEF RunTests, TypeOK
    <3>4. executed' \in [Runners -> Nat]
      BY <1>5, <3>2 DEF RunTests, TypeOK
    <3>5. pc' \in [Procs -> {"idle"} \cup TestPcs \cup FinalPcs \cup Ended]
      BY <1>5 DEF RunTests, TypeOK, TestPcs
    <3> QED
      BY <1>5, <3>3, <3>4, <3>5 DEF RunTests, TypeOK
  <2>2. Reserved'
    BY <1>5 DEF RunTests, testVars, Reserved, AttemptOnce, TypeOK
  <2>3. Filling'
    BY <1>5 DEF RunTests, Filling, TypeOK
  <2>4. Past'
    BY <1>5 DEF RunTests, Past, TypeOK
  <2>5. Governed'
    BY <1>5 DEF RunTests, Governed, IsWhole
  <2>6. FromPatch'
    BY <1>5 DEF RunTests, FromPatch, TypeOK
  <2>7. InHand'
    BY <1>5 DEF RunTests, VerdictOf, InHand, TypeOK
  <2> QED
    BY <2>1, <2>2, <2>3, <2>4, <2>5, <2>6, <2>7
<1>6. ASSUME NEW p \in Procs, CreateManifest(p) PROVE IInv'
  <2>1. TypeOK'
    BY <1>6
       DEF CreateManifest, testVars, TypeOK, TestPcs, FinalPcs, Ended, Verdicts
  <2>2. Reserved'
    BY <1>6 DEF CreateManifest, testVars, Reserved, AttemptOnce, TypeOK
  <2>3. Filling'
    BY <1>6 DEF CreateManifest, Filling, TypeOK
  <2>4. Past'
    BY <1>6 DEF CreateManifest, Past, TypeOK
  <2>5. Governed'
    BY <1>6 DEF CreateManifest, Governed, IsWhole
  <2>6. FromPatch'
    BY <1>6 DEF CreateManifest, FromPatch, TypeOK
  <2>7. InHand'
    BY <1>6 DEF CreateManifest, InHand, TypeOK
  <2> QED
    BY <2>1, <2>2, <2>3, <2>4, <2>5, <2>6, <2>7
<1>7. ASSUME NEW p \in Procs, FillManifest(p) PROVE IInv'
  <2>1. TypeOK'
    <3>1. faults' \in 0 .. MaxFaults
      BY <1>7, CandidateTestsAssumption
         DEF CandidateTestsAssumption, FillManifest, TypeOK
    <3>2. attempt' \in [Runners -> Verdicts \cup {"absent", "torn"}]
      <4>1. verdict[p] # "none"
        BY <1>7 DEF FillManifest, InHand
      <4> QED
        BY <1>7, <4>1 DEF FillManifest, TypeOK
    <3>3. pc' \in [Procs -> {"idle"} \cup TestPcs \cup FinalPcs \cup Ended]
      BY <1>7 DEF FillManifest, TypeOK, Ended
    <3> QED
      BY <1>7, <3>1, <3>2, <3>3 DEF FillManifest, TypeOK
  <2>2. Reserved'
    BY <1>7 DEF FillManifest, testVars, Reserved, AttemptOnce, TypeOK
  <2>3. Filling'
    BY <1>7 DEF FillManifest, Filling, TypeOK
  <2>4. Past'
    BY <1>7 DEF FillManifest, Past, TypeOK
  <2>5. Governed'
    BY <1>7 DEF FillManifest, Governed, IsWhole
  <2>6. FromPatch'
    BY <1>7 DEF FillManifest, FromPatch, TypeOK
  <2>7. InHand'
    BY <1>7 DEF FillManifest, InHand, TypeOK
  <2> QED
    BY <2>1, <2>2, <2>3, <2>4, <2>5, <2>6, <2>7
<1>8. ASSUME NEW p \in Procs, BeginFinalize(p) PROVE IInv'
  <2>1. TypeOK'
    BY <1>8
       DEF BeginFinalize, testVars, TypeOK, TestPcs, FinalPcs, Ended, Verdicts
  <2>2. Reserved'
    BY <1>8 DEF BeginFinalize, testVars, Reserved, AttemptOnce, TypeOK
  <2>3. Filling'
    BY <1>8 DEF BeginFinalize, Filling, TypeOK
  <2>4. Past'
    BY <1>8 DEF BeginFinalize, Past, TypeOK
  <2>5. Governed'
    BY <1>8 DEF BeginFinalize, Governed, IsWhole
  <2>6. FromPatch'
    BY <1>8 DEF BeginFinalize, FromPatch, TypeOK
  <2>7. InHand'
    BY <1>8 DEF BeginFinalize, InHand, TypeOK
  <2> QED
    BY <2>1, <2>2, <2>3, <2>4, <2>5, <2>6, <2>7
<1>9. ASSUME NEW p \in Procs, Select(p) PROVE IInv'
  <2>1. TypeOK'
    BY <1>9 DEF Select, testVars, TypeOK, TestPcs, FinalPcs, Ended, Verdicts
  <2>2. Reserved'
    BY <1>9 DEF Select, testVars, Reserved, AttemptOnce, TypeOK
  <2>3. Filling'
    <3>1. \A q \in Procs : pc'[q] = "fill" => pc[q] = "fill"
      BY <1>9 DEF Select, TypeOK
    <3>2. at' = at /\ output' = output
      BY <1>9 DEF Select
    <3> QED
      BY <3>1, <3>2 DEF Filling
  <2>4. Past'
    BY <1>9 DEF Select, Past, TypeOK
  <2>5. Governed'
    BY <1>9 DEF Select, Governed, IsWhole
  <2>6. FromPatch'
    BY <1>9 DEF Select, FromPatch, TypeOK
  <2>7. InHand'
    BY <1>9 DEF Select, InHand, TypeOK
  <2> QED
    BY <2>1, <2>2, <2>3, <2>4, <2>5, <2>6, <2>7
<1>10. ASSUME NEW p \in Procs, LoadInputs(p) PROVE IInv'
  <2>1. TypeOK'
    BY <1>10
       DEF LoadInputs, testVars, TypeOK, TestPcs, FinalPcs, Ended, Verdicts
  <2>2. Reserved'
    BY <1>10 DEF LoadInputs, testVars, Reserved, AttemptOnce, TypeOK
  <2>3. Filling'
    BY <1>10 DEF LoadInputs, Filling, TypeOK
  <2>4. Past'
    BY <1>10 DEF LoadInputs, Past, TypeOK
  <2>5. Governed'
    BY <1>10 DEF LoadInputs, Governed, IsWhole
  <2>6. FromPatch'
    BY <1>10 DEF LoadInputs, FromPatch, TypeOK
  <2>7. InHand'
    BY <1>10 DEF LoadInputs, InHand, TypeOK
  <2> QED
    BY <2>1, <2>2, <2>3, <2>4, <2>5, <2>6, <2>7
<1>11. ASSUME NEW p \in Procs, Reselect(p) PROVE IInv'
  <2>1. TypeOK'
    BY <1>11 DEF Reselect, testVars, TypeOK, TestPcs, FinalPcs, Ended, Verdicts
  <2>2. Reserved'
    BY <1>11, SMTT(20) DEF Reselect, testVars, Reserved, AttemptOnce, TypeOK
  <2>3. Filling'
    <3>1. \A q \in Procs : pc'[q] = "fill" => pc[q] = "fill"
      BY <1>11 DEF Reselect, TypeOK
    <3>2. at' = at /\ output' = output
      BY <1>11 DEF Reselect
    <3> QED
      BY <3>1, <3>2 DEF Filling
  <2>4. Past'
    <3>1. \A q \in Procs :
            pc'[q] \in {"look", "create", "fill"} =>
              pc[q] \in {"look", "create", "fill"} /\ key'[q] = key[q]
      BY <1>11 DEF Reselect, TypeOK
    <3>2. at' = at /\ output' = output /\ hashed' = hashed
      BY <1>11 DEF Reselect
    <3> QED
      BY <3>1, <3>2 DEF Past
  <2>5. Governed'
    BY <1>11 DEF Reselect, Governed, IsWhole
  <2>6. FromPatch'
    BY <1>11 DEF Reselect, FromPatch, TypeOK
  <2>7. InHand'
    BY <1>11 DEF Reselect, InHand, TypeOK
  <2> QED
    BY <2>1, <2>2, <2>3, <2>4, <2>5, <2>6, <2>7
<1>12. ASSUME NEW p \in Procs, NEW protected \in BOOLEAN, Build(p, protected)
       PROVE  IInv'
  <2>1. TypeOK'
    <3>1. UNCHANGED <<key, verdict, runner, tree, expired, scratch, attempt,
                      executed, output, faults>>
      BY <1>12 DEF Build, testVars
    <3>2. pc' \in [Procs -> {"idle"} \cup TestPcs \cup FinalPcs \cup Ended]
      BY <1>12 DEF Build, TypeOK, FinalPcs, Ended
    <3>3. hashed' \in [Procs -> Trees] /\ at' \in [Procs -> Files]
      BY <1>12 DEF Build, TypeOK, Files
    <3> QED
      BY <3>1, <3>2, <3>3 DEF TypeOK
  <2>2. Reserved'
    BY <1>12 DEF Build, testVars, Reserved, AttemptOnce, TypeOK
  <2>3. Filling'
    BY <1>12 DEF Build, Filling, TypeOK
  <2>4. Past'
    BY <1>12 DEF Build, Past, TypeOK, Late
  <2>5. Governed'
    BY <1>12 DEF Build, Governed, IsWhole
  <2>6. FromPatch'
    BY <1>12 DEF Build, FromPatch, TypeOK
  <2>7. InHand'
    BY <1>12 DEF Build, InHand, TypeOK
  <2> QED
    BY <2>1, <2>2, <2>3, <2>4, <2>5, <2>6, <2>7
<1>13. ASSUME NEW p \in Procs, GuardFailed(p) PROVE IInv'
  <2>1. TypeOK'
    BY <1>13
       DEF GuardFailed, testVars, TypeOK, TestPcs, FinalPcs, Ended, Verdicts
  <2>2. Reserved'
    BY <1>13 DEF GuardFailed, testVars, Reserved, AttemptOnce, TypeOK
  <2>3. Filling'
    BY <1>13 DEF GuardFailed, Filling, TypeOK
  <2>4. Past'
    BY <1>13 DEF GuardFailed, Past, TypeOK, FromPatch, Late
  <2>5. Governed'
    BY <1>13 DEF GuardFailed, Governed, IsWhole
  <2>6. FromPatch'
    BY <1>13 DEF GuardFailed, FromPatch, TypeOK
  <2>7. InHand'
    BY <1>13 DEF GuardFailed, InHand, TypeOK
  <2> QED
    BY <2>1, <2>2, <2>3, <2>4, <2>5, <2>6, <2>7
<1>14. ASSUME NEW p \in Procs, Look(p) PROVE IInv'
  <2>0. \/ at' = at
        \/ /\ at' = [at EXCEPT ![p] = Following(at[p], verdict[p])]
           /\ Following(at[p], verdict[p]) \in Files
           /\ pc'[p] = "look"
           /\ output'[at[p]] = Mine(p)
    BY <1>14, FollowingTyped DEF Look, Advance, TypeOK
  <2>1. TypeOK'
    <3>1. pc' \in [Procs -> {"idle"} \cup TestPcs \cup FinalPcs \cup Ended]
      BY <1>14 DEF Look, Advance, TypeOK, FinalPcs, Ended
    <3>2. at' \in [Procs -> Files]
      BY <1>14, <2>0 DEF TypeOK
    <3> QED
      BY <1>14, <3>1, <3>2 DEF Look, testVars, TypeOK
  <2>2. Reserved'
    BY <1>14 DEF Look, Advance, testVars, Reserved, AttemptOnce, TypeOK
  <2>3. Filling'
    BY <1>14, <2>0 DEF Look, Advance, Filling, TypeOK
  <2>4. Past'
    <3> SUFFICES ASSUME NEW q \in Procs,
                        pc'[q] \in {"look", "create", "fill"}, at'[q] \in Late
                 PROVE  output'["challenger"]
                          = Content("challenger", key'[q], hashed'[q])
      BY DEF Past
    <3>1. UNCHANGED <<output, key, hashed>>
      BY <1>14 DEF Look
    <3>2. CASE q # p \/ at' = at
      BY <1>14, <2>0, <3>1, <3>2 DEF Look, Advance, Past, TypeOK
    <3>3. CASE q = p /\ at' # at
      <4>1. at[p] = "challenger" \/ at[p] \in Late
        BY <2>0, <3>3, FollowingLate DEF TypeOK
      <4>2. CASE at[p] = "challenger"
        BY <2>0, <3>1, <3>3, <4>2 DEF Mine
      <4>3. CASE at[p] \in Late
        BY <1>14, <3>1, <3>3, <4>3 DEF Look, Past
      <4> QED
        BY <4>1, <4>2, <4>3
    <3> QED
      BY <3>2, <3>3
  <2>5. Governed'
    BY <1>14 DEF Look, Governed, IsWhole
  <2>6. FromPatch'
    BY <1>14 DEF Look, Advance, FromPatch, TypeOK
  <2>7. InHand'
    BY <1>14 DEF Look, Advance, InHand, TypeOK
  <2> QED
    BY <2>1, <2>2, <2>3, <2>4, <2>5, <2>6, <2>7
<1>15. ASSUME NEW p \in Procs, Create(p) PROVE IInv'
  <2>1. TypeOK'
    <3>1. output' \in [Files -> Contents]
      BY <1>15 DEF Create, TypeOK, Contents
    <3> QED
      BY <1>15, <3>1 DEF Create, testVars, TypeOK, FinalPcs, Ended
  <2>2. Reserved'
    BY <1>15 DEF Create, testVars, Reserved, AttemptOnce, TypeOK
  <2>3. Filling'
    BY <1>15, Unfinished, SMTT(20) DEF Create, Filling, TypeOK
  <2>4. Past'
    <3> SUFFICES ASSUME NEW q \in Procs,
                        pc'[q] \in {"look", "create", "fill"}, at'[q] \in Late
                 PROVE  output'["challenger"]
                          = Content("challenger", key'[q], hashed'[q])
      BY DEF Past
    <3>1. UNCHANGED <<key, hashed, at>> /\ pc[q] \in {"look", "create", "fill"}
      BY <1>15 DEF Create, TypeOK
    <3>2. output["challenger"] = Content("challenger", key[q], hashed[q])
      BY <3>1 DEF Past
    <3>3. output["challenger"] # Absent
      BY <3>2, ContentFacts, Unfinished DEF Files
    <3> QED
      BY <1>15, <3>1, <3>2, <3>3 DEF Create, TypeOK, Files
  <2>5. Governed'
    <3> SUFFICES ASSUME NEW f \in Late, output'[f] # Absent
                 PROVE  /\ IsWhole(output'["challenger"])
                        /\ IsWhole(output'[f]) =>
                             /\ output'[f][2] = output'["challenger"][2]
                             /\ f # "test" => output'[f][3]
                                                = output'["challenger"][3]
      BY DEF Governed, IsWhole
    <3>0. f \in Files /\ f # "challenger" /\ f # "patch"
            /\ "challenger" \in Files
      BY DEF Late, Files
    <3>1. CASE output' = output
      BY <3>1 DEF Governed
    <3>2. CASE /\ output[at[p]] = Absent
               /\ output' = [output EXCEPT ![at[p]] = Torn]
      <4>1. CASE at[p] = f
        <5>1. output["challenger"] = Content("challenger", key[p], hashed[p])
          BY <1>15, <4>1 DEF Create, Past
        <5>2. output'["challenger"] = output["challenger"] /\ output'[f] = Torn
          BY <3>0, <3>2, <4>1 DEF TypeOK
        <5> QED
          BY <3>0, <5>1, <5>2, ContentFacts, Unfinished
      <4>2. CASE at[p] # f
        <5>1. output'[f] = output[f]
          BY <3>0, <3>2, <4>2 DEF TypeOK
        <5>2. IsWhole(output["challenger"])
          BY <5>1 DEF Governed
        <5>3. output'["challenger"] = output["challenger"]
          BY <3>0, <3>2, <5>2, Unfinished DEF TypeOK
        <5> QED
          BY <5>1, <5>3 DEF Governed
      <4> QED
        BY <4>1, <4>2
    <3> QED
      BY <1>15, <3>1, <3>2 DEF Create
  <2>6. FromPatch'
    BY <1>15 DEF Create, FromPatch, TypeOK
  <2>7. InHand'
    BY <1>15 DEF Create, InHand, TypeOK
  <2> QED
    BY <2>1, <2>2, <2>3, <2>4, <2>5, <2>6, <2>7
<1>16. ASSUME NEW p \in Procs, Fill(p) PROVE IInv'
  <2>0. \/ at' = at
        \/ /\ at' = [at EXCEPT ![p] = Following(at[p], verdict[p])]
           /\ Following(at[p], verdict[p]) \in Files
           /\ pc'[p] = "look"
           /\ output'[at[p]] = Mine(p)
    BY <1>16, FollowingTyped DEF Fill, Advance, TypeOK
  <2>1. TypeOK'
    <3>1. pc' \in [Procs -> {"idle"} \cup TestPcs \cup FinalPcs \cup Ended]
      BY <1>16 DEF Fill, Advance, TypeOK, FinalPcs, Ended
    <3>2. at' \in [Procs -> Files]
      BY <2>0 DEF TypeOK
    <3>3. Mine(p) \in Contents /\ Absent \in Contents
      BY ContentTyped DEF Mine, TypeOK, Contents
    <3>4. output' \in [Files -> Contents]
      BY <1>16, <3>3 DEF Fill, TypeOK
    <3>5. faults' \in 0 .. MaxFaults
      BY <1>16, CandidateTestsAssumption
         DEF CandidateTestsAssumption, Fill, TypeOK
    <3> QED
      BY <1>16, <3>1, <3>2, <3>4, <3>5 DEF Fill, testVars, TypeOK
  <2>2. Reserved'
    BY <1>16 DEF Fill, Advance, testVars, Reserved, AttemptOnce, TypeOK
  <2>3. Filling'
    <3>1. /\ pc'[p] # "fill"
          /\ \A q \in Procs \ {p} : pc'[q] = pc[q] /\ at'[q] = at[q]
      BY <1>16 DEF Fill, Advance, TypeOK
    <3>2. \A f \in Files : f # at[p] => output'[f] = output[f]
      BY <1>16 DEF Fill, TypeOK
    <3>3. \A q \in Procs \ {p} : pc[q] = "fill" => at[q] # at[p]
      BY <1>16 DEF Fill, Filling
    <3> QED
      BY <3>1, <3>2, <3>3 DEF Filling, TypeOK
  <2>4. Past'
    <3> SUFFICES ASSUME NEW q \in Procs,
                        pc'[q] \in {"look", "create", "fill"}, at'[q] \in Late
                 PROVE  output'["challenger"]
                          = Content("challenger", key'[q], hashed'[q])
      BY DEF Past
    <3>1. UNCHANGED <<key, hashed>>
      BY <1>16 DEF Fill
    <3>2. output[at[p]] = Torn /\ pc[p] = "fill"
      BY <1>16 DEF Fill, Filling
    <3>3. CASE q # p
      <4>1. output["challenger"] = Content("challenger", key[q], hashed[q])
        BY <1>16, <3>3 DEF Fill, Advance, Past, TypeOK
      <4>2. at[p] # "challenger"
        BY <3>2, <4>1, ContentFacts, Unfinished DEF Files
      <4> QED
        BY <1>16, <3>1, <4>1, <4>2 DEF Fill, TypeOK, Files
    <3>4. CASE q = p
      <4>1. /\ at'[p] = Following(at[p], verdict[p])
            /\ output'[at[p]] = Mine(p)
        BY <1>16, <3>4 DEF Fill, Advance, TypeOK
      <4>2. at[p] = "challenger" \/ at[p] \in Late
        BY <3>4, <4>1, FollowingLate DEF TypeOK
      <4>3. CASE at[p] = "challenger"
        BY <3>1, <3>4, <4>1, <4>3 DEF Mine
      <4>4. CASE at[p] \in Late
        <5>1. output'["challenger"] = output["challenger"]
          BY <1>16, <4>4 DEF Fill, Late, Files, TypeOK
        <5> QED
          BY <3>1, <3>2, <3>4, <4>4, <5>1 DEF Past
      <4> QED
        BY <4>2, <4>3, <4>4
    <3> QED
      BY <3>3, <3>4
  <2>5. Governed'
    <3> SUFFICES ASSUME NEW f \in Late, output'[f] # Absent
                 PROVE  /\ IsWhole(output'["challenger"])
                        /\ IsWhole(output'[f]) =>
                             /\ output'[f][2] = output'["challenger"][2]
                             /\ f # "test" => output'[f][3]
                                                = output'["challenger"][3]
      BY DEF Governed, IsWhole
    <3>0. f \in Files /\ f # "challenger" /\ f # "patch"
            /\ "challenger" \in Files
      BY DEF Late, Files
    <3>1. output[at[p]] = Torn /\ at[p] \in Files
      BY <1>16 DEF Fill, Filling, TypeOK
    <3>2. CASE at[p] = f
      <4>1. output'[f] = Mine(p)
        BY <1>16, <3>0, <3>2 DEF Fill, TypeOK
      <4>2. output'["challenger"] = output["challenger"]
        BY <1>16, <3>0, <3>2 DEF Fill, TypeOK
      <4>3. output["challenger"] = Content("challenger", key[p], hashed[p])
        BY <1>16, <3>2 DEF Fill, Past
      <4>4. /\ IsWhole(output["challenger"])
            /\ output["challenger"][2] = key[p]
            /\ output["challenger"][3] = hashed[p]
        BY <3>0, <4>3, ContentFacts
      <4>5. output'[f][2] = key[p] /\ (f # "test" => output'[f][3] = hashed[p])
        BY <3>0, <3>2, <4>1, ContentFacts DEF Mine
      <4> QED
        BY <4>2, <4>4, <4>5
    <3>3. CASE at[p] # f
      <4>1. output'[f] = output[f]
        BY <1>16, <3>0, <3>3 DEF Fill, TypeOK
      <4>2. IsWhole(output["challenger"])
        BY <4>1 DEF Governed
      <4>3. output'["challenger"] = output["challenger"]
        BY <1>16, <3>0, <3>1, <4>2, Unfinished DEF Fill, TypeOK
      <4> QED
        BY <4>1, <4>3 DEF Governed
    <3> QED
      BY <3>2, <3>3
  <2>6. FromPatch'
    BY <1>16 DEF Fill, Advance, FromPatch, TypeOK
  <2>7. InHand'
    BY <1>16 DEF Fill, Advance, InHand, TypeOK
  <2> QED
    BY <2>1, <2>2, <2>3, <2>4, <2>5, <2>6, <2>7
<1>17. ASSUME NEW p \in Procs, Again(p) PROVE IInv'
  <2>1. TypeOK'
    <3>1. 1 \in Runners /\ "sealed" \in Trees /\ "patch" \in Files
      BY CandidateTestsAssumption DEF CandidateTestsAssumption, Runners,
         Trees, Files
    <3>2. UNCHANGED <<runner, tree, expired, scratch, attempt, executed,
                      output, faults>>
      BY <1>17 DEF Again, testVars
    <3> QED
      BY <1>17, <3>1, <3>2 DEF Again, TypeOK
  <2>2. Reserved'
    BY <1>17 DEF Again, testVars, Reserved, AttemptOnce, TypeOK
  <2>3. Filling'
    BY <1>17 DEF Again, Filling, TypeOK
  <2>4. Past'
    BY <1>17 DEF Again, Past, TypeOK
  <2>5. Governed'
    BY <1>17 DEF Again, Governed, IsWhole
  <2>6. FromPatch'
    BY <1>17 DEF Again, Ended, FromPatch, TypeOK
  <2>7. InHand'
    BY <1>17 DEF Again, Ended, InHand, TypeOK
  <2> QED
    BY <2>1, <2>2, <2>3, <2>4, <2>5, <2>6, <2>7
<1>18. ASSUME NEW p \in Procs, Crash(p) PROVE IInv'
  <2>1. TypeOK'
    BY <1>18, CandidateTestsAssumption
       DEF CandidateTestsAssumption, Crash, testVars, TypeOK,
       Ended
  <2>2. Reserved'
    BY <1>18 DEF Crash, testVars, Reserved, AttemptOnce, TypeOK
  <2>3. Filling'
    BY <1>18 DEF Crash, Filling, TypeOK
  <2>4. Past'
    BY <1>18 DEF Crash, Past, TypeOK
  <2>5. Governed'
    BY <1>18 DEF Crash, Governed, IsWhole
  <2>6. FromPatch'
    BY <1>18 DEF Crash, FromPatch, TypeOK
  <2>7. InHand'
    BY <1>18 DEF Crash, InHand, TypeOK
  <2> QED
    BY <2>1, <2>2, <2>3, <2>4, <2>5, <2>6, <2>7
<1>19. ASSUME Upgrade PROVE IInv'
  <2>1. TypeOK'
    BY <1>19, CandidateTestsAssumption
       DEF CandidateTestsAssumption, Upgrade, procVars, testVars,
       TypeOK, Runners, Trees
  <2>2. Reserved'
    BY <1>19 DEF Upgrade, procVars, testVars, Reserved, AttemptOnce
  <2>3. Filling'
    BY <1>19 DEF Upgrade, procVars, Filling
  <2>4. Past'
    BY <1>19 DEF Upgrade, procVars, Past
  <2>5. Governed'
    BY <1>19 DEF Upgrade, Governed, IsWhole
  <2>6. FromPatch'
    BY <1>19 DEF Upgrade, procVars, FromPatch, TypeOK
  <2>7. InHand'
    BY <1>19 DEF Upgrade, procVars, InHand, TypeOK
  <2> QED
    BY <2>1, <2>2, <2>3, <2>4, <2>5, <2>6, <2>7
<1>20. ASSUME Disturb PROVE IInv'
  <2>1. TypeOK'
    BY <1>20, CandidateTestsAssumption
       DEF CandidateTestsAssumption, Disturb, procVars, testVars,
       TypeOK, Runners, Trees
  <2>2. Reserved'
    BY <1>20 DEF Disturb, procVars, testVars, Reserved, AttemptOnce
  <2>3. Filling'
    BY <1>20 DEF Disturb, procVars, Filling
  <2>4. Past'
    BY <1>20 DEF Disturb, procVars, Past
  <2>5. Governed'
    BY <1>20 DEF Disturb, Governed, IsWhole
  <2>6. FromPatch'
    BY <1>20 DEF Disturb, procVars, FromPatch, TypeOK
  <2>7. InHand'
    BY <1>20 DEF Disturb, procVars, InHand, TypeOK
  <2> QED
    BY <2>1, <2>2, <2>3, <2>4, <2>5, <2>6, <2>7
<1>21. ASSUME Expire PROVE IInv'
  <2>1. TypeOK'
    BY <1>21, CandidateTestsAssumption
       DEF CandidateTestsAssumption, Expire, procVars, testVars,
       TypeOK, Runners, Trees
  <2>2. Reserved'
    BY <1>21 DEF Expire, procVars, testVars, Reserved, AttemptOnce
  <2>3. Filling'
    BY <1>21 DEF Expire, procVars, Filling
  <2>4. Past'
    BY <1>21 DEF Expire, procVars, Past
  <2>5. Governed'
    BY <1>21 DEF Expire, Governed, IsWhole
  <2>6. FromPatch'
    BY <1>21 DEF Expire, procVars, FromPatch, TypeOK
  <2>7. InHand'
    BY <1>21 DEF Expire, procVars, InHand, TypeOK
  <2> QED
    BY <2>1, <2>2, <2>3, <2>4, <2>5, <2>6, <2>7
<1> QED
  BY <1>0, <1>1, <1>2, <1>3, <1>4, <1>5, <1>6, <1>7, <1>8, <1>9, <1>10,
     <1>11, <1>12, <1>13, <1>14, <1>15, <1>16, <1>17, <1>18, <1>19, <1>20,
     <1>21
  DEF Next, Test, Finalize

(* Two whole outputs agree because each agrees with the Challenger         *)
(* manifest.                                                               *)
LEMMA GovernedAgree == Governed => OutputsAgree
  BY DEF Governed, OutputsAgree, Late, Files, IsWhole, Absent

(***************************************************************************)
(* The theorems.                                                           *)
(***************************************************************************)

(* Every variable keeps its type, under every interleaving of              *)
(* test-candidate and finalize-candidate with failures and crashes.        *)
THEOREM TypeCorrect == Spec => []TypeOK
<1>1. IInv => TypeOK
  BY DEF IInv
<1> QED
  BY <1>1, InitIInv, NextIInv, PTL DEF Spec

(* The tests of a candidate are started at most once per version of the    *)
(* host runner, however often and by how many processes test-candidate is  *)
(* run: run_candidate_tests reserves its scratch directory with mkdir.     *)
THEOREM TestedOnce == Spec => []AttemptOnce
<1>1. IInv => AttemptOnce
  BY DEF IInv, Reserved
<1> QED
  BY <1>1, InitIInv, NextIInv, PTL DEF Spec

(* Outputs of different attempts never mix: the exclusive write of the     *)
(* Challenger manifest arbitrates between all finalizers.                  *)
THEOREM PublishedAgree == Spec => []OutputsAgree
<1>1. IInv => OutputsAgree
  BY GovernedAgree DEF IInv
<1> QED
  BY <1>1, InitIInv, NextIInv, PTL DEF Spec

-----------------------------------------------------------------------------
(***************************************************************************)
(* Finished artifacts do not change, and the publication keeps to the      *)
(* verdict of its attempt.                                                 *)
(***************************************************************************)

(* A manifest that is being filled is torn, and filled by one process.     *)
Recording ==
  /\ \A p \in Procs : pc[p] = "recording" => attempt[key[p]] = "torn"
  /\ \A p, q \in Procs :
       pc[p] = "recording" /\ pc[q] = "recording" /\ key[p] = key[q] => p = q

Kept ==
  /\ \A f \in Files : IsWhole(output[f]) => output'[f] = output[f]
  /\ \A r \in Runners : attempt[r] \in Verdicts => attempt'[r] = attempt[r]

(* The steps that leave both the manifests and the outputs alone.          *)
Quiet(p) ==
  \/ BeginTest(p) \/ NameAttempt(p) \/ ReserveScratch(p) \/ Project(p) \/ RunTests(p)
  \/ BeginFinalize(p) \/ Select(p) \/ LoadInputs(p) \/ Reselect(p)
  \/ \E protected \in BOOLEAN : Build(p, protected)
  \/ GuardFailed(p) \/ Look(p) \/ Again(p) \/ Crash(p)

LEMMA NextCases ==
  ASSUME Next
  PROVE  \/ Upgrade \/ Disturb \/ Expire
         \/ \E p \in Procs : \/ Quiet(p) \/ CreateManifest(p) \/ FillManifest(p)
                             \/ Create(p) \/ Fill(p)
  BY DEF Next, Test, Finalize, Quiet

LEMMA QuietAlone ==
  ASSUME NEW p \in Procs, Quiet(p)
  PROVE  UNCHANGED <<attempt, output>>
  BY DEF Quiet, BeginTest, NameAttempt, ReserveScratch, Project, RunTests,
     BeginFinalize, Select, LoadInputs, Reselect, Build, GuardFailed, Look, Again,
     Crash, testVars

LEMMA NextKept == IInv /\ Recording /\ [Next]_vars => Kept
<1> SUFFICES ASSUME IInv, Recording, [Next]_vars PROVE Kept
  OBVIOUS
<1>1. CASE UNCHANGED vars \/ Upgrade \/ Disturb \/ Expire
  BY <1>1 DEF vars, testVars, Upgrade, Disturb, Expire, Kept
<1>2. ASSUME NEW p \in Procs, Quiet(p) PROVE Kept
  BY <1>2, QuietAlone DEF Kept
<1>3. ASSUME NEW p \in Procs, CreateManifest(p) PROVE Kept
  BY <1>3 DEF CreateManifest, IInv, TypeOK, Verdicts, Kept
<1>4. ASSUME NEW p \in Procs, FillManifest(p) PROVE Kept
  BY <1>4 DEF FillManifest, Recording, IInv, TypeOK, Verdicts, Kept
<1>5. ASSUME NEW p \in Procs, Create(p) PROVE Kept
  <2>1. attempt' = attempt
    BY <1>5 DEF Create, testVars
  <2>2. \/ output' = output
        \/ output[at[p]] = Absent /\ output' = [output EXCEPT ![at[p]] = Torn]
    BY <1>5 DEF Create
  <2> QED
    BY <2>1, <2>2, Unfinished DEF IInv, TypeOK, Kept
<1>6. ASSUME NEW p \in Procs, Fill(p) PROVE Kept
  <2>1. output[at[p]] = Torn /\ attempt' = attempt
    BY <1>6 DEF Fill, testVars, IInv, Filling
  <2> QED
    BY <1>6, <2>1, Unfinished DEF Fill, IInv, TypeOK, Kept
<1> QED
  BY <1>1, <1>2, <1>3, <1>4, <1>5, <1>6, NextCases

LEMMA NextRecording == IInv /\ Recording /\ [Next]_vars => Recording'
<1> SUFFICES ASSUME IInv, Recording, [Next]_vars PROVE Recording'
  OBVIOUS
<1> USE DEF Goto, Ends
<1>1. CASE UNCHANGED vars \/ Upgrade \/ Disturb \/ Expire
  BY <1>1 DEF vars, procVars, testVars, Upgrade, Disturb, Expire, Recording
<1>2. ASSUME NEW p \in Procs, Quiet(p) PROVE Recording'
  <2>1. /\ pc'[p] # "recording" /\ UNCHANGED attempt
        /\ \A q \in Procs \ {p} : pc'[q] = pc[q] /\ key'[q] = key[q]
    BY <1>2, QuietAlone
       DEF Quiet, BeginTest, NameAttempt, ReserveScratch, Project, RunTests,
       BeginFinalize, Select, LoadInputs, Reselect, Build, GuardFailed, Look, Advance,
       Again, Crash, IInv, TypeOK
  <2> QED
    BY <2>1 DEF Recording
<1>3. ASSUME NEW p \in Procs, CreateManifest(p) PROVE Recording'
  BY <1>3 DEF CreateManifest, Recording, IInv, TypeOK
<1>4. ASSUME NEW p \in Procs, FillManifest(p) PROVE Recording'
  BY <1>4 DEF FillManifest, Recording, IInv, TypeOK
<1>5. ASSUME NEW p \in Procs, Create(p) \/ Fill(p) PROVE Recording'
  BY <1>5 DEF Create, Fill, Advance, testVars, Recording, IInv, TypeOK
<1> QED
  BY <1>1, <1>2, <1>3, <1>4, <1>5, NextCases

(* A finalizer past its second selection has the verdict of its attempt,   *)
(* and only one with a passed attempt comes to the executable outputs.     *)
Decided == {"PASSED", "FAILED"}
VerdictHeld ==
  \A p \in Procs :
    /\ pc[p] \in {"inputs", "reselect"} => verdict[p] \in Decided
    /\ pc[p] \in {"build", "guard", "look", "create", "fill"} =>
         verdict[p] \in Decided /\ attempt[key[p]] = verdict[p]
    /\ pc[p] \in {"look", "create", "fill"} /\ at[p] \in Executable =>
         verdict[p] = "PASSED"

(* What a finalizer has left behind it is there.                           *)
Behind ==
  \A p \in Procs : pc[p] \in {"look", "create", "fill"} =>
    /\ at[p] # "patch" => IsWhole(output["patch"])
    /\ at[p] = "bundle" \/ (at[p] = "test" /\ verdict[p] = "PASSED") =>
         IsWhole(output["validation"])
    /\ at[p] = "test" /\ verdict[p] = "PASSED" => IsWhole(output["bundle"])

LEMMA NextVerdictHeld ==
  IInv /\ Recording /\ VerdictHeld /\ [Next]_vars => VerdictHeld'
<1> SUFFICES ASSUME IInv, Recording, VerdictHeld, [Next]_vars PROVE VerdictHeld'
  OBVIOUS
<1> USE DEF Goto, Ends
<1>0. Kept
  BY NextKept
<1>1. \A q \in Procs : attempt[key[q]] \in Decided => attempt'[key[q]] = attempt[key[q]]
  BY <1>0 DEF Kept, Decided, Verdicts, IInv, TypeOK
<1>2. CASE UNCHANGED vars \/ Upgrade \/ Disturb \/ Expire
  BY <1>2 DEF vars, procVars, testVars, Upgrade, Disturb, Expire, VerdictHeld
<1>3. ASSUME NEW p \in Procs,
             \A q \in Procs \ {p} : /\ pc'[q] = pc[q] /\ key'[q] = key[q]
                                    /\ at'[q] = at[q] /\ verdict'[q] = verdict[q],
             /\ pc'[p] \in {"inputs", "reselect"} => verdict'[p] \in Decided
             /\ pc'[p] \in {"build", "guard", "look", "create", "fill"} =>
                  verdict'[p] \in Decided /\ attempt'[key'[p]] = verdict'[p]
             /\ pc'[p] \in {"look", "create", "fill"} /\ at'[p] \in Executable =>
                  verdict'[p] = "PASSED"
      PROVE VerdictHeld'
  BY <1>1, <1>3 DEF VerdictHeld
<1>4. ASSUME NEW p \in Procs,
             \/ BeginTest(p) \/ NameAttempt(p) \/ ReserveScratch(p) \/ Project(p)
             \/ RunTests(p) \/ BeginFinalize(p) \/ Again(p) \/ Crash(p)
             \/ CreateManifest(p) \/ FillManifest(p)
      PROVE VerdictHeld'
  <2>1. pc'[p] \notin {"inputs", "reselect", "build", "guard", "look", "create", "fill"}
    BY <1>4 DEF BeginTest, NameAttempt, ReserveScratch, Project, RunTests,
       BeginFinalize, Again, Crash, CreateManifest, FillManifest, IInv, TypeOK
  <2>2. \A q \in Procs \ {p} : /\ pc'[q] = pc[q] /\ key'[q] = key[q]
                               /\ at'[q] = at[q] /\ verdict'[q] = verdict[q]
    BY <1>4 DEF BeginTest, NameAttempt, ReserveScratch, Project, RunTests,
       BeginFinalize, Again, Crash, CreateManifest, FillManifest, IInv, TypeOK
  <2> QED
    BY <1>3, <2>1, <2>2
<1>5. ASSUME NEW p \in Procs, Select(p) \/ LoadInputs(p) \/ Reselect(p)
      PROVE VerdictHeld'
  BY <1>3, <1>5 DEF Select, LoadInputs, Reselect, testVars, Decided, VerdictHeld,
     IInv, TypeOK
<1>6. ASSUME NEW p \in Procs, NEW protected \in BOOLEAN,
             Build(p, protected) \/ GuardFailed(p) \/ Create(p)
      PROVE VerdictHeld'
  BY <1>3, <1>6 DEF Build, GuardFailed, Create, testVars, Decided, VerdictHeld,
     IInv, TypeOK, FromPatch, Executable
<1>7. ASSUME NEW p \in Procs, Look(p) \/ Fill(p) PROVE VerdictHeld'
  <2>1. UNCHANGED <<key, verdict, attempt>>
    BY <1>7 DEF Look, Fill, testVars
  <2>2. verdict[p] \in Decided /\ attempt[key[p]] = verdict[p]
    BY <1>7 DEF Look, Fill, VerdictHeld
  <2>3. pc'[p] \in {"look", "create", "failed", "done"}
    BY <1>7 DEF Look, Fill, Advance, IInv, TypeOK
  <2>4. \A q \in Procs \ {p} : pc'[q] = pc[q] /\ at'[q] = at[q]
    BY <1>7 DEF Look, Fill, Advance, IInv, TypeOK
  <2>5. pc'[p] \in {"look", "create"} /\ at'[p] \in Executable => verdict[p] = "PASSED"
    <3>1. at'[p] = at[p] \/ at'[p] = Following(at[p], verdict[p])
      BY <1>7 DEF Look, Fill, Advance, IInv, TypeOK
    <3>2. at[p] \in Executable => verdict[p] = "PASSED"
      BY <1>7 DEF Look, Fill, VerdictHeld
    <3>3. Following(at[p], verdict[p]) \in Executable => verdict[p] = "PASSED"
      BY <3>2 DEF Following, Executable
    <3> QED
      BY <3>1, <3>2, <3>3
  <2> QED
    BY <1>3, <2>1, <2>2, <2>3, <2>4, <2>5
<1> QED
  BY <1>2, <1>4, <1>5, <1>6, <1>7, NextCases DEF Quiet

LEMMA NextBehind ==
  IInv /\ Recording /\ VerdictHeld /\ Behind /\ [Next]_vars => Behind'
<1> SUFFICES ASSUME IInv, Recording, VerdictHeld, Behind, [Next]_vars PROVE Behind'
  OBVIOUS
<1> USE DEF Goto, Ends
<1>0. \A f \in Files : IsWhole(output[f]) => IsWhole(output'[f])
  BY NextKept DEF Kept
<1>1. {"patch", "validation", "bundle"} \subseteq Files
  BY DEF Files
<1>2. CASE UNCHANGED vars \/ Upgrade \/ Disturb \/ Expire
  BY <1>0, <1>1, <1>2 DEF vars, procVars, testVars, Upgrade, Disturb, Expire, Behind
<1>3. ASSUME NEW p \in Procs,
             \A q \in Procs \ {p} : /\ pc'[q] = pc[q] /\ at'[q] = at[q]
                                    /\ verdict'[q] = verdict[q],
             pc'[p] \in {"look", "create", "fill"} =>
               /\ at'[p] # "patch" => IsWhole(output'["patch"])
               /\ at'[p] = "bundle" \/ (at'[p] = "test" /\ verdict'[p] = "PASSED") =>
                    IsWhole(output'["validation"])
               /\ at'[p] = "test" /\ verdict'[p] = "PASSED" => IsWhole(output'["bundle"])
      PROVE Behind'
  <2> SUFFICES ASSUME NEW q \in Procs, pc'[q] \in {"look", "create", "fill"}
               PROVE  /\ at'[q] # "patch" => IsWhole(output'["patch"])
                      /\ at'[q] = "bundle" \/ (at'[q] = "test" /\ verdict'[q] = "PASSED") =>
                           IsWhole(output'["validation"])
                      /\ at'[q] = "test" /\ verdict'[q] = "PASSED"
                           => IsWhole(output'["bundle"])
    BY DEF Behind, IsWhole
  <2>1. CASE q = p
    BY <1>3, <2>1
  <2>2. CASE q # p
    BY <1>0, <1>1, <1>3, <2>2 DEF Behind
  <2> QED
    BY <2>1, <2>2
<1>4. ASSUME NEW p \in Procs,
             \/ BeginTest(p) \/ NameAttempt(p) \/ ReserveScratch(p) \/ Project(p)
             \/ RunTests(p) \/ BeginFinalize(p) \/ Again(p) \/ Crash(p)
             \/ CreateManifest(p) \/ FillManifest(p)
             \/ Select(p) \/ LoadInputs(p) \/ Reselect(p)
      PROVE Behind'
  <2>1. pc'[p] \notin {"look", "create", "fill"}
    BY <1>4 DEF BeginTest, NameAttempt, ReserveScratch, Project, RunTests,
       BeginFinalize, Again, Crash, CreateManifest, FillManifest, Select, LoadInputs,
       Reselect, IInv, TypeOK
  <2>2. \A q \in Procs \ {p} : /\ pc'[q] = pc[q] /\ at'[q] = at[q]
                               /\ verdict'[q] = verdict[q]
    BY <1>4 DEF BeginTest, NameAttempt, ReserveScratch, Project, RunTests,
       BeginFinalize, Again, Crash, CreateManifest, FillManifest, Select, LoadInputs,
       Reselect, IInv, TypeOK
  <2> QED
    BY <1>3, <2>1, <2>2
<1>5. ASSUME NEW p \in Procs, NEW protected \in BOOLEAN,
             Build(p, protected) \/ GuardFailed(p)
      PROVE  Behind'
  <2>1. pc'[p] \in {"look", "create", "fill"} => at'[p] = "patch"
    BY <1>5 DEF Build, GuardFailed, IInv, TypeOK, FromPatch
  <2>2. \A q \in Procs \ {p} : /\ pc'[q] = pc[q] /\ at'[q] = at[q]
                               /\ verdict'[q] = verdict[q]
    BY <1>5 DEF Build, GuardFailed, IInv, TypeOK
  <2> QED
    BY <1>3, <2>1, <2>2
<1>6. ASSUME NEW p \in Procs, Create(p) PROVE Behind'
  <2>1. UNCHANGED <<at, verdict>> /\ pc[p] = "create"
    BY <1>6 DEF Create
  <2>2. \A q \in Procs \ {p} : pc'[q] = pc[q]
    BY <1>6 DEF Create, IInv, TypeOK
  <2> QED
    BY <1>0, <1>1, <1>3, <2>1, <2>2 DEF Behind
<1>7. ASSUME NEW p \in Procs, Look(p) \/ Fill(p) PROVE Behind'
  <2>1. pc[p] \in {"look", "fill"} /\ UNCHANGED verdict
    BY <1>7 DEF Look, Fill
  <2>2. \A q \in Procs \ {p} : pc'[q] = pc[q] /\ at'[q] = at[q]
    BY <1>7 DEF Look, Fill, Advance, IInv, TypeOK
  <2>3. CASE at'[p] = at[p]
    BY <1>0, <1>1, <1>3, <2>1, <2>2, <2>3 DEF Behind
  <2>4. CASE /\ at'[p] = Following(at[p], verdict[p])
             /\ output'[at[p]] = Mine(p)
    <3>1. IsWhole(output'[at[p]])
      BY <2>4, ContentFacts DEF Mine, IInv, TypeOK
    <3>2. /\ at[p] # "patch" => IsWhole(output'["patch"])
          /\ at[p] = "bundle" => IsWhole(output'["validation"])
      BY <1>0, <1>1, <2>1 DEF Behind
    <3>3. verdict[p] \in Decided /\ (at[p] \in Executable => verdict[p] = "PASSED")
      BY <2>1 DEF VerdictHeld
    <3>4. /\ at'[p] # "patch"
          /\ at'[p] = "bundle" => at[p] = "validation"
          /\ at'[p] = "test" /\ verdict[p] = "PASSED" => at[p] = "bundle"
      BY <2>4 DEF Following, Files, IInv, TypeOK
    <3> QED
      BY <1>3, <2>1, <2>2, <3>1, <3>2, <3>4
  <2> QED
    BY <1>7, <2>3, <2>4 DEF Look, Fill, Advance, IInv, TypeOK
<1> QED
  BY <1>2, <1>4, <1>5, <1>6, <1>7, NextCases DEF Quiet

(* The executable outputs and the test manifest, as they are found.        *)
ExecutablePassed ==
  \A f \in Executable :
    output[f] # Absent =>
      /\ output["challenger"][2] \in Runners
      /\ attempt[output["challenger"][2]] = "PASSED"

TestCompletes ==
  IsWhole(output["test"]) =>
    /\ output["test"][2] \in Runners
    /\ attempt[output["test"][2]] \in Decided
    /\ IsWhole(output["patch"])
    /\ attempt[output["test"][2]] = "PASSED" =>
         IsWhole(output["validation"]) /\ IsWhole(output["bundle"])

VInv == IInv /\ Recording /\ VerdictHeld /\ Behind /\ ExecutablePassed /\ TestCompletes

LEMMA NextExecutable == VInv /\ [Next]_vars => ExecutablePassed'
<1> SUFFICES ASSUME VInv, [Next]_vars, NEW f \in Executable, output'[f] # Absent
             PROVE  /\ output'["challenger"][2] \in Runners
                    /\ attempt'[output'["challenger"][2]] = "PASSED"
  BY DEF ExecutablePassed
<1>1. Kept
  BY NextKept DEF VInv
<1>2. f \in Late /\ f \in Files /\ f # "challenger" /\ "challenger" \in Files
  BY DEF Executable, Late, Files
<1>3. CASE output[f] # Absent
  <2>1. IsWhole(output["challenger"])
    BY <1>2, <1>3 DEF VInv, IInv, Governed
  <2>2. /\ output["challenger"][2] \in Runners
        /\ attempt[output["challenger"][2]] = "PASSED"
    BY <1>3 DEF VInv, ExecutablePassed
  <2> QED
    BY <1>1, <1>2, <2>1, <2>2 DEF Kept, Verdicts
<1>4. CASE output[f] = Absent
  <2>1. PICK p \in Procs : (Create(p) \/ Fill(p)) /\ at[p] = f
    BY <1>2, <1>4, NextCases, QuietAlone
       DEF vars, testVars, Upgrade, Disturb, Expire, CreateManifest, FillManifest, Create, Fill,
       VInv, IInv, TypeOK
  <2>2. pc[p] \in {"create", "fill"}
    BY <2>1 DEF Create, Fill
  <2>3. verdict[p] = "PASSED" /\ attempt[key[p]] = "PASSED"
    BY <2>1, <2>2 DEF VInv, VerdictHeld
  <2>4. output["challenger"] = Content("challenger", key[p], hashed[p])
    BY <1>2, <2>1, <2>2 DEF VInv, IInv, Past
  <2>5. output'["challenger"] = output["challenger"]
    BY <1>1, <1>2, <2>4, ContentFacts DEF Kept
  <2>6. output'["challenger"][2] = key[p]
    BY <1>2, <2>4, <2>5, ContentFacts
  <2>7. key[p] \in Runners
    BY DEF VInv, IInv, TypeOK
  <2> QED
    BY <1>1, <2>3, <2>6, <2>7 DEF Kept, Verdicts
<1> QED
  BY <1>3, <1>4

LEMMA NextTest == VInv /\ [Next]_vars => TestCompletes'
<1> SUFFICES ASSUME VInv, [Next]_vars, IsWhole(output["test"])'
             PROVE  /\ output'["test"][2] \in Runners
                    /\ attempt'[output'["test"][2]] \in Decided
                    /\ IsWhole(output["patch"])'
                    /\ attempt'[output'["test"][2]] = "PASSED" =>
                         IsWhole(output["validation"])' /\ IsWhole(output["bundle"])'
  BY DEF TestCompletes
<1>1. Kept
  BY NextKept DEF VInv
<1>2. {"test", "patch", "validation", "bundle"} \subseteq Files
  BY DEF Files
<1>3. \A f \in Files : IsWhole(output[f]) => IsWhole(output[f])'
  BY <1>1 DEF Kept, IsWhole
<1>4. CASE IsWhole(output["test"])
  <2>1. /\ output["test"][2] \in Runners
        /\ attempt[output["test"][2]] \in Decided
        /\ output'["test"] = output["test"]
    BY <1>1, <1>2, <1>4 DEF VInv, TestCompletes, Kept
  <2>2. attempt'[output["test"][2]] = attempt[output["test"][2]]
    BY <1>1, <2>1 DEF Kept, Decided, Verdicts
  <2> QED
    BY <1>2, <1>3, <1>4, <2>1, <2>2 DEF VInv, TestCompletes
<1>5. CASE ~IsWhole(output["test"])
  <2>1. PICK p \in Procs : Fill(p) /\ at[p] = "test" /\ output'["test"] = Mine(p)
    <3>1. output'["test"] # output["test"]
      BY <1>5 DEF IsWhole
    <3>2. PICK p \in Procs : (Create(p) \/ Fill(p)) /\ at[p] = "test"
      BY <1>2, <3>1, NextCases, QuietAlone
         DEF vars, testVars, Upgrade, Disturb, Expire, CreateManifest, FillManifest, Create,
         Fill, VInv, IInv, TypeOK
    <3> QED
      BY <1>2, <1>5, <3>1, <3>2, Unfinished
         DEF Create, Fill, VInv, IInv, TypeOK, IsWhole
  <2>2. pc[p] = "fill" /\ key[p] \in Runners
    BY <2>1 DEF Fill, VInv, IInv, TypeOK
  <2>3. output'["test"][2] = key[p]
    BY <1>2, <2>1, ContentFacts DEF Mine
  <2>4. verdict[p] \in Decided /\ attempt[key[p]] = verdict[p]
    BY <2>2 DEF VInv, VerdictHeld
  <2>5. attempt'[key[p]] = verdict[p]
    BY <1>1, <2>2, <2>4 DEF Kept, Decided, Verdicts
  <2> QED
    BY <1>2, <1>3, <2>1, <2>2, <2>3, <2>4, <2>5 DEF VInv, Behind
<1> QED
  BY <1>4, <1>5

LEMMA InitVInv == Init => VInv
<1> SUFFICES ASSUME Init PROVE VInv
  OBVIOUS
<1>1. IInv
  BY InitIInv
<1>2. Recording /\ VerdictHeld /\ Behind
  BY DEF Init, Recording, VerdictHeld, Behind
<1>3. ExecutablePassed /\ TestCompletes
  BY Unfinished DEF Init, ExecutablePassed, TestCompletes, Executable, Files
<1> QED
  BY <1>1, <1>2, <1>3 DEF VInv

LEMMA NextVInv == VInv /\ [Next]_vars => VInv'
  BY NextIInv, NextRecording, NextVerdictHeld, NextBehind, NextExecutable, NextTest
  DEF VInv

LEMMA VerdictFollows == VInv => VerdictKept
<1> SUFFICES ASSUME VInv PROVE VerdictKept
  OBVIOUS
<1>1. \A f \in Executable :
        output[f] # Absent =>
          /\ IsWhole(output["challenger"])
          /\ attempt[output["challenger"][2]] = "PASSED"
  BY DEF VInv, ExecutablePassed, IInv, Governed, Executable, Late
<1>2. ASSUME IsWhole(output["test"])
      PROVE  /\ attempt[output["test"][2]] \in Decided
             /\ \A f \in Files :
                  IF attempt[output["test"][2]] = "FAILED" /\ f \in Executable
                  THEN output[f] = Absent ELSE IsWhole(output[f])
  <2>1. /\ attempt[output["test"][2]] \in Decided /\ IsWhole(output["patch"])
        /\ attempt[output["test"][2]] = "PASSED" =>
             IsWhole(output["validation"]) /\ IsWhole(output["bundle"])
    BY <1>2 DEF VInv, TestCompletes
  <2>2. /\ IsWhole(output["challenger"])
        /\ output["test"][2] = output["challenger"][2]
    BY <1>2, Unfinished DEF VInv, IInv, Governed, Late
  <2>3. attempt[output["test"][2]] = "FAILED" =>
          \A f \in Executable : output[f] = Absent
    BY <1>1, <2>2
  <2> QED
    BY <1>2, <2>1, <2>2, <2>3 DEF Decided, Files, Executable
<1> QED
  BY <1>1, <1>2 DEF VerdictKept, Decided

LEMMA Verdict == Spec => []VInv
  BY InitVInv, NextVInv, PTL DEF Spec

(* Executable outputs only beside a passed attempt, and everything its     *)
(* verdict calls for beside the test manifest, for every number of         *)
(* finalizers, runner versions and failures.                               *)
THEOREM VerdictRespected == Spec => []VerdictKept
  BY Verdict, VerdictFollows, PTL

(* No step alters or removes a whole output or an attempt's manifest.      *)
THEOREM ArtifactsImmutable == Spec => Immutable
<1>1. VInv /\ [Next]_vars => [Kept]_vars
  BY NextKept DEF VInv
<1> QED
  BY <1>1, Verdict, PTL DEF Spec, Immutable, Kept

(***************************************************************************)
(* Outputs and attempt manifests implement ExclusiveFile.                  *)
(***************************************************************************)
Docs == {c \in Contents : IsWhole(c)}

LEMMA DocFacts ==
  /\ Absent \in Contents /\ Torn \in Contents /\ Absent # Torn
  /\ Absent \notin Docs /\ Torn \notin Docs
  BY Unfinished DEF Docs, Contents

(* Whoever is not filling an output does not begin to by a quiet step.     *)
LEMMA QuietOutputs ==
  ASSUME IInv, NEW p \in Procs, Quiet(p), ~Crash(p)
  PROVE  UNCHANGED Outputs!fileVars
<1>1. /\ pc[p] # "fill" /\ pc'[p] # "fill" /\ output' = output
      /\ \A q \in Procs \ {p} : pc'[q] = pc[q] /\ at'[q] = at[q]
  BY QuietAlone
     DEF Quiet, BeginTest, NameAttempt, ReserveScratch, Project, RunTests,
     BeginFinalize, Select, LoadInputs, Reselect, Build, GuardFailed, Look, Advance,
     Again, Ended, IInv, TypeOK, Goto, Ends
<1> QED
  BY <1>1 DEF Outputs!fileVars

LEMMA QuietAttempts ==
  ASSUME IInv, NEW p \in Procs, Quiet(p), ~Crash(p)
  PROVE  UNCHANGED Attempts!fileVars
<1>1. /\ pc[p] # "recording" /\ pc'[p] # "recording" /\ attempt' = attempt
      /\ \A q \in Procs \ {p} : pc'[q] = pc[q] /\ key'[q] = key[q]
  BY QuietAlone
     DEF Quiet, BeginTest, NameAttempt, ReserveScratch, Project, RunTests,
     BeginFinalize, Select, LoadInputs, Reselect, Build, GuardFailed, Look, Advance,
     Again, Ended, IInv, TypeOK, Goto, Ends
<1> QED
  BY <1>1 DEF Attempts!fileVars

LEMMA OutputSteps == IInv /\ [Next]_vars => [Outputs!FileNext]_(Outputs!fileVars)
<1> SUFFICES ASSUME IInv, Next PROVE [Outputs!FileNext]_(Outputs!fileVars)
  BY DEF vars, procVars, testVars, Outputs!fileVars
<1> USE DEF Goto, Ends
<1>1. CASE Upgrade \/ Disturb \/ Expire
  BY <1>1 DEF procVars, testVars, Upgrade, Disturb, Expire, Outputs!fileVars
<1>2. ASSUME NEW p \in Procs,
             Quiet(p) \/ CreateManifest(p) \/ FillManifest(p) \/ Create(p) \/ Fill(p)
      PROVE  [Outputs!FileNext]_(Outputs!fileVars)
  <2>0. PICK f \in Files : f = at[p]
    BY DEF IInv, TypeOK
  <2>1. CASE Quiet(p) /\ ~Crash(p)
    BY <2>1, QuietOutputs DEF Outputs!fileVars
  <2>2. CASE CreateManifest(p) \/ FillManifest(p)
    <3>1. /\ pc[p] # "fill" /\ pc'[p] # "fill" /\ output' = output /\ at' = at
          /\ \A q \in Procs \ {p} : pc'[q] = pc[q]
      BY <2>2 DEF CreateManifest, FillManifest, IInv, TypeOK
    <3> QED
      BY <3>1 DEF Outputs!fileVars
  <2>3. CASE Create(p)
    <3>1. CASE output[f] = Absent
      <4>1. Outputs!Create(p, f)
        BY <2>0, <2>3, <3>1, DocFacts DEF Create, IInv, TypeOK, Docs, Outputs!Create
      <4> QED
        BY <2>0, <4>1 DEF Outputs!FileNext
    <3>2. CASE output[f] # Absent
      BY <2>0, <2>3, <3>2 DEF Create, IInv, TypeOK, Outputs!fileVars
    <3> QED
      BY <3>1, <3>2
  <2>4. CASE Fill(p)
    <3>0. output[f] = Torn /\ Mine(p) \in Docs
      BY <2>0, <2>4, ContentTyped, ContentFacts
         DEF Fill, IInv, TypeOK, Filling, Mine, Docs
    <3>1. /\ pc[p] = "fill" /\ pc'[p] # "fill"
          /\ \A q \in Procs \ {p} : pc'[q] = pc[q] /\ at'[q] = at[q]
      BY <2>4 DEF Fill, Advance, IInv, TypeOK
    <3>2. CASE output' = [output EXCEPT ![f] = Mine(p)]
      <4>0. PICK c \in Docs : c = Mine(p)
        BY <3>0
      <4>1. Outputs!Fill(p, f, c)
        BY <2>0, <3>0, <3>1, <3>2, <4>0, DocFacts DEF IInv, TypeOK, Docs, Outputs!Fill
      <4> QED
        BY <2>0, <4>0, <4>1 DEF Docs, Outputs!FileNext
    <3>3. CASE output' = [output EXCEPT ![f] = Absent]
      <4>1. Outputs!Unlink(p, f)
        BY <2>0, <3>0, <3>1, <3>3, DocFacts DEF IInv, TypeOK, Docs, Outputs!Unlink
      <4> QED
        BY <2>0, <4>1 DEF Outputs!FileNext
    <3> QED
      BY <2>0, <2>4, <3>2, <3>3 DEF Fill
  <2>5. CASE Crash(p)
    <3>1. CASE pc[p] = "fill"
      <4>1. Outputs!Die(p, f)
        BY <2>0, <2>5, <3>1 DEF Crash, IInv, TypeOK, Outputs!Die
      <4> QED
        BY <2>0, <4>1 DEF Outputs!FileNext
    <3>2. CASE pc[p] # "fill"
      BY <2>5, <3>2 DEF Crash, IInv, TypeOK, Outputs!fileVars
    <3> QED
      BY <3>1, <3>2
  <2> QED
    BY <1>2, <2>1, <2>2, <2>3, <2>4, <2>5
<1> QED
  BY <1>1, <1>2, NextCases

LEMMA AttemptSteps ==
  IInv /\ Recording /\ [Next]_vars => [Attempts!FileNext]_(Attempts!fileVars)
<1> SUFFICES ASSUME IInv, Recording, Next PROVE [Attempts!FileNext]_(Attempts!fileVars)
  BY DEF vars, procVars, testVars, Attempts!fileVars
<1> USE DEF Goto, Ends
<1>0. "absent" \notin Verdicts /\ "torn" \notin Verdicts
  BY DEF Verdicts
<1>1. CASE Upgrade \/ Disturb \/ Expire
  BY <1>1 DEF procVars, testVars, Upgrade, Disturb, Expire, Attempts!fileVars
<1>2. ASSUME NEW p \in Procs,
             Quiet(p) \/ CreateManifest(p) \/ FillManifest(p) \/ Create(p) \/ Fill(p)
      PROVE  [Attempts!FileNext]_(Attempts!fileVars)
  <2>0. PICK r \in Runners : r = key[p]
    BY DEF IInv, TypeOK
  <2>1. CASE Quiet(p) /\ ~Crash(p)
    BY <2>1, QuietAttempts DEF Attempts!fileVars
  <2>2. CASE Create(p) \/ Fill(p)
    <3>1. /\ pc[p] # "recording" /\ pc'[p] # "recording" /\ attempt' = attempt /\ key' = key
          /\ \A q \in Procs \ {p} : pc'[q] = pc[q]
      BY <2>2 DEF Create, Fill, Advance, testVars, IInv, TypeOK
    <3> QED
      BY <3>1 DEF Attempts!fileVars
  <2>3. CASE CreateManifest(p)
    <3>1. CASE attempt[r] = "absent"
      <4>1. Attempts!Create(p, r)
        BY <1>0, <2>0, <2>3, <3>1 DEF CreateManifest, IInv, TypeOK, Attempts!Create
      <4> QED
        BY <2>0, <4>1 DEF Attempts!FileNext
    <3>2. CASE attempt[r] # "absent"
      BY <2>0, <2>3, <3>2 DEF CreateManifest, IInv, TypeOK, Attempts!fileVars
    <3> QED
      BY <3>1, <3>2
  <2>4. CASE FillManifest(p)
    <3>0. attempt[r] = "torn" /\ verdict[p] \in Verdicts
      BY <2>0, <2>4 DEF FillManifest, IInv, TypeOK, InHand, Recording
    <3>1. CASE attempt' = [attempt EXCEPT ![r] = verdict[p]]
      <4>0. PICK v \in Verdicts : v = verdict[p]
        BY <3>0
      <4>1. Attempts!Fill(p, r, v)
        BY <1>0, <2>0, <2>4, <3>0, <3>1, <4>0
           DEF FillManifest, IInv, TypeOK, Attempts!Fill
      <4> QED
        BY <2>0, <4>1 DEF Attempts!FileNext
    <3>2. CASE attempt' = [attempt EXCEPT ![r] = "absent"]
      <4>1. Attempts!Unlink(p, r)
        BY <1>0, <2>0, <2>4, <3>0, <3>2 DEF FillManifest, IInv, TypeOK, Attempts!Unlink
      <4> QED
        BY <2>0, <4>1 DEF Attempts!FileNext
    <3> QED
      BY <2>0, <2>4, <3>1, <3>2 DEF FillManifest
  <2>5. CASE Crash(p)
    <3>1. CASE pc[p] = "recording"
      <4>1. Attempts!Die(p, r)
        BY <2>0, <2>5, <3>1 DEF Crash, testVars, IInv, TypeOK, Attempts!Die
      <4> QED
        BY <2>0, <4>1 DEF Attempts!FileNext
    <3>2. CASE pc[p] # "recording"
      BY <2>5, <3>2 DEF Crash, testVars, IInv, TypeOK, Attempts!fileVars
    <3> QED
      BY <3>1, <3>2
  <2> QED
    BY <1>2, <2>1, <2>2, <2>3, <2>4, <2>5
<1> QED
  BY <1>1, <1>2, NextCases

(* Outputs and attempt manifests are exclusive files: whatever testers and *)
(* finalizers overlap and die, they are created, filled and left as        *)
(* ExclusiveFile allows it.                                                *)
THEOREM ArtifactsImplemented == Spec => WritesOnce
<1>1. Init => Outputs!FileInit /\ Attempts!FileInit
  BY DocFacts DEF Init, Docs, Verdicts, Outputs!FileInit, Attempts!FileInit
<1>2. VInv => IInv /\ Recording
  BY DEF VInv
<1> QED
  BY <1>1, <1>2, OutputSteps, AttemptSteps, Verdict, PTL
     DEF Spec, WritesOnce, Outputs!FileSpec, Attempts!FileSpec
=============================================================================
