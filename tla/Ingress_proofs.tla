--------------------------- MODULE Ingress_proofs ---------------------------
(***************************************************************************)
(* No conversation serves two cycles, for every number of commands, cycles *)
(* and conversations; and what ExclusiveFile promises, with the two files  *)
(* of the ingress as an implementation of it.                              *)
(***************************************************************************)
EXTENDS Ingress, ExclusiveFile, TLAPS

(***************************************************************************)
(* ExclusiveFile.                                                          *)
(***************************************************************************)
FileInv == FileTypeOK /\ OneContent

LEMMA FileInductive == FileSpec => []FileInv
<1>1. FileInit => FileInv
  BY DEF FileInit, FileInv, FileTypeOK, OneContent
<1>2. FileInv /\ [FileNext]_fileVars => FileInv'
  <2> SUFFICES ASSUME FileInv, [FileNext]_fileVars PROVE FileInv'
    OBVIOUS
  <2> USE DEF FileInv, FileTypeOK, OneContent, Unfinished, Complete
  <2>1. ASSUME NEW w \in Writers, NEW n \in Names, Create(w, n) PROVE FileInv'
    <3>1. FileTypeOK'
      BY <2>1 DEF Create
    <3>2. OneContent'
      BY <2>1, Zenon DEF Create
    <3> QED
      BY <3>1, <3>2
  <2>2. ASSUME NEW w \in Writers, NEW n \in Names, NEW v \in Values, Fill(w, n, v)
        PROVE FileInv'
    BY <2>2 DEF Fill
  <2>3. ASSUME NEW w \in Writers, NEW n \in Names, Unlink(w, n) PROVE FileInv'
    BY <2>3 DEF Unlink
  <2>4. ASSUME NEW w \in Writers, NEW n \in Names, Die(w, n) PROVE FileInv'
    BY <2>4 DEF Die
  <2>5. CASE UNCHANGED fileVars
    BY <2>5 DEF fileVars
  <2> QED
    BY <2>1, <2>2, <2>3, <2>4, <2>5 DEF FileNext
<1> QED
  BY <1>1, <1>2, PTL DEF FileSpec

(* A file written by write_json_exclusive has one content, and one writer  *)
(* while it has none.                                                      *)
THEOREM FilesHaveOneContent == FileSpec => []OneContent
<1>1. FileInv => OneContent
  BY DEF FileInv
<1> QED
  BY <1>1, FileInductive, PTL

(* write_json_exclusive never replaces an artifact, and a file its writer  *)
(* left torn is never completed nor taken away.                            *)
THEOREM FilesNeverReplaced == FileSpec => NeverReplaced
<1> DEFINE Stays == \A n \in Names :
                      /\ \A v \in Values : <<n, v>> \in kept =>
                           <<n, v>> \in kept' /\ n \in made'
                      /\ Abandoned(n) => Abandoned(n)'
<1>1. FileInv /\ [FileNext]_fileVars => [Stays]_fileVars
  <2> SUFFICES ASSUME FileInv, FileNext PROVE Stays
    OBVIOUS
  <2> USE DEF FileInv, FileTypeOK, OneContent, Abandoned, Unfinished, Complete
  <2>1. ASSUME NEW w \in Writers, NEW n \in Names, Create(w, n) PROVE Stays
    BY <2>1 DEF Create
  <2>2. ASSUME NEW w \in Writers, NEW n \in Names, NEW v \in Values, Fill(w, n, v)
        PROVE Stays
    BY <2>2 DEF Fill
  <2>3. ASSUME NEW w \in Writers, NEW n \in Names, Unlink(w, n) PROVE Stays
    BY <2>3 DEF Unlink
  <2>4. ASSUME NEW w \in Writers, NEW n \in Names, Die(w, n) PROVE Stays
    BY <2>4 DEF Die
  <2> QED
    BY <2>1, <2>2, <2>3, <2>4 DEF FileNext
<1> QED
  BY <1>1, FileInductive, PTL DEF FileSpec, NeverReplaced

(***************************************************************************)
(* Ingress.                                                                *)
(***************************************************************************)

(* The typing of what the proof indexes. *)
TypeInv ==
  /\ pc \in [Procs -> {"idle"} \cup Active \cup Ended]
  /\ cycle \in [Procs -> Cycles]
  /\ conv \in [Procs -> Conversations]
  /\ DOMAIN claim = Conversations
  /\ DOMAIN decision = Cycles

(* A command writes its claim alone, and once it has it, it keeps it; only *)
(* then does it write the decision.                                        *)
ClaimHeld ==
  \A p \in Procs :
    /\ pc[p] \in {"claim", "claiming", "publish", "publishing"} =>
         conv[p] \notin Scouted
    /\ pc[p] = "claiming" => claim[conv[p]] = Torn
    /\ pc[p] \in {"publish", "publishing"} =>
         claim[conv[p]] = Whole(cycle[p])

ClaimAlone ==
  \A p, q \in Procs :
    pc[p] = "claiming" /\ pc[q] = "claiming" /\ conv[p] = conv[q] => p = q

DecisionAlone ==
  \A p, q \in Procs :
    pc[p] = "publishing" /\ pc[q] = "publishing" /\ cycle[p] = cycle[q]
      => p = q

Publishing ==
  \A p \in Procs : pc[p] = "publishing" => decision[cycle[p]] = Torn

DecisionSound ==
  \A x \in Cycles, c \in Conversations :
    decision[x] = Whole(c) => claim[c] = Whole(x) /\ c \notin Scouted

IInv == TypeInv /\ ClaimHeld /\ ClaimAlone /\ DecisionAlone /\ Publishing
          /\ DecisionSound

LEMMA Files ==
  /\ Absent # Torn
  /\ \A x : Whole(x) # Absent /\ Whole(x) # Torn
  /\ \A x, y : Whole(x) = Whole(y) => x = y
  BY DEF Absent, Torn, Whole

LEMMA InitIInv == Init => IInv
<1> SUFFICES ASSUME Init PROVE IInv
  OBVIOUS
<1>1. TypeInv
  BY DEF Init, TypeInv, Active, Ended
<1>2. ClaimHeld /\ ClaimAlone /\ DecisionAlone /\ Publishing
  BY DEF Init, ClaimHeld, ClaimAlone, DecisionAlone, Publishing
<1>3. DecisionSound
  BY Files DEF Init, DecisionSound
<1> QED
  BY <1>1, <1>2, <1>3 DEF IInv

LEMMA NextIInv == IInv /\ [Next]_vars => IInv'
<1> SUFFICES ASSUME IInv, [Next]_vars PROVE IInv'
  OBVIOUS
<1> USE DEF IInv, Goto
<1>1. CASE UNCHANGED vars
  BY <1>1 DEF vars, TypeInv, ClaimHeld, ClaimAlone, DecisionAlone, Publishing,
     DecisionSound
<1>2. ASSUME NEW p \in Procs, Begin(p) PROVE IInv'
  <2>1. TypeInv'
    BY <1>2 DEF Begin, TypeInv, Active, Ended
  <2>2. ClaimHeld'
    BY <1>2 DEF Begin, TypeInv, ClaimHeld, ClaimAlone
  <2>3. ClaimAlone'
    BY <1>2 DEF Begin, TypeInv, ClaimAlone, ClaimHeld
  <2>4. DecisionAlone'
    BY <1>2 DEF Begin, TypeInv, DecisionAlone, Publishing
  <2>5. Publishing'
    BY <1>2 DEF Begin, TypeInv, Publishing, DecisionAlone
  <2>6. DecisionSound'
    BY <1>2 DEF Begin, TypeInv, DecisionSound, ClaimHeld, Publishing
  <2> QED
    BY <2>1, <2>2, <2>3, <2>4, <2>5, <2>6
<1>3. ASSUME NEW p \in Procs, Validate(p) PROVE IInv'
  <2>1. TypeInv'
    BY <1>3 DEF Validate, TypeInv, Active, Ended
  <2>2. ClaimHeld'
    BY <1>3 DEF Validate, TypeInv, ClaimHeld, ClaimAlone
  <2>3. ClaimAlone'
    BY <1>3 DEF Validate, TypeInv, ClaimAlone, ClaimHeld
  <2>4. DecisionAlone'
    BY <1>3 DEF Validate, TypeInv, DecisionAlone, Publishing
  <2>5. Publishing'
    BY <1>3 DEF Validate, TypeInv, Publishing, DecisionAlone
  <2>6. DecisionSound'
    BY <1>3 DEF Validate, TypeInv, DecisionSound, ClaimHeld, Publishing
  <2> QED
    BY <2>1, <2>2, <2>3, <2>4, <2>5, <2>6
<1>4. ASSUME NEW p \in Procs, Claim(p) PROVE IInv'
  <2>1. TypeInv'
    BY <1>4, Files DEF Claim, TypeInv, Active, Ended
  <2>2. ClaimHeld'
    BY <1>4, Files DEF Claim, TypeInv, ClaimHeld, ClaimAlone
  <2>3. ClaimAlone'
    BY <1>4, Files DEF Claim, TypeInv, ClaimAlone, ClaimHeld
  <2>4. DecisionAlone'
    BY <1>4, Files DEF Claim, TypeInv, DecisionAlone, Publishing
  <2>5. Publishing'
    BY <1>4, Files DEF Claim, TypeInv, Publishing, DecisionAlone
  <2>6. DecisionSound'
    BY <1>4, Files DEF Claim, TypeInv, DecisionSound, ClaimHeld, Publishing
  <2> QED
    BY <2>1, <2>2, <2>3, <2>4, <2>5, <2>6
<1>5. ASSUME NEW p \in Procs, FillClaim(p) PROVE IInv'
  <2>1. TypeInv'
    BY <1>5, Files DEF FillClaim, Fault, TypeInv, Active, Ended
  <2>2. ClaimHeld'
    BY <1>5, Files DEF FillClaim, Fault, TypeInv, ClaimHeld, ClaimAlone
  <2>3. ClaimAlone'
    BY <1>5, Files DEF FillClaim, Fault, TypeInv, ClaimAlone, ClaimHeld
  <2>4. DecisionAlone'
    BY <1>5, Files DEF FillClaim, Fault, TypeInv, DecisionAlone, Publishing
  <2>5. Publishing'
    BY <1>5, Files DEF FillClaim, Fault, TypeInv, Publishing, DecisionAlone
  <2>6. DecisionSound'
    BY <1>5, Files
       DEF FillClaim, Fault, TypeInv, DecisionSound, ClaimHeld, Publishing
  <2> QED
    BY <2>1, <2>2, <2>3, <2>4, <2>5, <2>6
<1>6. ASSUME NEW p \in Procs, Publish(p) PROVE IInv'
  <2>1. TypeInv'
    BY <1>6, Files DEF Publish, TypeInv, Active, Ended
  <2>2. ClaimHeld'
    BY <1>6, Files DEF Publish, TypeInv, ClaimHeld, ClaimAlone
  <2>3. ClaimAlone'
    BY <1>6, Files DEF Publish, TypeInv, ClaimAlone, ClaimHeld
  <2>4. DecisionAlone'
    BY <1>6, Files DEF Publish, TypeInv, DecisionAlone, Publishing
  <2>5. Publishing'
    BY <1>6, Files DEF Publish, TypeInv, Publishing, DecisionAlone
  <2>6. DecisionSound'
    BY <1>6, Files DEF Publish, TypeInv, DecisionSound, ClaimHeld, Publishing
  <2> QED
    BY <2>1, <2>2, <2>3, <2>4, <2>5, <2>6
<1>7. ASSUME NEW p \in Procs, FillDecision(p) PROVE IInv'
  <2>1. TypeInv'
    BY <1>7, Files DEF FillDecision, Fault, TypeInv, Active, Ended
  <2>2. ClaimHeld'
    BY <1>7, Files DEF FillDecision, Fault, TypeInv, ClaimHeld, ClaimAlone
  <2>3. ClaimAlone'
    BY <1>7, Files DEF FillDecision, Fault, TypeInv, ClaimAlone, ClaimHeld
  <2>4. DecisionAlone'
    BY <1>7, Files DEF FillDecision, Fault, TypeInv, DecisionAlone, Publishing
  <2>5. Publishing'
    BY <1>7, Files DEF FillDecision, Fault, TypeInv, Publishing, DecisionAlone
  <2>6. DecisionSound'
    BY <1>7, Files
       DEF FillDecision, Fault, TypeInv, DecisionSound, ClaimHeld, Publishing
  <2> QED
    BY <2>1, <2>2, <2>3, <2>4, <2>5, <2>6
<1>8. ASSUME NEW p \in Procs, Again(p) PROVE IInv'
  <2>1. TypeInv'
    BY <1>8 DEF Again, TypeInv, Active, Ended
  <2>2. ClaimHeld'
    BY <1>8 DEF Again, Ended, TypeInv, ClaimHeld, ClaimAlone
  <2>3. ClaimAlone'
    BY <1>8 DEF Again, Ended, TypeInv, ClaimAlone, ClaimHeld
  <2>4. DecisionAlone'
    BY <1>8 DEF Again, Ended, TypeInv, DecisionAlone, Publishing
  <2>5. Publishing'
    BY <1>8 DEF Again, Ended, TypeInv, Publishing, DecisionAlone
  <2>6. DecisionSound'
    BY <1>8 DEF Again, Ended, TypeInv, DecisionSound, ClaimHeld, Publishing
  <2> QED
    BY <2>1, <2>2, <2>3, <2>4, <2>5, <2>6
<1>9. ASSUME NEW p \in Procs, Crash(p) PROVE IInv'
  <2>1. TypeInv'
    BY <1>9 DEF Crash, Fault, TypeInv, Active, Ended
  <2>2. ClaimHeld'
    BY <1>9 DEF Crash, Fault, TypeInv, ClaimHeld, ClaimAlone
  <2>3. ClaimAlone'
    BY <1>9 DEF Crash, Fault, TypeInv, ClaimAlone, ClaimHeld
  <2>4. DecisionAlone'
    BY <1>9 DEF Crash, Fault, TypeInv, DecisionAlone, Publishing
  <2>5. Publishing'
    BY <1>9 DEF Crash, Fault, TypeInv, Publishing, DecisionAlone
  <2>6. DecisionSound'
    BY <1>9 DEF Crash, Fault, TypeInv, DecisionSound, ClaimHeld, Publishing
  <2> QED
    BY <2>1, <2>2, <2>3, <2>4, <2>5, <2>6
<1> QED
  BY <1>1, <1>2, <1>3, <1>4, <1>5, <1>6, <1>7, <1>8, <1>9 DEF Next

LEMMA Inductive == Spec => []IInv
  BY InitIInv, NextIInv, PTL DEF Spec

(* No two cycles ever publish a decision from one conversation, and none   *)
(* publishes one from a Scout's, and each published decision has the claim *)
(* of its own cycle behind it: the registry of webgpt.py keeps its promise *)
(* under every interleaving, failure and crash of verify-webgpt.           *)
THEOREM NoConversationReused == Spec => []ConversationUsedOnce
<1>1. IInv => ConversationUsedOnce
  BY Files DEF IInv, TypeInv, DecisionSound, ConversationUsedOnce
<1> QED
  BY <1>1, Inductive, PTL

(* A claim that is complete and a decision that is published are never     *)
(* replaced or removed: write_json_exclusive under both names.             *)
THEOREM RegistryGrows == Spec => AppendOnly
<1> DEFINE Kept == /\ \A c \in Conversations, x \in Cycles :
                        claim[c] = Whole(x) => claim'[c] = Whole(x)
                   /\ \A x \in Cycles, c \in Conversations :
                        decision[x] = Whole(c) => decision'[x] = Whole(c)
<1>1. IInv /\ [Next]_vars => [Kept]_vars
  <2> SUFFICES ASSUME IInv, Next PROVE Kept
    OBVIOUS
  <2> PICK p \in Procs : \/ Begin(p) \/ Validate(p) \/ Again(p) \/ Crash(p)
                         \/ Claim(p) \/ FillClaim(p) \/ Publish(p) \/ FillDecision(p)
    BY DEF Next
  <2>1. CASE Begin(p) \/ Validate(p) \/ Again(p) \/ Crash(p)
    BY <2>1 DEF Begin, Validate, Again, Crash
  <2>2. CASE Claim(p) \/ FillClaim(p)
    BY <2>2, Files DEF Claim, FillClaim, IInv, TypeInv, ClaimHeld
  <2>3. CASE Publish(p) \/ FillDecision(p)
    BY <2>3, Files DEF Publish, FillDecision, IInv, TypeInv, Publishing
  <2> QED
    BY <2>1, <2>2, <2>3
<1> QED
  BY <1>1, Inductive, PTL DEF Spec, AppendOnly

(* Every variable keeps its type. *)
THEOREM TypeCorrect == Spec => []TypeOK
<1>1. Init => TypeOK
  BY IngressAssumption DEF Init, TypeOK
<1>2. TypeOK /\ [Next]_vars => TypeOK'
  <2> SUFFICES ASSUME TypeOK, [Next]_vars PROVE TypeOK'
    OBVIOUS
  <2> USE IngressAssumption DEF TypeOK, Goto, Fault, Active, Ended
  <2>1. ASSUME NEW p \in Procs, Begin(p) \/ Validate(p) \/ Again(p) \/ Crash(p)
        PROVE TypeOK'
    BY <2>1 DEF Begin, Validate, Again, Crash
  <2>2. ASSUME NEW p \in Procs, Claim(p) PROVE TypeOK'
    BY <2>2 DEF Claim
  <2>3. ASSUME NEW p \in Procs, FillClaim(p) PROVE TypeOK'
    BY <2>3 DEF FillClaim
  <2>4. ASSUME NEW p \in Procs, Publish(p) PROVE TypeOK'
    BY <2>4 DEF Publish
  <2>5. ASSUME NEW p \in Procs, FillDecision(p) PROVE TypeOK'
    BY <2>5 DEF FillDecision
  <2>6. CASE UNCHANGED vars
    BY <2>6 DEF vars
  <2> QED
    BY <2>1, <2>2, <2>3, <2>4, <2>5, <2>6 DEF Next
<1> QED
  BY <1>1, <1>2, PTL DEF Spec

(***************************************************************************)
(* Ingress implements ExclusiveFile, with its claims and its decisions.    *)
(***************************************************************************)

(* A step of verify-webgpt is a step of one claim's file or leaves the     *)
(* registry alone.                                                         *)
LEMMA ClaimSteps == IInv /\ [Next]_vars => [Claims!FileNext]_(Claims!fileVars)
<1> SUFFICES ASSUME IInv, Next PROVE [Claims!FileNext]_(Claims!fileVars)
  BY DEF vars, Claims!fileVars
<1> PICK p \in Procs : \/ Begin(p) \/ Validate(p) \/ Claim(p) \/ FillClaim(p)
                       \/ Publish(p) \/ FillDecision(p) \/ Again(p) \/ Crash(p)
  BY DEF Next
<1>0. PICK c \in Conversations, x \in Cycles : c = conv[p] /\ x = cycle[p]
  BY DEF IInv, TypeInv
<1> USE DEF IInv, TypeInv, Goto
<1>1. CASE Begin(p) \/ Validate(p) \/ Publish(p) \/ FillDecision(p) \/ Again(p)
  BY <1>1 DEF Begin, Validate, Publish, FillDecision, Again, Ended, Claims!fileVars
<1>2. CASE Claim(p)
  <2>1. CASE claim[c] = Absent
    <3>1. Claims!Create(p, c)
      BY <1>0, <1>2, <2>1, Files DEF Claim, Claims!Create
    <3> QED
      BY <1>0, <3>1 DEF Claims!FileNext
  <2>2. CASE claim[c] # Absent
    BY <1>0, <1>2, <2>2 DEF Claim, Claims!fileVars
  <2> QED
    BY <2>1, <2>2
<1>3. CASE FillClaim(p)
  <2>0. claim[c] = Torn
    BY <1>0, <1>3 DEF FillClaim, ClaimHeld
  <2>1. CASE claim' = [claim EXCEPT ![c] = Whole(x)]
    <3>1. Claims!Fill(p, c, x)
      BY <1>0, <1>3, <2>0, <2>1, Files DEF FillClaim, Claims!Fill
    <3> QED
      BY <1>0, <3>1 DEF Claims!FileNext
  <2>2. CASE claim' = [claim EXCEPT ![c] = Absent]
    <3>1. Claims!Unlink(p, c)
      BY <1>0, <1>3, <2>0, <2>2, Files DEF FillClaim, Claims!Unlink
    <3> QED
      BY <1>0, <3>1 DEF Claims!FileNext
  <2> QED
    BY <1>0, <1>3, <2>1, <2>2 DEF FillClaim
<1>4. CASE Crash(p)
  <2>1. CASE pc[p] = "claiming"
    <3>1. Claims!Die(p, c)
      BY <1>0, <1>4, <2>1 DEF Crash, Claims!Die
    <3> QED
      BY <1>0, <3>1 DEF Claims!FileNext
  <2>2. CASE pc[p] # "claiming"
    BY <1>0, <1>4, <2>2 DEF Crash, Claims!fileVars
  <2> QED
    BY <2>1, <2>2
<1> QED
  BY <1>1, <1>2, <1>3, <1>4

(* And a step of one decision's file or leaves the decisions alone.        *)
LEMMA DecisionSteps == IInv /\ [Next]_vars => [Decisions!FileNext]_(Decisions!fileVars)
<1> SUFFICES ASSUME IInv, Next PROVE [Decisions!FileNext]_(Decisions!fileVars)
  BY DEF vars, Decisions!fileVars
<1> PICK p \in Procs : \/ Begin(p) \/ Validate(p) \/ Claim(p) \/ FillClaim(p)
                       \/ Publish(p) \/ FillDecision(p) \/ Again(p) \/ Crash(p)
  BY DEF Next
<1>0. PICK c \in Conversations, x \in Cycles : c = conv[p] /\ x = cycle[p]
  BY DEF IInv, TypeInv
<1> USE DEF IInv, TypeInv, Goto
<1>1. CASE Begin(p) \/ Validate(p) \/ Claim(p) \/ FillClaim(p) \/ Again(p)
  BY <1>1 DEF Begin, Validate, Claim, FillClaim, Again, Ended, Decisions!fileVars
<1>2. CASE Publish(p)
  <2>1. CASE decision[x] = Absent
    <3>1. Decisions!Create(p, x)
      BY <1>0, <1>2, <2>1, Files DEF Publish, Decisions!Create
    <3> QED
      BY <1>0, <3>1 DEF Decisions!FileNext
  <2>2. CASE decision[x] # Absent
    BY <1>0, <1>2, <2>2 DEF Publish, Decisions!fileVars
  <2> QED
    BY <2>1, <2>2
<1>3. CASE FillDecision(p)
  <2>0. decision[x] = Torn
    BY <1>0, <1>3 DEF FillDecision, Publishing
  <2>1. CASE decision' = [decision EXCEPT ![x] = Whole(c)]
    <3>1. Decisions!Fill(p, x, c)
      BY <1>0, <1>3, <2>0, <2>1, Files DEF FillDecision, Decisions!Fill
    <3> QED
      BY <1>0, <3>1 DEF Decisions!FileNext
  <2>2. CASE decision' = [decision EXCEPT ![x] = Absent]
    <3>1. Decisions!Unlink(p, x)
      BY <1>0, <1>3, <2>0, <2>2, Files DEF FillDecision, Decisions!Unlink
    <3> QED
      BY <1>0, <3>1 DEF Decisions!FileNext
  <2> QED
    BY <1>0, <1>3, <2>1, <2>2 DEF FillDecision
<1>4. CASE Crash(p)
  <2>1. CASE pc[p] = "publishing"
    <3>1. Decisions!Die(p, x)
      BY <1>0, <1>4, <2>1 DEF Crash, Decisions!Die
    <3> QED
      BY <1>0, <3>1 DEF Decisions!FileNext
  <2>2. CASE pc[p] # "publishing"
    BY <1>0, <1>4, <2>2 DEF Crash, Decisions!fileVars
  <2> QED
    BY <2>1, <2>2
<1> QED
  BY <1>1, <1>2, <1>3, <1>4

(* The claims and decisions of verify-webgpt are exclusive files: the      *)
(* interleaved creates, fills, failures and crashes of any number of       *)
(* commands are those of ExclusiveFile.                                    *)
THEOREM FilesImplemented == Spec => WritesOnce
<1>1. Init => Claims!FileInit /\ Decisions!FileInit
  BY Files DEF Init, Claims!FileInit, Decisions!FileInit
<1> QED
  BY <1>1, ClaimSteps, DecisionSteps, Inductive, PTL
     DEF Spec, WritesOnce, Claims!FileSpec, Decisions!FileSpec
=============================================================================
