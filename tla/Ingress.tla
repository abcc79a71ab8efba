------------------------------ MODULE Ingress ------------------------------
(***************************************************************************)
(* verify-webgpt: validate_webgpt_commander_ingress and the                *)
(* ConversationRegistry of webgpt.py, and the publication that _cmd_webgpt *)
(* of cli.py adds.  The registry outlives the cycles: a conversation is    *)
(* claimed once and for all, before the decision taken from it is          *)
(* published.                                                              *)
(***************************************************************************)
EXTENDS Naturals

CONSTANTS
  Procs,           \* runs of verify-webgpt
  Cycles,          \* research cycles
  Conversations,   \* WebGPT conversations
  Scouted,         \* those named with --scout-conversation-id
  MaxFaults        \* bound: crashes and failing system calls

ASSUME IngressAssumption ==
  Scouted \subseteq Conversations /\ MaxFaults \in Nat

VARIABLES
  pc,          \* of each process
  cycle, conv, \* of each process: its cycle and the conversation it presents
  claim,       \* of each conversation: its file in the registry
  decision,    \* of each cycle: output/research_decision.json
  faults

vars == <<pc, cycle, conv, claim, decision, faults>>

Ended == {"done", "failed", "crashed"}
Active == {"validate", "claim", "claiming", "publish", "publishing"}

(* A file: its state and what it names, a cycle or a conversation. *)
Absent == <<"absent">>
Torn   == <<"torn">>
Whole(x) == <<"whole", x>>

Goto(p, label) == pc' = [pc EXCEPT ![p] = label]
Fault == faults < MaxFaults /\ faults' = faults + 1

Init ==
  /\ pc = [p \in Procs |-> "idle"]
  /\ cycle \in [Procs -> Cycles]
  /\ conv \in [Procs -> Conversations]
  /\ claim = [c \in Conversations |-> Absent]
  /\ decision = [x \in Cycles |-> Absent]
  /\ faults = 0

(* The command is given for a cycle, with an ingress document. *)
Begin(p) ==
  /\ pc[p] = "idle"
  /\ \E x \in Cycles, c \in Conversations :
       cycle' = [cycle EXCEPT ![p] = x] /\ conv' = [conv EXCEPT ![p] = c]
  /\ Goto(p, "validate")
  /\ UNCHANGED <<claim, decision, faults>>

(* Schema, selection, times, binding and the decision itself; all of it    *)
(* comes before the claim.                                                 *)
Validate(p) ==
  /\ pc[p] = "validate"
  /\ \/ conv[p] \notin Scouted /\ Goto(p, "claim")
     \/ Goto(p, "failed")
  /\ UNCHANGED <<cycle, conv, claim, decision, faults>>

(* For a mutant: a claimed conversation is let pass. *)
ClaimPassing(p) ==
  /\ pc[p] = "claim"
  /\ IF claim[conv[p]] = Absent
     THEN claim' = [claim EXCEPT ![conv[p]] = Torn] /\ Goto(p, "claiming")
     ELSE Goto(p, "publish") /\ UNCHANGED claim
  /\ UNCHANGED <<cycle, conv, decision, faults>>

(* For a mutant: a file that is there is opened and written again. *)
ClaimOver(p) ==
  /\ pc[p] = "claim"
  /\ claim' = [claim EXCEPT ![conv[p]] = Torn]
  /\ Goto(p, "claiming")
  /\ UNCHANGED <<cycle, conv, decision, faults>>

(* ConversationRegistry.claim: an exclusive write under the hash of the    *)
(* conversation.                                                           *)
Claim(p) ==
  /\ pc[p] = "claim"
  /\ IF claim[conv[p]] = Absent
     THEN claim' = [claim EXCEPT ![conv[p]] = Torn] /\ Goto(p, "claiming")
     ELSE Goto(p, "failed") /\ UNCHANGED claim
  /\ UNCHANGED <<cycle, conv, decision, faults>>

FillClaim(p) ==
  /\ pc[p] = "claiming"
  /\ \/ /\ claim' = [claim EXCEPT ![conv[p]] = Whole(cycle[p])]
        /\ Goto(p, "publish")
        /\ UNCHANGED faults
     \/ /\ Fault
        /\ claim' = [claim EXCEPT ![conv[p]] = Absent]
        /\ Goto(p, "failed")
  /\ UNCHANGED <<cycle, conv, decision>>

(* A cycle that has its decision keeps it; the conversation stays claimed. *)
Publish(p) ==
  /\ pc[p] = "publish"
  /\ IF decision[cycle[p]] = Absent
     THEN /\ decision' = [decision EXCEPT ![cycle[p]] = Torn]
          /\ Goto(p, "publishing")
     ELSE Goto(p, "failed") /\ UNCHANGED decision
  /\ UNCHANGED <<cycle, conv, claim, faults>>

FillDecision(p) ==
  /\ pc[p] = "publishing"
  /\ \/ /\ decision' = [decision EXCEPT ![cycle[p]] = Whole(conv[p])]
        /\ Goto(p, "done")
        /\ UNCHANGED faults
     \/ /\ Fault
        /\ decision' = [decision EXCEPT ![cycle[p]] = Absent]
        /\ Goto(p, "failed")
  /\ UNCHANGED <<cycle, conv, claim>>

Again(p) ==
  /\ pc[p] \in Ended
  /\ Goto(p, "idle")
  /\ UNCHANGED <<cycle, conv, claim, decision, faults>>

Crash(p) ==
  /\ pc[p] \in Active
  /\ Fault
  /\ Goto(p, "crashed")
  /\ UNCHANGED <<cycle, conv, claim, decision>>

Next == \E p \in Procs :
  \/ Begin(p) \/ Validate(p) \/ Claim(p) \/ FillClaim(p) \/ Publish(p)
  \/ FillDecision(p) \/ Again(p) \/ Crash(p)

Spec == Init /\ [][Next]_vars

-----------------------------------------------------------------------------
TypeOK ==
  /\ pc \in [Procs -> {"idle"} \cup Active \cup Ended]
  /\ cycle \in [Procs -> Cycles]
  /\ conv \in [Procs -> Conversations]
  /\ claim \in [Conversations -> {Absent, Torn} \cup {Whole(x) : x \in Cycles}]
  /\ decision \in [Cycles ->
                     {Absent, Torn} \cup {Whole(c) : c \in Conversations}]
  /\ faults \in 0 .. MaxFaults

(* "A reused conversation also fails closed": over all cycles, crashes and *)
(* repeated commands, no two cycles ever have a decision from one          *)
(* conversation, and none has one from a Scout's; behind every published   *)
(* decision the registry holds the claim of that very cycle, so a later    *)
(* cycle finds the conversation taken.                                     *)
ConversationUsedOnce ==
  \A x \in Cycles, c \in Conversations :
    decision[x] = Whole(c) =>
      /\ c \notin Scouted /\ claim[c] = Whole(x)
      /\ \A y \in Cycles \ {x} : decision[y] # Whole(c)

(* Claims and decisions are append-only.                                   *)
AppendOnly ==
  [][/\ \A c \in Conversations, x \in Cycles :
          claim[c] = Whole(x) => claim'[c] = Whole(x)
     /\ \A x \in Cycles, c \in Conversations :
          decision[x] = Whole(c) => decision'[x] = Whole(c)]_vars

(* The registry and the decisions are written as io.py promises, whatever  *)
(* overlaps, fails and dies: no file is filled by two processes, replaced  *)
(* once it is complete, or completed after its writer is gone.             *)
Claims == INSTANCE ExclusiveFile WITH
  Writers <- Procs, Names <- Conversations, Values <- Cycles,
  made <- {c \in Conversations : claim[c] # Absent},
  kept <- {x \in Conversations \X Cycles : claim[x[1]] = Whole(x[2])},
  filling <- {x \in Procs \X Conversations :
                pc[x[1]] = "claiming" /\ conv[x[1]] = x[2]}

Decisions == INSTANCE ExclusiveFile WITH
  Writers <- Procs, Names <- Cycles, Values <- Conversations,
  made <- {x \in Cycles : decision[x] # Absent},
  kept <- {x \in Cycles \X Conversations : decision[x[1]] = Whole(x[2])},
  filling <- {x \in Procs \X Cycles :
                pc[x[1]] = "publishing" /\ cycle[x[1]] = x[2]}

WritesOnce == Claims!FileSpec /\ Decisions!FileSpec
=============================================================================
