------------------------------ MODULE AclLease ------------------------------
(***************************************************************************)
(* What the native ACL code of sandbox.py promises to the rest of the      *)
(* host: one lease on the run's files at a time, held while the sandbox    *)
(* child runs, and nothing left readable or writable for the sandbox       *)
(* principal once the lease is given back.  A lease whose staging breaks   *)
(* off stays in "staging" for good: only manual work outside the program   *)
(* can clear it.                                                           *)
(*                                                                         *)
(* NativeAcl implements this specification step by step; Invocation uses   *)
(* its actions as the lease operations of one invocation.                  *)
(***************************************************************************)

VARIABLES
  lease,     \* "free" | "staging" | "held", read off the event files
  exposed,   \* some path carries a grant for the sandbox principal
  child      \* "none" | "running" | "exited": the one Codex child

leaseVars == <<lease, exposed, child>>

LeaseTypeOK ==
  /\ lease \in {"free", "staging", "held"}
  /\ exposed \in BOOLEAN
  /\ child \in {"none", "running", "exited"}

Init ==
  /\ lease = "free"
  /\ exposed = FALSE
  /\ child = "none"

(* The PLAN event is on disk: the baseline is sealed, no grant is made yet. *)
Begin ==
  /\ lease = "free"
  /\ lease' = "staging"
  /\ UNCHANGED <<exposed, child>>

(* A grant for the sandbox principal: only under a lease. *)
Expose ==
  /\ lease # "free"
  /\ exposed' = TRUE
  /\ UNCHANGED <<lease, child>>

(* The STAGED event is on disk. *)
Hold ==
  /\ lease = "staging"
  /\ lease' = "held"
  /\ UNCHANGED <<exposed, child>>

Launch ==
  /\ lease = "held"
  /\ child = "none"
  /\ child' = "running"
  /\ UNCHANGED <<lease, exposed>>

Exit ==
  /\ child = "running"
  /\ child' = "exited"
  /\ UNCHANGED <<lease, exposed>>

(* The last grant is taken back: never from under a running child. *)
Withdraw ==
  /\ lease # "free"
  /\ child # "running"
  /\ exposed' = FALSE
  /\ UNCHANGED <<lease, child>>

(* The REVOKED event is on disk. *)
Release ==
  /\ lease = "held"
  /\ child # "running"
  /\ ~exposed
  /\ lease' = "free"
  /\ UNCHANGED <<exposed, child>>

Next == Begin \/ Expose \/ Hold \/ Launch \/ Exit \/ Withdraw \/ Release

LeaseSpec == Init /\ [][Next]_leaseVars

(***************************************************************************)
(* The safety the rest of the program relies on: no sandbox grant outside  *)
(* a lease, and no child without one.                                      *)
(***************************************************************************)
Contained ==
  /\ exposed => lease # "free"
  /\ child = "running" => lease = "held"
=============================================================================
