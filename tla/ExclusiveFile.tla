---------------------------- MODULE ExclusiveFile ----------------------------
(***************************************************************************)
(* What write_json_exclusive and write_text_exclusive of io.py promise to  *)
(* everybody who writes by them: a file under a name is created once, is   *)
(* filled by the process that created it, and is never replaced.  A write  *)
(* that fails takes the file away again, and one that dies leaves it torn. *)
(*                                                                         *)
(* The host has no lock and no database; this is what its protocols rest   *)
(* on.  Ingress, Planning, CandidateTests and CandidateDecision implement  *)
(* this specification with the files they publish.                         *)
(***************************************************************************)
CONSTANTS
  Writers,   \* processes
  Names,     \* paths
  Values     \* contents

VARIABLES
  made,      \* the names that exist
  kept,      \* name and content of every file that is complete
  filling    \* the writers between open and close, each with its name

fileVars == <<made, kept, filling>>

FileInit == made = {} /\ kept = {} /\ filling = {}

Complete(n) == \E v \in Values : <<n, v>> \in kept
Unfinished(n) == n \in made /\ ~Complete(n)

(* O_CREAT with O_EXCL; whoever finds the name taken changes nothing. *)
Create(w, n) ==
  /\ n \notin made
  /\ \A m \in Names : <<w, m>> \notin filling
  /\ made' = made \cup {n}
  /\ filling' = filling \cup {<<w, n>>}
  /\ UNCHANGED kept

(* Write, flush and fsync, by the one who holds the descriptor. *)
Fill(w, n, v) ==
  /\ <<w, n>> \in filling
  /\ kept' = kept \cup {<<n, v>>}
  /\ filling' = filling \ {<<w, n>>}
  /\ UNCHANGED made

(* An error after the open unlinks the file. *)
Unlink(w, n) ==
  /\ <<w, n>> \in filling
  /\ made' = made \ {n}
  /\ filling' = filling \ {<<w, n>>}
  /\ UNCHANGED kept

(* The process dies in between. *)
Die(w, n) ==
  /\ <<w, n>> \in filling
  /\ filling' = filling \ {<<w, n>>}
  /\ UNCHANGED <<made, kept>>

FileNext ==
  \E w \in Writers, n \in Names :
    \/ Create(w, n) \/ Unlink(w, n) \/ Die(w, n)
    \/ \E v \in Values : Fill(w, n, v)

FileSpec == FileInit /\ [][FileNext]_fileVars

-----------------------------------------------------------------------------
FileTypeOK ==
  /\ made \in SUBSET Names
  /\ kept \in SUBSET (Names \X Values)
  /\ filling \in SUBSET (Writers \X Names)

(* A file is filled by one process, the one that created it, and has one   *)
(* content: "create a JSON file once".                                     *)
OneContent ==
  /\ \A n \in Names, v \in Values : <<n, v>> \in kept => n \in made
  /\ \A n \in Names, u, v \in Values :
       <<n, u>> \in kept /\ <<n, v>> \in kept => u = v
  /\ \A w, x \in Writers, n \in Names :
       <<w, n>> \in filling => Unfinished(n) /\ (<<x, n>> \in filling => w = x)

(* Nobody is at work on a torn file. *)
Abandoned(n) == Unfinished(n) /\ \A w \in Writers : <<w, n>> \notin filling

(* "Never replace an existing append-only artifact": what is complete      *)
(* stays as it is, and a torn file whose writer is gone stays torn; there  *)
(* is no command that repairs it.                                          *)
NeverReplaced ==
  [][\A n \in Names :
       /\ \A v \in Values : <<n, v>> \in kept =>
            <<n, v>> \in kept' /\ n \in made'
       /\ Abandoned(n) => Abandoned(n)']_fileVars
=============================================================================
