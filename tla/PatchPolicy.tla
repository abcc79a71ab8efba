---------------------------- MODULE PatchPolicy ----------------------------
(***************************************************************************)
(* The way of a change from the request to the Challenger: the scope of    *)
(* the proposal (binding.py), the Builder's edits, the text patch of       *)
(* deterministic_patch (candidate.py), the two policies of                 *)
(* patch_policy.py, the declarations compared by _validate_builder_output  *)
(* (sandbox.py) and the checks before the tests (candidate_testing.py).    *)
(*                                                                         *)
(* A path, a pattern and a prefix are words, sequences of atoms: an atom   *)
(* is any piece of text, and "*" in a pattern matches any run of them.     *)
(* Three atoms mean something in the headers of a patch: "blank" for a     *)
(* space or a tab, "blank_b/" for a space and b/ (the end of a directory's *)
(* name and the beginning of the next), and "break" for any character but  *)
(* the newline at which splitlines ends a line.                            *)
(*                                                                         *)
(* What matters of a file is its text as read_text returns it: up to two   *)
(* lines, the last of which may lack its newline, and whether V2 takes the *)
(* text for a binary patch's.                                              *)
(***************************************************************************)
EXTENDS Naturals, FiniteSets, SequencesExt

CONSTANTS
  Files,          \* every path that may occur, in sorted order
  Base,           \* the clean source snapshot: path -> content
  Contents,       \* what the Builder may leave under a path
  ChangeScopes,   \* the request's [allowed, forbidden] patterns
  ScopeProposals, \* the values of files_allowed_to_change to propose
  Policy,         \* version -> [allowed, forbidden] patterns and
                  \* [implementation, tests] prefixes
  Champions,      \* --protected-champion-path of finalize-candidate
  Executable,     \* paths _safe_declared_tests takes for pytest modules
  Entrypoints,    \* paths the declared entrypoint may resolve to
  MaxEdits        \* bound: files the Builder writes

Paths == ToSet(Files)
PolicyVersions == {"V1", "V2"}

(* A request names directories to allow, dir/**, and gives every pattern   *)
(* it forbids a literal beginning, as every request of the repository does;*)
(* the comparison of literal beginnings needs both.                        *)
ASSUME RequestAssumption ==
  /\ \A a \in ChangeScopes.allowed :
       Len(a) > 1 /\ Last(a) = "*" /\ \A i \in 1..(Len(a) - 1) : a[i] # "*"
  /\ \A f \in ChangeScopes.forbidden : f # <<>> /\ Head(f) # "*"

(* Words are sequences, a snapshot holds text files, and what the Builder  *)
(* leaves is one of the texts told apart below.                            *)
ASSUME PatchAssumption ==
  /\ Files \in Seq(Paths)
  /\ Base \in [Paths -> {"absent", "empty", "old", "cut", "more"}]
  /\ \A p \in Paths : p # <<>> /\ ~({"blank_b/", "break"} \subseteq ToSet(p))
  /\ \A p \in Paths \cup ChangeScopes.allowed \cup ChangeScopes.forbidden
               \cup UNION ScopeProposals : p \in Seq(ToSet(p))
  /\ Contents \subseteq {"absent", "empty", "old", "oldcrlf", "new", "marked",
                       "cut", "more", "binary"}
  /\ DOMAIN Policy = PolicyVersions
  /\ MaxEdits \in Nat

VARIABLES
  stage,      \* how far the candidate has come
  scope,      \* files_allowed_to_change of the approved proposal
  version,    \* the bound candidate_patch_policy_version
  tree,       \* candidate_worktree: path -> content
  declared,   \* files_changed of the Builder's output
  edits

patchVars == <<stage, scope, version, tree, declared, edits>>

Stages == {"request", "build", "refused", "valid", "testable", "untestable",
           "manifest", "protected"}

PatchInit ==
  /\ stage = "request"
  /\ scope = {}
  /\ version = "V1"
  /\ tree = Base
  /\ declared = {}
  /\ edits = 0

----------------------------------------------------------------------------
(* Patterns.                                                               *)

(* fnmatch.fnmatchcase: a "*" of the word itself is text like any other.   *)
Glob(word, pattern) ==
  LET reach[j \in 0..Len(pattern)] ==  \* how far the first j atoms may go
        IF j = 0 THEN {0}
        ELSE LET before == reach[j-1]
             IN {i \in 0..Len(word) :
                   \/ pattern[j] = "*" /\ \E k \in before : k <= i
                   \/ i - 1 \in before /\ word[i] = pattern[j]}
  IN Len(word) \in reach[Len(pattern)]

Matches(path, patterns) == \E p \in patterns : Glob(path, p)
StartsWith(path, prefixes) == \E p \in prefixes : IsPrefix(p, path)

Literal(pattern) ==
  LET stars == {i \in DOMAIN pattern : pattern[i] = "*"}
  IN IF stars = {} THEN pattern ELSE SubSeq(pattern, 1, Min(stars) - 1)

ScopeWithin(proposed, allowed) ==
  \/ proposed = allowed
  \/ Glob(proposed, allowed)
  \/ Literal(allowed) # <<>> /\ IsPrefix(Literal(allowed), Literal(proposed))

(* Mutant: only the proposal inside the forbidden scope counts as an overlap.*)
ScopesOverlapOneWay(first, second) == ScopeWithin(first, second)

ScopesOverlap(first, second) ==
  ScopeWithin(first, second) \/ ScopeWithin(second, first)

(* The part of validate_algorithm_proposal that is about scopes.           *)
ScopeAccepted(proposal) ==
  /\ \A p \in proposal : \E a \in ChangeScopes.allowed : ScopeWithin(p, a)
  /\ \A p \in proposal, f \in ChangeScopes.forbidden : ~ScopesOverlap(p, f)

----------------------------------------------------------------------------
(* The patch.                                                              *)

(* Text files only: anything else, or a symbolic link, ends the comparison.*)
AllReadable == \A p \in Paths : tree[p] # "binary"

(* read_text: an absent file counts as no line, and so does an empty one;  *)
(* line ends are all the same.  A line is its text and its newline.  The   *)
(* "marked" text has "Binary files ", "GIT binary patch" or NUL in it.     *)
Text(content) ==
  CASE content \in {"absent", "empty"} -> <<>>
    [] content \in {"old", "oldcrlf"}  -> <<[text |-> "old", ends |-> TRUE]>>
    [] content = "new"                 -> <<[text |-> "new", ends |-> TRUE]>>
    [] content = "marked"              -> <<[text |-> "marked", ends |-> TRUE]>>
    [] content = "cut"                 -> <<[text |-> "new", ends |-> FALSE]>>
    [] content = "more"                -> <<[text |-> "old", ends |-> TRUE],
                                            [text |-> "end", ends |-> FALSE]>>

Line(k, a, e) == [kind |-> k, arg |-> a, ends |-> e]
Lines(k, text) == [i \in DOMAIN text |-> Line(k, text[i].text, text[i].ends)]

(* How many lines two different texts have in common, at the beginning.    *)
Common(old, new) ==
  IF old # <<>> /\ new # <<>> /\ old[1] = new[1] THEN 1 ELSE 0
Rest(text, k) == SubSeq(text, k + 1, Len(text))

Section(p) ==
  LET old == Text(Base[p])
      new == Text(tree[p])
      k   == Common(old, new)
  IN IF old = new THEN <<>>
     ELSE <<Line("diff", p, TRUE),
            Line("from", IF Base[p] = "absent" THEN <<>> ELSE p, TRUE),
            Line("to", IF tree[p] = "absent" THEN <<>> ELSE p, TRUE),
            Line("hunk", <<old = <<>>, new = <<>> >>, TRUE)>>
          \o Lines("kept", SubSeq(old, 1, k))
          \o Lines("-", Rest(old, k)) \o Lines("+", Rest(new, k))

Differs == {k \in DOMAIN Files : Section(Files[k]) # <<>>}

(* "".join(sections): after a section whose text has no final newline the  *)
(* header goes on in the same line, and is a header no more.               *)
Follows(j, k) == j < k /\ \A h \in Differs : ~(j < h /\ h < k)
Shown ==
  {k \in Differs : \A j \in Differs :
                     Follows(j, k) => Last(Section(Files[j])).ends}

Has(path, atoms) == \E i \in DOMAIN path : path[i] \in atoms

(* What ^diff --git a/(.+) b/(.+)$ finds in the header of p: the first     *)
(* group reaches to the last "blank_b/" of the line, and a header broken   *)
(* into two lines is none.                                                 *)
HeaderPaths(p) ==
  IF Has(p, {"break"}) THEN {}
  ELSE IF Has(p, {"blank_b/"})
       THEN LET k == Max({i \in DOMAIN p : p[i] = "blank_b/"})
            IN {p \o <<"blank_b/">> \o SubSeq(p, 1, k - 1),
                SubSeq(p, k + 1, Len(p))}
       ELSE {p}

ShownPaths == UNION {HeaderPaths(Files[k]) : k \in Shown}

----------------------------------------------------------------------------
(* The policies.                                                           *)

(* Mutant: every section reaches to the end of the patch.                  *)
ExtentToEnd(k) == {m \in Differs : k <= m}

(* The sections read as one: up to the next header that begins a line.     *)
Extent(k) == {m \in Differs : k <= m /\ \A h \in Shown : k < h => m < h}

(* Mutant: the lines after the headers are not looked at.                  *)
NewFileSectionByHeader(k) ==
  LET own == Section(Files[k])
  IN own[2].arg = <<>> /\ own[3].arg = Files[k]

(* One section of _changed_paths_v2: a new file, and from the third line   *)
(* on nothing but its text, in every line that begins within the section.  *)
NewFileSection(k) ==
  LET own == Section(Files[k])
  IN /\ own[2].arg = <<>> /\ own[3].arg = Files[k]
     /\ \A m \in Extent(k) :
          LET lines == Section(Files[m])
          IN \A i \in DOMAIN lines :
               i > (IF m = k THEN 3 ELSE 1) /\ lines[i-1].ends =>
                 \/ lines[i].kind = "+"
                 \/ lines[i].kind = "hunk" /\ lines[i].arg = <<TRUE, FALSE>>

(* V2 looks for signs of a binary patch in the whole text of the patch.    *)
LooksBinary ==
  \E k \in Differs : "marked" \in {Base[Files[k]], tree[Files[k]]}

(* The header of V2 takes no path with a space, a tab or a broken line.    *)
V2Header(p) == ~Has(p, {"blank", "blank_b/", "break"})

Wellformed ==
  /\ ShownPaths # {}
  /\ version = "V2" =>
       /\ ~LooksBinary
       /\ \A k \in Shown : V2Header(Files[k]) /\ NewFileSection(k)

ImplementationPaths(paths) ==
  {p \in paths : StartsWith(p, Policy[version].implementation)}
TestPaths(paths) == {p \in paths : StartsWith(p, Policy[version].tests)}

(* validate_candidate_patch, for either policy.                            *)
PolicyAccepts(champions) ==
  /\ Wellformed
  /\ \A p \in ShownPaths :
       /\ ~Matches(p, Policy[version].forbidden)
       /\ ~Matches(p, champions)
       /\ Matches(p, Policy[version].allowed)
       /\ Matches(p, scope)
  /\ ImplementationPaths(ShownPaths) # {}
  /\ TestPaths(ShownPaths) # {}

----------------------------------------------------------------------------
(* The way of a candidate.                                                 *)

(* select_candidate_patch_policy_version: the schema of the proposal       *)
(* decides unless the host names a version, and V2 is never downgraded.    *)
SelectVersion(schema, explicit) ==
  /\ schema = "V2" => explicit # "V1"
  /\ version' = IF explicit = "none" THEN schema ELSE explicit

Propose ==
  /\ stage = "request"
  /\ \E proposal \in ScopeProposals, schema \in PolicyVersions,
        explicit \in PolicyVersions \cup {"none"} :
       /\ ScopeAccepted(proposal)
       /\ SelectVersion(schema, explicit)
       /\ scope' = proposal
  /\ stage' = "build"
  /\ UNCHANGED <<tree, declared, edits>>

(* The Builder writes, replaces, empties or removes a file.                *)
Edit(p, c) ==
  /\ stage = "build"
  /\ edits < MaxEdits
  /\ tree[p] # c
  /\ tree' = [tree EXCEPT ![p] = c]
  /\ edits' = edits + 1
  /\ UNCHANGED <<stage, scope, version, declared>>

Changed == {p \in Paths : tree[p] # Base[p]}

(* Mutant: the declaration is not compared with the patch.                 *)
SubmitTrusting ==
  /\ stage = "build"
  /\ AllReadable
  /\ declared' = Changed
  /\ stage' = IF PolicyAccepts({}) THEN "valid" ELSE "refused"
  /\ UNCHANGED <<scope, version, tree, edits>>

(* The Builder exits and declares what it changed, or what the patch will  *)
(* show; _validate_builder_output compares, with the tests as well.        *)
Submit ==
  /\ stage = "build"
  /\ declared' \in {Changed} \cup (IF AllReadable THEN {ShownPaths} ELSE {})
  /\ stage' = IF /\ AllReadable
                 /\ PolicyAccepts({})
                 /\ declared' = ShownPaths
              THEN "valid" ELSE "refused"
  /\ UNCHANGED <<scope, version, tree, edits>>

(* load_candidate_inputs: the same patch and policy again, then every test *)
(* has to be a module that is there, and the entrypoint a changed one.     *)
LoadInputs ==
  /\ stage = "valid"
  /\ stage' = IF /\ PolicyAccepts({})
                 /\ \A p \in TestPaths(declared) :
                      p \in Executable /\ p \in Paths /\ tree[p] # "absent"
                 /\ \E p \in ShownPaths \cap Entrypoints \cap Paths :
                      tree[p] # "absent"
              THEN "testable" ELSE "untestable"
  /\ UNCHANGED <<scope, version, tree, declared, edits>>

(* build_challenger_manifest: only here are the Champion's paths protected.*)
FinalizeManifest ==
  /\ stage = "testable"
  /\ stage' = IF ScopeAccepted(scope) /\ PolicyAccepts(Champions)
              THEN "manifest" ELSE "protected"
  /\ UNCHANGED <<scope, version, tree, declared, edits>>

PatchNext ==
  \/ Propose
  \/ \E p \in Paths, c \in Contents : Edit(p, c)
  \/ Submit
  \/ LoadInputs
  \/ FinalizeManifest

PatchSpec == PatchInit /\ [][PatchNext]_patchVars

----------------------------------------------------------------------------
(* Properties.                                                             *)

Accepted == stage \in {"valid", "testable", "untestable", "manifest", "protected"}

(* Names that a header may show.                                           *)
Names == Paths \cup UNION {HeaderPaths(p) : p \in Paths}

(* Types; the declared files of an accepted candidate are the shown ones.  *)
PatchTypeOK ==
  /\ stage \in Stages
  /\ scope \in ScopeProposals \cup {{}}
  /\ version \in PolicyVersions
  /\ tree \in [Paths -> Contents \cup {Base[p] : p \in Paths}]
  /\ declared \subseteq Names
  /\ edits \in 0..MaxEdits
  /\ Accepted => declared = ShownPaths

(* No file an accepted candidate declares leaves the scope of the request, *)
(* although the patch is only compared with the proposal, and the proposal *)
(* with the request by prefixes (_scope_within, _scopes_overlap); and under*)
(* V2 each is a new file with text, which the policy reads from the shape  *)
(* of the sections alone (_changed_paths_v2).                              *)
ScopeHeld ==
  Accepted => \A p \in declared :
    /\ Matches(p, ChangeScopes.allowed) /\ ~Matches(p, ChangeScopes.forbidden)
    /\ version = "V2" => Base[p] = "absent" /\ Text(tree[p]) # <<>>

(* A text without a newline at its end is what the patch shows last of a   *)
(* file: as its new text, or as the lines it lost at its end.              *)
EndsCut(p) ==
  /\ Text(tree[p]) # Text(Base[p])
  /\ \/ tree[p] \in {"cut", "more"}
     \/ Base[p] \in {"cut", "more"} /\ Text(tree[p]) = <<>>
     \/ Base[p] = "more" /\ tree[p] \in {"old", "oldcrlf"}

(* What a change has to look like to escape an accepted candidate's patch: *)
(* its text is the same line by line, or, under V1 only, its header is     *)
(* read as other paths or not at all, or an earlier file is shown that has *)
(* no newline at the end.                                                  *)
UnseenForCause ==
  Accepted => \A p \in Changed \ declared :
    \/ Text(tree[p]) = Text(Base[p])
    \/ /\ version = "V1"
       /\ \/ Has(p, {"blank_b/", "break"})
          \/ \E i, j \in DOMAIN Files :
               i < j /\ Files[j] = p /\ EndsCut(Files[i])

(* A candidate of whole new files in scope, with an implementation, a test *)
(* and an honest declaration, is refused for nothing but a path that the   *)
(* headers cannot carry, or under V2 a path with a space or a tab or a     *)
(* text that looks like a binary patch's.                                  *)
RefusedForCause ==
  stage = "refused" =>
    \/ \E p \in Changed : \/ tree[p] \notin {"new", "marked"} \/ Base[p] # "absent"
                          \/ ~Matches(p, Policy[version].allowed)
                          \/ Matches(p, Policy[version].forbidden)
                          \/ ~Matches(p, scope)
                          \/ Has(p, {"blank_b/", "break"})
                          \/ version = "V2" /\ \/ tree[p] = "marked"
                                               \/ Has(p, {"blank"})
    \/ declared # Changed
    \/ ImplementationPaths(Changed) = {} \/ TestPaths(Changed) = {}

(* The claim of the documents: every changed path is validated.            *)
EveryChangeValidated == Accepted => Changed \subseteq declared
=============================================================================
