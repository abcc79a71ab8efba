--------------------------- MODULE MCPatchPolicy ----------------------------
(* A small repository for PatchPolicy: a configuration, the ledger, the    *)
(* Champion, an empty package file and tests, with the patterns of         *)
(* patch_policy.py cut down to them, and three paths that headers carry    *)
(* badly: one broken in the middle, one in a directory "x b", one with a   *)
(* space.                                                                  *)
EXTENDS PatchPolicy, TLC

Conf     == <<"config/", "challengers/", "c">>
Ledger   == <<"src/", "ledger/", "l">>
Champion == <<"src/", "strategies/", "champion/", "m">>
Module   == <<"src/", "strategies/", "challengers/", "m">>
Package  == <<"src/", "strategies/", "challengers/", "init">>
Test     == <<"tests/", "candidates/", "test_m">>
Broken   == <<"src/", "strategies/", "challengers/", "a", "break", "b">>
Nested   == <<"src/", "strategies/", "challengers/", "x", "blank_b/">> \o Module
Spaced   == <<"tests/", "candidates/", "test", "blank", "m">>

MCFiles == <<Conf, Ledger, Broken, Package, Module, Nested, Champion, Spaced, Test>>
MCPlainFiles == <<Conf, Ledger, Package, Module, Champion, Test>>

Snapshot(paths) == [p \in paths |-> CASE p = Ledger -> "old"
                                      [] p = Champion -> "more"
                                      [] p = Package -> "empty"
                                      [] OTHER -> "absent"]
MCBase == Snapshot(ToSet(MCFiles))
MCPlainBase == Snapshot(ToSet(MCPlainFiles))

Tree(dir) == dir \o <<"*">>
MCChangeScopes ==
  [allowed   |-> {<<"config/", "*">>, <<"src/", "strategies/", "*">>, <<"tests/", "*">>},
   forbidden |-> {<<"src/", "ledger/", "*">>, Tree(<<"src/", "strategies/", "champion/">>)}]

MCScopeProposals ==
  LET rest == {Tree(<<"tests/", "candidates/">>), Conf}
      challengers == Tree(<<"src/", "strategies/", "challengers/">>)
  IN {rest \cup {challengers},
      rest \cup {Tree(<<"src/", "strategies/">>)},
      rest \cup {<<"src/", "strategies/", "*", "m">>},
      rest \cup {challengers, Champion},
      rest \cup {Tree(<<"src/">>)}}

MCPolicy ==
  [V1 |-> [allowed   |-> {<<"config/", "*">>, <<"src/", "strategies/", "*">>,
                          <<"tests/", "*">>},
           forbidden |-> {<<"src/", "ledger/", "*">>},
           implementation |-> {<<"src/">>, <<"config/">>},
           tests          |-> {<<"tests/">>}],
   V2 |-> [allowed   |-> {Tree(<<"config/", "challengers/">>),
                          Tree(<<"src/", "strategies/", "challengers/">>),
                          Tree(<<"tests/", "candidates/">>)},
           forbidden |-> {<<"src/", "ledger/", "*">>},
           implementation |-> {<<"config/", "challengers/">>,
                               <<"src/", "strategies/", "challengers/">>},
           tests          |-> {<<"tests/", "candidates/">>}]]

MCChampions == {Tree(<<"src/", "strategies/", "champion/">>), Package}
MCExecutable == {Test, Spaced}
MCEntrypoints == {Module}
=============================================================================
