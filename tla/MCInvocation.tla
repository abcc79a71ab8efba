---------------------------- MODULE MCInvocation ----------------------------
(* Three invocations for TLC: two native Builders, one with crashes, one   *)
(* whose executions race for the launch, and a Commander on a backend      *)
(* without ACL, where only the same command overlaps, with more faults.    *)
EXTENDS Invocation, TLC

MCAll == {{"execute"}, {"adopt"}, {"execute", "adopt"}}

MCSetups ==
  {[role |-> "builder", native |-> TRUE, faults |-> 1, racing |-> FALSE,
    overlap |-> MCAll],
   [role |-> "builder", native |-> TRUE, faults |-> 1, racing |-> TRUE,
    overlap |-> MCAll],
   [role |-> "commander", native |-> FALSE, faults |-> 3, racing |-> FALSE,
    overlap |-> {{"execute"}, {"adopt"}}]}
=============================================================================
