---------------------------- MODULE MCContracts ----------------------------
(* Two cycles, a source known at once and one that becomes known later,    *)
(* requests of both schemas and with every kind of defect, one of which    *)
(* refers to a source its manifest does not name, and proposals that fit   *)
(* one request and not another.                                            *)
EXTENDS Contracts, TLC

MCAvailable == "early" :> 0 @@ "late" :> 2

Sound == [schema |-> "V2", cutoff |-> 1, asOf |-> 1, expires |-> 3,
          sources |-> {"early"}, references |-> {"early"},
          budgets |-> "fit" :> 1 @@ "seek" :> 0, submissions |-> 1,
          maxActions |-> 1, limit |-> 2, used |-> 1, tradable |-> {"u"}]

MCTerms ==
  {Sound,
   [Sound EXCEPT !.cutoff = 2, !.asOf = 2, !.sources = {"early", "late"},
                 !.references = {"late"}, !.budgets = "fit" :> 0 @@ "seek" :> 1],
   [Sound EXCEPT !.schema = "V1", !.expires = 2],
   [Sound EXCEPT !.sources = {"early", "late"}, !.references = {"late"}],
   [Sound EXCEPT !.references = {"early", "late"}],
   [Sound EXCEPT !.used = 2],
   [Sound EXCEPT !.budgets = "fit" :> 1 @@ "seek" :> 1, !.submissions = 2]}

MCProposals ==
  {[schema |-> "V2", action |-> "fit", parent |-> 0, version |-> 1,
    evidence |-> {"early"}, universe |-> {"u"}],
   [schema |-> "V2", action |-> "seek", parent |-> 1, version |-> 2,
    evidence |-> {"late"}, universe |-> {"u"}],
   [schema |-> "V1", action |-> "fit", parent |-> 0, version |-> 1,
    evidence |-> {"early"}, universe |-> {"u"}],
   [schema |-> "V1", action |-> "fit", parent |-> 0, version |-> 1,
    evidence |-> {"late"}, universe |-> {"u"}]}
AnyCycle == Permutations(Cycles)
=============================================================================
