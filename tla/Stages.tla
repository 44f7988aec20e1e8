------------------------------- MODULE Stages -------------------------------
(* The stages that have no EOF coordinator, by kind. *)
EXTENDS BankNameJoiner, Q4Stages, FileSplitter

FreshOf(kind) ==
    FreshStage(CASE kind \in {"joinerQ2", "joinerQ3", "joinerQ5"} -> FreshJoiner
                 [] kind = "banknames" -> FreshNames
                 [] kind \in {"q4sum", "q4joiner"} -> FreshSides
                 [] kind = "q4aggregator" -> FreshPairs
                 [] kind = "q4deduper" -> FreshAccounts
                 [] kind = "splitter" -> FreshFiles)

(* Stage me gets m on one of its threads. *)
StageHandle(g, me, thread, st, m) ==
    CASE g.kinds[me] \in {"joinerQ2", "joinerQ3", "joinerQ5"} -> JoinerHandle(g, me, st, m)
      [] g.kinds[me] = "banknames" -> BankNamesHandle(thread, me, st, m)
      [] g.kinds[me] = "q4sum" -> Q4SumHandle(g, me, st, m)
      [] g.kinds[me] = "q4joiner" -> Q4JoinerHandle(g, me, st, m)
      [] g.kinds[me] = "q4aggregator" -> Q4AggregatorHandle(g, me, st, m)
      [] g.kinds[me] = "q4deduper" -> Q4DeduperHandle(g, me, st, m)
      [] g.kinds[me] = "splitter" -> SplitterHandle(me, st, m)

=============================================================================
