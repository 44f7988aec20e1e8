----------------------------- MODULE MCEofGroup -----------------------------
EXTENDS EofGroup

Group(worker, size, input, ends) ==
    [worker |-> worker, size |-> size, input |-> input, ends |-> ends,
     mode |-> IF worker \in {"aggregator", "q4filter"} THEN "flush_order" ELSE "broadcast"]
Trouble(crashable, failing, repeats) ==
    [crashable |-> crashable, crashes |-> IF crashable = {} THEN 0 ELSE 1,
     failing |-> failing, fails |-> IF failing = {} THEN 0 ELSE 1, dups |-> repeats]

Workers == {"filter", "sum", "ingestor", "aggregator", "q5usd", "q4filter"}
Broadcasting == Workers \ {"aggregator", "q4filter"}
Calm == Trouble({}, {}, 0)

(* Sends that may fail: a sum, aggregator or Q5 USD filter that closes a   *)
(* client drops the message it closed it on when it comes back, and only   *)
(* the Q4 filter logs the answers (see README).                            *)
Failing(w) ==
    {"DATA", "EOF", "EOF_RECEIVED"}
        \cup (IF w \in {"filter", "ingestor", "q4filter"} THEN {"FLUSH_ORDER", "FLUSH_ACK"} ELSE {})
        \cup (IF w = "q4filter" THEN {"PROCESSED_ANSWER"} ELSE {})

Small ==
    {Group(w, 1, "sharded", e) @@ Trouble({0}, {}, 1) : w \in Workers, e \in {"EOF", "ABORT"}}
        \cup {Group(w, 2, "sharded", "ABORT") @@ Trouble({1}, {}, 1) : w \in Workers}
        \cup {Group(w, 2, "sharded", "EOF") @@ Trouble({}, Failing(w), 0) : w \in Workers}

(* Crashes of any replica, repeated messages, three replicas and a shared  *)
(* input queue on which the counts must be asked for again.                *)
MCScenarios ==
    Small
        \cup {Group(w, 2, "sharded", "EOF") @@ Trouble({0, 1}, {}, 0) : w \in Workers}
        \cup {Group(w, 2, "sharded", "EOF") @@ Trouble({}, {}, 1) : w \in Workers}
        \cup {Group(w, 3, "sharded", "EOF") @@ Calm : w \in Broadcasting}
        \cup {Group(w, 2, "shared", "EOF") @@ Calm : w \in Broadcasting}
        \cup {Group("q4filter", 2, "sharded", "EOF") @@ Trouble({0}, {"REPUBLISHED"}, 0)}

(* Where fairness matters. *)
LiveScenarios == Small \cup {Group("sum", 2, "shared", "EOF") @@ Calm}

LeaderCrash == {Group("ingestor", 2, "sharded", "EOF") @@ Trouble({1}, {}, 0)}

=============================================================================
