--------------------------- MODULE BankNameJoiner ---------------------------
(***************************************************************************)
(* workers/q2_bank_name_joiner: joins the best transaction of each bank    *)
(* (thread "input", from the Q2 joiner) with the names of the banks        *)
(* (thread "control", batches of [bank, name] of the accounts file).  It   *)
(* emits on whichever message completes both streams by their counts.      *)
(***************************************************************************)
EXTENDS JoinerWorker

ACCOUNTS_SENDER_OFFSET == 1000000

FreshNames == [results |-> <<>>, names |-> <<>>, q2Count |-> 0, q2Total |-> None,
               accCount |-> 0, accTotal |-> None]

Ready(d) ==
    /\ d.q2Total # None /\ d.accTotal # None
    /\ d.q2Count >= d.q2Total /\ d.accCount >= d.accTotal

NamesOf(d, bank) == IF bank \in DOMAIN d.names THEN d.names[bank] ELSE {}
AddName(d, mapping) ==
    LET bank == NotebookBankId(mapping.bank)
    IN  [d EXCEPT !.names = (bank :> NamesOf(d, bank) \cup {mapping.name}) @@ @]

(* The client's state after a message. *)
Q2Changed(d, m) ==
    IF m.type = "EOF" THEN [d EXCEPT !.q2Total = m.total]
    ELSE LET p == [m.items[1] EXCEPT !.bank = NotebookBankId(@)]
         IN  [d EXCEPT !.results = (p.bank :> p) @@ @, !.q2Count = @ + 1]
AccountsChanged(d, m) ==
    IF m.type = "EOF" THEN [d EXCEPT !.accTotal = m.total]
    ELSE [FoldSeq(LAMBDA mapping, x : AddName(x, mapping), d, m.items) EXCEPT !.accCount = @ + 1]

(* _build_result_outputs: one line for each name of a bank with a result;  *)
(* a bank without a name has none.                                         *)
JoinedLines(d) ==
    {[bank |-> b, row |-> d.results[b].row, amount |-> d.results[b].amount, name |-> x] :
        <<b, x>> \in UNION {{b} \X NamesOf(d, b) : b \in DOMAIN d.results}}
NamesOutputs(d) ==
    LET lines == Listed(JoinedLines(d))
    IN  Append([i \in 1 .. Len(lines) |-> Send("result", 2, Between("DATA", <<lines[i]>>, 0))],
               Send("result", 2, Between("EOF", <<>>, Len(lines))))

(* _change_outputs_for: a DATA message looks at the outcome only when both *)
(* EOFs have come; changed is the prospective state.                       *)
NamesInput(id, me, st, m, changed) ==
    LET awaited == m.type = "DATA" /\ (st.data.q2Total = None \/ st.data.accTotal = None)
    IN  IF ~awaited /\ Ready(changed)
        THEN Emit(id, me, CloseStage(st, FreshNames), NamesOutputs(changed))
        ELSE Input(id, IF st.closed THEN st ELSE [st EXCEPT !.data = changed], <<>>)

NamesAbort(id, st) == Input(id, CloseStage(st, FreshNames), <<>>)

OnQ2Message(me, st, m) ==
    IF m.type = "ABORT" THEN NamesAbort(SeqId(m), st)
    ELSE NamesInput(SeqId(m), me, st, m, Q2Changed(st.data, m))

(* Mutant of AccountsId: the two streams share the numbers of a sender. *)
AccountsIdShared(m) == SeqId(m)

(* effective_sender_id: the splitter and the Q2 joiner may have one ID. *)
AccountsId(m) == <<m.type, <<m.from + ACCOUNTS_SENDER_OFFSET, m.n[2]>>>>

OnAccountsMessage(me, st, m) ==
    IF m.type = "ABORT" THEN NamesAbort(AccountsId(m), st)
    ELSE NamesInput(AccountsId(m), me, st, m, AccountsChanged(st.data, m))

BankNamesHandle(thread, me, st, m) ==
    IF thread = "input" THEN OnQ2Message(me, st, m) ELSE OnAccountsMessage(me, st, m)

=============================================================================
