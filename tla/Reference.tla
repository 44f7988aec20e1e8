------------------------------ MODULE Reference ------------------------------
(***************************************************************************)
(* scripts/reference_results.py: the rows of each query, computed in one   *)
(* pass over the whole files.  The validators compare what the clients got *)
(* with these, as multisets.                                               *)
(***************************************************************************)
EXTENDS Reductions

InUsd(txs) == {i \in DOMAIN txs : txs[i].currency = USD}

ComputeQ1(txs) == {txs[i] : i \in {k \in InUsd(txs) : txs[k].amount < 50 * Unit}}

(* The names of a bank, and its first transaction of the largest amount. *)
BankNamesById(names, bank) == {n.name : n \in {x \in names : NotebookBankId(x.bank) = bank}}
MaxByBank(txs) ==
    {txs[i] : i \in {k \in InUsd(txs) :
        \A other \in InUsd(txs) :
            NotebookBankId(txs[other].bank) = NotebookBankId(txs[k].bank) =>
                txs[other].amount < txs[k].amount \/ (txs[other].amount = txs[k].amount /\ other >= k)}}
ComputeQ2(txs, names) ==
    UNION {{[bank |-> NotebookBankId(tx.bank), row |-> tx.row, amount |-> tx.amount, name |-> name] :
                name \in BankNamesById(names, NotebookBankId(tx.bank))} : tx \in MaxByBank(txs)}

(* The averages of the first days, and the later transactions below a      *)
(* hundredth of them.  The bounds are compared with raw timestamps.        *)
Baseline(txs, format) == {i \in InUsd(txs) : txs[i].format = format /\ txs[i].day \in 1 .. 5}
Candidates(txs) == {i \in InUsd(txs) : txs[i].day \in 6 .. 14}
ComputeQ3(txs) ==
    {txs[i] : i \in {k \in Candidates(txs) :
        LET baseline == Baseline(txs, txs[k].format)
        IN  /\ baseline # {}
            /\ txs[k].amount * 100 * Cardinality(baseline) < MapThenSumSet(LAMBDA b : txs[b].amount, baseline)}}

(* Payments of the sources with enough targets; the two ends of each pair  *)
(* with more than five paths over an account between them.                 *)
Q4_PAIR_MIN_PATH_ROWS == 5
QualifyingPayments(txs) ==
    LET window == {i \in InUsd(txs) : txs[i].day \in 1 .. 5}
        targets(s) == {txs[i].target : i \in {k \in window : txs[k].source = s}}
    IN  {i \in window : Cardinality(targets(txs[i].source)) >= QUALIFY_TARGETS}
ComputeQ4(txs) ==
    LET kept == QualifyingPayments(txs)
        paths(a, b) == Cardinality({p \in kept \X kept : /\ txs[p[1]].source = a /\ txs[p[2]].target = b
                                                         /\ txs[p[1]].target = txs[p[2]].source})
        ends == {txs[i].source : i \in kept} \X {txs[i].target : i \in kept}
    IN  UNION {{p[1], p[2]} : p \in {x \in ends : x[1] # x[2] /\ paths(x[1], x[2]) > Q4_PAIR_MIN_PATH_ROWS}}

(* A transaction in another currency counts only if the day has its rate.  *)
(* No row is read as the count 0.                                          *)
Q5Rows(txs) ==
    {i \in DOMAIN txs :
        /\ txs[i].format \in {"Wire", "ACH"} /\ txs[i].day \in 1 .. 5
        /\ \/ txs[i].currency = USD /\ txs[i].amount < Unit
           \/ /\ <<txs[i].day, txs[i].currency>> \in DOMAIN Rates
              /\ txs[i].amount < Unit * Rates[<<txs[i].day, txs[i].currency>>]}
ComputeQ5(txs) == {Cardinality(Q5Rows(txs))} \ {0}

=============================================================================
