---------------------------- MODULE MCSettlement ----------------------------
(***************************************************************************)
(* Settlement with the split and the plan of SettlementPlan, in two small  *)
(* instances; and, beside the trips, that arithmetic on every small input. *)
(* What is checked is chosen at the start, the rest stays as it is.        *)
(***************************************************************************)
EXTENDS Settlement, MCSettlementPlan

VARIABLE part   \* what is checked: a trip by its bounds, or the arithmetic

sumVars == <<part, vars, planVars>>

SumInit ==
    /\ part \in {"history", "book", "arithmetic"}
    /\ Init /\ PlanInit
    /\ part # "arithmetic" => total = 1 /\ \A u \in People : balance[u] = 0

\* Three users, one expense of 3 that is paid at once: settlements in turn.
HistoryBound ==
    \A e \in Live' : e = 1 /\ expense'[e].total = 3 /\ 1 \notin Range(expense'[e].paid)

\* Two users, two expenses, one settlement.
BookBound == members' \subseteq {1, 2} /\ settled' <= 1

SumNext ==
    /\ UNCHANGED part
    /\ \/ part = "history" /\ Next /\ HistoryBound /\ UNCHANGED planVars
       \/ part = "book" /\ Next /\ BookBound /\ UNCHANGED planVars
       \/ part = "arithmetic" /\ PlanNext /\ UNCHANGED vars

SumSpec == SumInit /\ [][SumNext]_sumVars
=============================================================================
