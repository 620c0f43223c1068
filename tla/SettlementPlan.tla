--------------------------- MODULE SettlementPlan ---------------------------
(***************************************************************************)
(* The arithmetic of expenses in minor units (backend/expenses/services.py):*)
(* how an amount is split among participants, and which transfers settle   *)
(* the balances of a trip.  Users are numbers, in the order of str(id) or, *)
(* for a split, of joining.                                                *)
(***************************************************************************)
EXTENDS Integers, FiniteSets, FiniteSetsExt, Functions

CONSTANT MaxOptimal   \* MAX_OPTIMAL_SETTLEMENT_PARTICIPANTS

ASSUME MaxOptimalAssumption == MaxOptimal \in Nat

----------------------------------------------------------------------------
(* split_amount_evenly *)

Before(u, people) == Cardinality({p \in people : p < u})

\* Mutant: one participant too many gets a unit of the remainder.
SplitInclusive(total, people) ==
    LET n == Cardinality(people)
    IN [u \in people |-> total \div n + IF Before(u, people) <= total % n THEN 1 ELSE 0]

SplitEvenly(total, people) ==
    LET n == Cardinality(people)
    IN [u \in people |-> total \div n + IF Before(u, people) < total % n THEN 1 ELSE 0]

----------------------------------------------------------------------------
(* _build_group_transfers *)

Debtors(balance) == {u \in DOMAIN balance : balance[u] < 0}
Creditors(balance) == {u \in DOMAIN balance : balance[u] > 0}

\* The first who owes pays the first who is owed, as much as both have left.
NextTransfer(balance) ==
    LET payer == Min(Debtors(balance))
        recipient == Min(Creditors(balance))
    IN [payer |-> payer, recipient |-> recipient,
        amount |-> Min({-balance[payer], balance[recipient]})]

After(balance, t) ==
    [balance EXCEPT ![t.payer] = @ + t.amount, ![t.recipient] = @ - t.amount]

GroupTransfers(balance, group) ==
    LET match[left \in [group -> Int]] ==
          IF Debtors(left) = {} \/ Creditors(left) = {} THEN {}
          ELSE {NextTransfer(left)} \cup match[After(left, NextTransfer(left))]
    IN match[[u \in group |-> balance[u]]]

----------------------------------------------------------------------------
(* _max_zero_sum_partition and build_settlement_transfers *)

ZeroSum(balance, group) == SumFunctionOnSet(balance, group) = 0

\* Mutant: the balances are not partitioned.
OneGroup(balance, items) == {items}

\* The groups of a partition with as many groups as possible.  Among several
\* the code takes the least by its signature; here any of them.
MaxZeroSumPartition(balance, items) ==
    LET best[rest \in SUBSET items] ==
          LET groups == {g \in SUBSET rest : Min(rest) \in g /\ ZeroSum(balance, g)}
              candidates == {{g} \cup best[rest \ g] : g \in groups}
          IN IF rest = {} THEN {}
             ELSE IF groups = {} THEN {rest}
             ELSE CHOOSE p \in candidates :
                      \A q \in candidates : Cardinality(q) <= Cardinality(p)
    IN best[items]

Items(balance) == {u \in DOMAIN balance : balance[u] # 0}

BuildTransfers(balance) ==
    IF Cardinality(Items(balance)) > MaxOptimal
    THEN GroupTransfers(balance, Items(balance))
    ELSE UNION {GroupTransfers(balance, g) : g \in MaxZeroSumPartition(balance, Items(balance))}
=============================================================================
