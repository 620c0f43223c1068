-------------------------- MODULE MCSettlementPlan --------------------------
(***************************************************************************)
(* SettlementPlan over all small inputs: an input is chosen, then the plan *)
(* and the split are computed.                                             *)
(***************************************************************************)
EXTENDS SettlementPlan

CONSTANTS
    People,       \* 1 .. n
    MaxBalance,   \* bound: balances lie between -MaxBalance and MaxBalance
    MaxTotal      \* bound: amounts to split

ASSUME PeopleAssumption == People \subseteq Nat /\ IsFiniteSet(People)
ASSUME InputsAssumption == MaxBalance \in Nat /\ MaxTotal \in Nat

VARIABLES balance, total, planned, shares

planVars == <<balance, total, planned, shares>>

PlanInit ==
    /\ balance \in {b \in [People -> -MaxBalance .. MaxBalance] : ZeroSum(b, People)}
    /\ total \in 1 .. MaxTotal
    /\ planned = {}
    /\ shares = <<>>

ComputeTransfers ==
    /\ planned = {}
    /\ planned' = BuildTransfers(balance)
    /\ UNCHANGED <<balance, total, shares>>

\* The users with a balance stand for the participants of an expense.
ComputeSplit ==
    /\ shares = <<>>
    /\ Items(balance) # {}
    /\ shares' = SplitEvenly(total, Items(balance))
    /\ UNCHANGED <<balance, total, planned>>

PlanNext == ComputeTransfers \/ ComputeSplit

----------------------------------------------------------------------------
SumOf(payments) == SumFunction([t \in payments |-> t.amount])

Sent(u) == SumOf({t \in planned : t.payer = u})
Received(u) == SumOf({t \in planned : t.recipient = u})

\* The transfers settle every balance exactly, and nobody pays who is not in
\* debt (build_settlement_transfers, and the check amount > 0 of the table).
TransfersSettle ==
    planned # {} =>
        /\ \A u \in People : balance[u] + Sent(u) - Received(u) = 0
        /\ \A t \in planned : t.amount > 0 /\ balance[t.payer] < 0 /\ balance[t.recipient] > 0

\* Up to MaxOptimal people, no settlement needs fewer transfers: people minus
\* the largest number of groups that settle among themselves, here by brute
\* force over all assignments of people to groups.
GroupCounts(people) ==
    {k \in 1 .. Cardinality(people) :
        \E f \in [people -> 1 .. k] :
            \A i \in 1 .. k : LET g == {u \in people : f[u] = i}
                              IN g # {} /\ ZeroSum(balance, g)}

FewestTransfers ==
    LET people == Items(balance)
    IN planned # {} /\ Cardinality(people) <= MaxOptimal =>
           Cardinality(planned) = Cardinality(people) - Max(GroupCounts(people))

\* Above it debts meet credits in order: laid end to end on a line, a debtor
\* pays a creditor what their two intervals have in common.
Upto(u, sign) == SumFunctionOnSet([v \in People |-> IF sign * balance[v] > 0
                                                   THEN sign * balance[v] ELSE 0],
                                  {v \in People : v <= u})
Overlap(d, c) == Min({Upto(d, -1), Upto(c, 1)})
                 - Max({Upto(d, -1) + balance[d], Upto(c, 1) - balance[c]})

MeetInOrder ==
    planned # {} /\ Cardinality(Items(balance)) > MaxOptimal =>
        planned = {t \in {[payer |-> d, recipient |-> c, amount |-> Overlap(d, c)] :
                             d \in Debtors(balance), c \in Creditors(balance)} : t.amount > 0}

\* The plan of transfers as a whole (build_settlement_transfers).
TransfersPlanned == TransfersSettle /\ FewestTransfers /\ MeetInOrder

\* A split adds up to the amount, and no two shares differ by more than one
\* unit, the larger ones first.
SplitIsFair ==
    shares # <<>> =>
        /\ SumFunction(shares) = total
        /\ \A u, v \in DOMAIN shares : u < v => shares[u] - shares[v] \in {0, 1}
=============================================================================
