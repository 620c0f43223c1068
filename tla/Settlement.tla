----------------------------- MODULE Settlement -----------------------------
(***************************************************************************)
(* The expenses of one trip and their settlement                           *)
(* (backend/expenses/services.py), with what the services of the trip do   *)
(* to its members and status meanwhile.  Every service locks the Trip row  *)
(* first and holds it to the end of its transaction, so each is one step.  *)
(* Amounts are in minor units.                                             *)
(***************************************************************************)
EXTENDS Integers, FiniteSets, Functions

CONSTANTS
    Users,
    Captain,
    Expenses,        \* bound: expenses that exist at a time
    Totals,          \* bound: totals an expense may have
    Amounts,         \* bound: contributions
    MaxAmount,       \* the largest amount a NUMERIC(14, 2) column holds
    MaxSettlements,  \* bound: settlements of the trip
    Split(_, _),     \* split_amount_evenly: the shares of a total among people
    Plan(_)          \* build_settlement_transfers: the payments for balances

ASSUME UsersAssumption == Captain \in Users /\ IsFiniteSet(Users)
ASSUME ExpensesAssumption == IsFiniteSet(Expenses)
ASSUME AmountsAssumption == Totals \subseteq Nat \ {0} /\ Amounts \subseteq Nat
ASSUME BoundAssumption == MaxSettlements \in Nat /\ MaxAmount \in Nat
ASSUME SplitAssumption ==
    \A total \in Totals, people \in (SUBSET Users) \ {{}} : Split(total, people) \in [people -> Nat]

VARIABLES
    open,       \* Trip.status is neither COMPLETED nor CANCELLED
    members,    \* users with an ACTIVE TripMember row
    expense,    \* Expense with its participants and contributions, or NoExpense
    active,     \* a TripSettlement with status FINALIZED exists
    settled,    \* TripSettlement rows so far; the last is the active one, if any
    transfers,  \* SettlementTransfer rows of all settlements
    sent,       \* those with payer_marked_sent_at
    confirmed,  \* those with recipient_confirmed_at
    ledger      \* in_flight_transfers of the SETTLEMENT_REOPENED ledger entries

trip == <<open, members>>
marks == <<sent, confirmed>>
vars == <<open, members, expense, active, settled, transfers, sent, confirmed, ledger>>

----------------------------------------------------------------------------
NoExpense == [live |-> FALSE]

Live == {e \in Expenses : expense[e].live}

\* The rows SettlementTransfer admits: an amount is positive and fits its column.
Payments == [payer : Users, recipient : Users, amount : 1 .. MaxAmount]
Transfers == [settlement : 1 .. MaxSettlements, payment : Payments]

InForce == {t \in transfers : active /\ t.settlement = settled}

Positive(n) == IF n > 0 THEN n ELSE 0

Paid(e) == SumFunction(expense[e].paid)
Surplus(e) == Positive(Paid(e) - expense[e].total)

\* Mutant: a surplus of one expense makes up for what another is missing.
MissingInTotal == Positive(SumFunction([e \in Live |-> expense[e].total - Paid(e)]))

Missing == SumFunction([e \in Live |-> Positive(expense[e].total - Paid(e))])

\* What an expense adds to a user's balance: the participants' own balances,
\* and the surplus, which the collector holds.
Net(e, u) ==
    (IF u \in expense[e].people THEN expense[e].paid[u] - expense[e].share[u] ELSE 0)
    - (IF u = expense[e].collector THEN Surplus(e) ELSE 0)

Balances == [u \in Users |-> SumFunction([e \in Live |-> Net(e, u)])]

----------------------------------------------------------------------------
Init ==
    /\ open = TRUE
    /\ members = {Captain}
    /\ expense = [e \in Expenses |-> NoExpense]
    /\ active = FALSE
    /\ settled = 0
    /\ transfers = {}
    /\ sent = {}
    /\ confirmed = {}
    /\ ledger = {}

\* accept_invitation.
Join(u) ==
    /\ open
    /\ u \notin members
    /\ members' = members \cup {u}
    /\ UNCHANGED <<open, expense, active, settled, transfers, marks, ledger>>

\* leave_trip and remove_member; the captain can do neither to himself.
Leave(u) ==
    /\ open
    /\ u \in members \ {Captain}
    /\ members' = members \ {u}
    /\ UNCHANGED <<open, expense, active, settled, transfers, marks, ledger>>

\* complete_trip and cancel_trip.
Close ==
    /\ open
    /\ open' = FALSE
    /\ UNCHANGED <<members, expense, active, settled, transfers, marks, ledger>>

----------------------------------------------------------------------------
(* Expenses: the captain's, on an open trip *)

NewExpense(total, collector) ==
    [live |-> TRUE, total |-> total, people |-> members, share |-> Split(total, members),
     paid |-> [u \in members |-> 0], collector |-> collector, locked |-> FALSE]

CreateExpense(e, total, collector) ==
    /\ open
    /\ ~active
    /\ ~expense[e].live
    /\ collector \in members
    /\ expense' = [expense EXCEPT ![e] = NewExpense(total, collector)]
    /\ UNCHANGED <<trip, active, settled, transfers, marks, ledger>>

\* Mutant: locks are not looked at.
EditableLocked(e) == open /\ expense[e].live

Editable(e) == open /\ expense[e].live /\ ~expense[e].locked

MayCollect(u, e) == u = expense[e].collector \/ u \in members \cap expense[e].people

\* update_expense: the shares follow a new total.
UpdateExpense(e, total, collector) ==
    /\ Editable(e)
    /\ <<total, collector>> # <<expense[e].total, expense[e].collector>>
    /\ MayCollect(collector, e)
    /\ expense' = [expense EXCEPT
           ![e].share = IF total = expense[e].total THEN @ ELSE Split(total, expense[e].people),
           ![e].total = total,
           ![e].collector = collector]
    /\ UNCHANGED <<trip, active, settled, transfers, marks, ledger>>

DeleteExpense(e) ==
    /\ Editable(e)
    /\ expense' = [expense EXCEPT ![e] = NoExpense]
    /\ UNCHANGED <<trip, active, settled, transfers, marks, ledger>>

SetContribution(e, u, amount) ==
    /\ Editable(e)
    /\ u \in expense[e].people
    /\ expense' = [expense EXCEPT ![e].paid[u] = amount]
    /\ UNCHANGED <<trip, active, settled, transfers, marks, ledger>>

----------------------------------------------------------------------------
(* Settlement *)

Lock(b) == [e \in Expenses |-> IF expense[e].live THEN [expense[e] EXCEPT !.locked = b]
                               ELSE expense[e]]

Issue(n, payments) == {[settlement |-> n, payment |-> p] : p \in payments}

\* finalize_settlement: fully funded and balanced, or it raises; so does
\* the table for a transfer it does not admit.
Finalize ==
    /\ open
    /\ ~active
    /\ Live # {}
    /\ Missing = 0
    /\ SumFunction(Balances) = 0
    /\ Plan(Balances) \subseteq Payments
    /\ settled < MaxSettlements
    /\ active' = TRUE
    /\ settled' = settled + 1
    /\ expense' = Lock(TRUE)
    /\ transfers' = transfers \cup Issue(settled + 1, Plan(Balances))
    /\ UNCHANGED <<trip, marks, ledger>>

\* reopen_settlement: the ledger keeps what was in flight.
Reopen ==
    /\ open
    /\ active
    /\ active' = FALSE
    /\ expense' = Lock(FALSE)
    /\ ledger' = ledger \cup {[transfer |-> t, received |-> t \in confirmed] : t \in InForce \cap sent}
    /\ UNCHANGED <<trip, settled, transfers, marks>>

\* Mutant: a party who has left may no longer act.
MembersOnly(u, t) == u \in members

\* _assert_active_member_or_transfer_party.
MayAct(u, t) == u \in members \/ u \in {t.payment.payer, t.payment.recipient}

\* Mutant: transfers of a reopened settlement can be marked too.
MarkAnySent(t) ==
    /\ MayAct(t.payment.payer, t)
    /\ t \notin sent
    /\ sent' = sent \cup {t}
    /\ UNCHANGED <<trip, expense, active, settled, transfers, confirmed, ledger>>

\* mark_transfer_sent, by the payer; on a closed trip as well.
MarkSent(t) ==
    /\ t \in InForce
    /\ MayAct(t.payment.payer, t)
    /\ t \notin sent
    /\ sent' = sent \cup {t}
    /\ UNCHANGED <<trip, expense, active, settled, transfers, confirmed, ledger>>

\* confirm_transfer_received, by the recipient.
ConfirmReceived(t) ==
    /\ t \in InForce \ confirmed
    /\ MayAct(t.payment.recipient, t)
    /\ t \in sent
    /\ confirmed' = confirmed \cup {t}
    /\ UNCHANGED <<trip, expense, active, settled, transfers, sent, ledger>>

----------------------------------------------------------------------------
Membership ==
    \/ \E u \in Users : Join(u) \/ Leave(u)
    \/ Close

Book ==
    \E e \in Expenses :
        \/ \E total \in Totals, u \in Users : CreateExpense(e, total, u) \/ UpdateExpense(e, total, u)
        \/ DeleteExpense(e)
        \/ \E u \in Users, amount \in Amounts : SetContribution(e, u, amount)

Settle ==
    \/ Finalize
    \/ Reopen
    \/ \E t \in transfers : MarkSent(t) \/ ConfirmReceived(t)

Next == Membership \/ Book \/ Settle

Spec == Init /\ [][Next]_vars

----------------------------------------------------------------------------
(* Properties *)

\* An expense with these participants.
BillOf(people) ==
    [live : {TRUE}, total : Totals, people : {people}, collector : Users,
     share : [people -> Nat], paid : [people -> Nat], locked : BOOLEAN]

\* The shape of the tables; and nothing is confirmed that was not sent
\* (confirm_transfer_received).
TypeOK ==
    /\ {open, active} \subseteq BOOLEAN
    /\ members \subseteq Users /\ Captain \in members
    /\ DOMAIN expense = Expenses
    /\ \A e \in Expenses :
          expense[e] = NoExpense \/ \E people \in SUBSET Users : expense[e] \in BillOf(people)
    /\ settled \in 0 .. MaxSettlements
    /\ transfers \subseteq Transfers
    /\ sent \subseteq transfers
    /\ confirmed \subseteq sent
    /\ ledger \subseteq [transfer : transfers, received : BOOLEAN]

\* While a settlement is finalized, its transfers are the plan for the balances
\* as they are, not only as they were when it was finalized: no edit, no change
\* of members and no mark gets between them.
PlanCurrent == active => InForce = Issue(settled, Plan(Balances))

\* Expenses are locked exactly while a settlement is finalized, the ones created
\* around it included.
LockedWhileFinal == \A e \in Live : expense[e].locked <=> active

\* Expenses that are all funded net to zero, so that finalize_settlement does
\* not fail in build_settlement_transfers: every surplus is debited once, and
\* shares follow the total.
FundedMeansBalanced == Missing = 0 => SumFunction(Balances) = 0

\* "Collector must remain inside the participant snapshot so balances stay
\* mathematically consistent" (update_expense), whoever joins or leaves.
CollectorParticipates == \A e \in Live : expense[e].collector \in expense[e].people

\* What the ledger holds of the reopened settlements is all that was ever marked
\* in them: no mark reaches a transfer after its settlement was reopened.
LedgerComplete ==
    ledger = {[transfer |-> t, received |-> t \in confirmed] : t \in sent \ InForce}

\* A finalized settlement can be carried out to the end: whoever has left the
\* trip or closed it, one of the parties of an open transfer can act.
NobodyIsStranded ==
    \A t \in InForce \ confirmed : ENABLED MarkSent(t) \/ ENABLED ConfirmReceived(t)
=============================================================================
