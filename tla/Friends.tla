------------------------------- MODULE Friends -------------------------------
(***************************************************************************)
(* Friend requests and friendships (friends/services.py): requests are     *)
(* sent and accepted by transactions that lock rows one after the other    *)
(* and read committed data in between.  A server process runs one          *)
(* transaction at a time.                                                  *)
(***************************************************************************)
EXTENDS Integers, FiniteSets

CONSTANTS
    Users,        \* primary keys, in the order in which rows are locked
    Ids,          \* bound: the friend requests that are ever sent
    Servers,      \* the processes that serve requests
    FriendLimit   \* FRIEND_LIMIT

ASSUME FriendsAssumption ==
    /\ Users \subseteq Nat \ {0}
    /\ 0 \notin Ids
    /\ IsFiniteSet(Servers)
    /\ FriendLimit \in Nat

VARIABLES
    requests,     \* the table friends_friendrequest
    friendships,  \* the table friends_friendship, as a set of pairs
    tx            \* of each server, the transaction it is in

friendVars == <<requests, friendships, tx>>

Unsent == [status |-> "unsent", from |-> 0, to |-> 0]

NoTx == [op |-> "none", pc |-> "done", req |-> 0, from |-> 0, to |-> 0, held |-> {}]

Request == [status : {"unsent", "pending", "accepted", "refused"},
            from : Users \cup {0}, to : Users \cup {0}]

Tx == [op : {"none", "send", "accept"},
       pc : {"done", "row", "low", "high", "strangers", "unasked", "sender", "receiver", "write"},
       req : Ids \cup {0}, from : Users \cup {0}, to : Users \cup {0}, held : SUBSET Users]

FriendsTypeOK ==
    /\ requests \in [Ids -> Request]
    /\ friendships \subseteq SUBSET Users
    /\ tx \in [Servers -> Tx]

FriendsInit ==
    /\ requests = [q \in Ids |-> Unsent]
    /\ friendships = {}
    /\ tx = [w \in Servers |-> NoTx]

----------------------------------------------------------------------------
(* Rows and locks *)

Pair(t) == {t.from, t.to}

FriendsOf(u) == {p \in friendships : u \in p}

Pending(p) == \E q \in Ids : requests[q].status = "pending" /\ Pair(requests[q]) = p

LowKey(t) == IF t.from < t.to THEN t.from ELSE t.to
HighKey(t) == IF t.from < t.to THEN t.to ELSE t.from

\* Mutant: the sender's row before the receiver's.
WantedInTurn(t) == IF t.pc = "low" THEN t.from ELSE t.to

\* The user row that _lock_user_pair locks next.
WantedUser(t) == IF t.pc = "low" THEN LowKey(t) ELSE HighKey(t)

HoldsRow(w, q) == tx[w].op = "accept" /\ tx[w].pc # "row" /\ tx[w].req = q

\* Server w waits for a lock that server v holds.
BlockedBy(w, v) ==
    /\ v # w
    /\ \/ tx[w].pc = "row" /\ HoldsRow(v, tx[w].req)
       \/ tx[w].pc \in {"low", "high"} /\ WantedUser(tx[w]) \in tx[v].held

----------------------------------------------------------------------------
(* The statements of a transaction: each one passes or rolls back *)

\* The order of the statements, by operation.
Order ==
    [send   |-> [low |-> "high", high |-> "strangers", strangers |-> "unasked",
                 unasked |-> "sender", sender |-> "receiver", receiver |-> "write"],
     accept |-> [row |-> "low", low |-> "high", high |-> "sender", sender |-> "receiver",
                 receiver |-> "strangers", strangers |-> "write"]]

Pass(w) == tx' = [tx EXCEPT ![w].pc = Order[tx[w].op][tx[w].pc]]

End(w) == tx' = [tx EXCEPT ![w] = NoTx]

\* A check: go on when it holds, raise and roll back when it does not.
Check(w, pc, holds) ==
    /\ tx[w].pc = pc
    /\ IF holds THEN Pass(w) ELSE End(w)
    /\ UNCHANGED <<requests, friendships>>

LockRequest(w) ==
    /\ \A v \in Servers : ~BlockedBy(w, v)
    /\ Check(w, "row", requests[tx[w].req].status = "pending")

\* Mutant: the pair of users is read and not locked.
ReadUser(w) ==
    /\ tx[w].pc \in {"low", "high"}
    /\ Pass(w)
    /\ UNCHANGED <<requests, friendships>>

LockUser(w) ==
    /\ tx[w].pc \in {"low", "high"}
    /\ \A v \in Servers : ~BlockedBy(w, v)
    /\ tx' = [tx EXCEPT ![w].pc = Order[tx[w].op][tx[w].pc],
                        ![w].held = @ \cup {WantedUser(tx[w])}]
    /\ UNCHANGED <<requests, friendships>>

CheckStrangers(w) == Check(w, "strangers", Pair(tx[w]) \notin friendships)

CheckUnasked(w) == Check(w, "unasked", ~Pending(Pair(tx[w])))

\* _friend_count and _friend_count_locked: count() drops FOR UPDATE, so that
\* both read what is committed and lock nothing.
HasRoom(u) == Cardinality(FriendsOf(u)) < FriendLimit

CheckSender(w) == Check(w, "sender", HasRoom(tx[w].from))

CheckReceiver(w) == Check(w, "receiver", HasRoom(tx[w].to))

----------------------------------------------------------------------------
(* The operations *)

\* send_friend_request, past the look-up of the receiver.
BeginSend(w, q, a, b) ==
    /\ tx[w] = NoTx /\ a # b
    /\ requests[q] = Unsent /\ \A v \in Servers : tx[v].op = "send" => tx[v].req # q
    /\ tx' = [tx EXCEPT ![w] = [NoTx EXCEPT !.op = "send", !.pc = "low",
                                            !.req = q, !.from = a, !.to = b]]
    /\ UNCHANGED <<requests, friendships>>

\* The row is written, unless fr_unique_pending_bilateral refuses it.
CommitSend(w) ==
    /\ tx[w].op = "send" /\ tx[w].pc = "write"
    /\ requests' = IF Pending(Pair(tx[w])) THEN requests
                   ELSE [requests EXCEPT ![tx[w].req] =
                            [status |-> "pending", from |-> tx[w].from, to |-> tx[w].to]]
    /\ End(w)
    /\ UNCHANGED friendships

\* accept_friend_request, by the receiver.
BeginAccept(w, q) ==
    /\ tx[w] = NoTx /\ requests[q] # Unsent
    /\ tx' = [tx EXCEPT ![w] = [NoTx EXCEPT !.op = "accept", !.pc = "row", !.req = q,
                                            !.from = requests[q].from, !.to = requests[q].to]]
    /\ UNCHANGED <<requests, friendships>>

\* Both rows are written, unless fs_unique_pair refuses the second.
CommitAccept(w) ==
    /\ tx[w].op = "accept" /\ tx[w].pc = "write"
    /\ IF Pair(tx[w]) \in friendships THEN UNCHANGED <<requests, friendships>>
       ELSE /\ requests' = [requests EXCEPT ![tx[w].req].status = "accepted"]
            /\ friendships' = friendships \cup {Pair(tx[w])}
    /\ End(w)

\* decline_friend_request and cancel_friend_request lock the request alone.
RefuseRequest(q) ==
    /\ requests[q].status = "pending"
    /\ \A w \in Servers : ~HoldsRow(w, q)
    /\ requests' = [requests EXCEPT ![q].status = "refused"]
    /\ UNCHANGED <<friendships, tx>>

\* remove_friendship locks the friendship, which nobody else locks.
RemoveFriendship(p) ==
    /\ friendships' = friendships \ {p}
    /\ UNCHANGED <<requests, tx>>

Statement(w) ==
    \/ LockRequest(w) \/ LockUser(w)
    \/ CheckStrangers(w) \/ CheckUnasked(w) \/ CheckSender(w) \/ CheckReceiver(w)
    \/ CommitSend(w) \/ CommitAccept(w)

FriendsNext ==
    \/ \E w \in Servers : Statement(w)
    \/ \E w \in Servers, q \in Ids, a, b \in Users : BeginSend(w, q, a, b)
    \/ \E w \in Servers, q \in Ids : BeginAccept(w, q)
    \/ \E q \in Ids : RefuseRequest(q)
    \/ \E p \in friendships : RemoveFriendship(p)

FriendsSpec == FriendsInit /\ [][FriendsNext]_friendVars

----------------------------------------------------------------------------
(* Properties *)

\* However many requests of a user are accepted at once, nobody gets over the
\* limit: the counts of accept_friend_request lock nothing, the rows of the two
\* users do.
LimitKept == \A u \in Users : Cardinality(FriendsOf(u)) <= FriendLimit

\* Nobody is asked by a friend, or twice: a request that was under way while
\* another one was accepted is not sent, so that no request is left that can
\* only fail when it is accepted.
NoIdleRequest ==
    \A q \in Ids : requests[q].status = "pending" =>
        /\ Pair(requests[q]) \notin friendships
        /\ \A other \in Ids \ {q} : requests[other].status = "pending" =>
               Pair(requests[other]) # Pair(requests[q])

\* What acceptances and requests that cross each other leave behind.
FriendsSound == LimitKept /\ NoIdleRequest

\* No transactions wait for each other in a circle: a request is locked before
\* users, and users in the order of their keys.
NoWaitCycle ==
    \A circle \in SUBSET Servers :
        circle # {} => \E w \in circle : \A v \in circle : ~BlockedBy(w, v)

----------------------------------------------------------------------------
(* The inductive invariant, for the proofs *)

AfterPair == {"strangers", "unasked", "sender", "receiver", "write"}

\* A transaction holds the rows its statements have locked so far.
TxShapes ==
    {t \in Tx :
        \/ t = NoTx
        \/ /\ \/ t.op = "send" /\ t.pc \in {"low", "high"} \cup AfterPair
              \/ t.op = "accept" /\ t.pc \in {"row", "low", "high"} \cup (AfterPair \ {"unasked"})
           /\ t.from # t.to /\ 0 \notin Pair(t) /\ t.req # 0
           /\ t.held = IF t.pc \in {"row", "low"} THEN {}
                       ELSE IF t.pc = "high" THEN {LowKey(t)} ELSE Pair(t)}

\* No row has two holders, and a request that is being sent one sender.
LocksApart ==
    \A w, v \in Servers : w # v =>
        /\ tx[w].held \cap tx[v].held = {}
        /\ tx[w].op = "send" /\ tx[v].op = "send" => tx[w].req # tx[v].req
        /\ \A q \in Ids : ~(HoldsRow(w, q) /\ HoldsRow(v, q))

RequestShapes ==
    {r \in Request : r = Unsent \/ (r.status # "unsent" /\ r.from # r.to /\ 0 \notin Pair(r))}

\* A transaction knows the request it works on, and one whose row is locked
\* stays pending.
RowsKnown ==
    \A w \in Servers :
        /\ tx[w].op = "send" => requests[tx[w].req] = Unsent
        /\ tx[w].op = "accept" =>
               /\ requests[tx[w].req] # Unsent
               /\ tx[w].from = requests[tx[w].req].from /\ tx[w].to = requests[tx[w].req].to
               /\ tx[w].pc # "row" => requests[tx[w].req].status = "pending"

LockInv ==
    /\ FriendsTypeOK
    /\ requests \in [Ids -> RequestShapes] /\ tx \in [Servers -> TxShapes]
    /\ LocksApart /\ RowsKnown

\* What a transaction has read of its two users holds until it ends.
ChecksHold ==
    \A w \in Servers :
        /\ tx[w].op = "accept" /\ tx[w].pc \in {"receiver", "strangers", "write"}
               => HasRoom(tx[w].from)
        /\ tx[w].op = "accept" /\ tx[w].pc \in {"strangers", "write"} => HasRoom(tx[w].to)
        /\ tx[w].op = "send" /\ tx[w].pc \in {"unasked", "sender", "receiver", "write"}
               => Pair(tx[w]) \notin friendships
        /\ tx[w].op = "send" /\ tx[w].pc \in {"sender", "receiver", "write"}
               => ~Pending(Pair(tx[w]))

DataInv == IsFiniteSet(friendships) /\ ChecksHold /\ FriendsSound

FriendsInv == LockInv /\ DataInv
=============================================================================
