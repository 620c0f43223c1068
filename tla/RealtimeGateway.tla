--------------------------- MODULE RealtimeGateway ---------------------------
(***************************************************************************)
(* The chat of one trip on one connection of RealtimeConsumer              *)
(* (realtime/consumers.py), while the user is removed from the trip and    *)
(* admitted again.  The group, the channel of the connection and its       *)
(* consumer are three places that learn of a removal one after the other.  *)
(* Django Channels hands a consumer one message or event at a time.        *)
(***************************************************************************)
EXTENDS Naturals, Sequences

CONSTANTS
    MaxPosts,      \* bound: messages posted
    MaxSwitches,   \* bound: removals and admissions
    Capacity       \* events a channel holds; the layer drops further ones

ASSUME GatewayAssumption == MaxPosts \in Nat /\ MaxSwitches \in Nat /\ Capacity \in Nat \ {0}

VARIABLES
    chat,     \* [member, valid, posts, switches]: the membership, the session, the messages
    hooks,    \* group_send calls that committed transactions have still to make, by event
    link,     \* [up, inGroup, joined, inbox, task, arg]: the connection
    audit     \* history: [entitled, sent, refused, stuck]

gatewayVars == <<chat, hooks, link, audit>>

Posts == 1..MaxPosts
KickEvent == 0   \* chat_kicked_push; the push of message m is m itself
Events == {KickEvent} \cup Posts

NewLink == [up |-> TRUE, inGroup |-> FALSE, joined |-> FALSE, inbox |-> <<>>,
            task |-> "idle", arg |-> KickEvent]

Chats == [member : BOOLEAN, valid : BOOLEAN, posts : 0..MaxPosts, switches : 0..MaxSwitches]

Links == [up : BOOLEAN, inGroup : BOOLEAN, joined : BOOLEAN, inbox : Seq(Events),
          task : {"idle", "access", "join", "checkPush", "refuse", "send"}, arg : Events]

Audits == [entitled : SUBSET Posts, sent : SUBSET Posts, refused : BOOLEAN, stuck : BOOLEAN]

GatewayTypeOK ==
    /\ chat \in Chats /\ link \in Links /\ audit \in Audits
    /\ hooks \in [Events -> 0..(MaxSwitches + 1)]
    /\ Len(link.inbox) <= Capacity

GatewayInit ==
    /\ chat = [member |-> TRUE, valid |-> TRUE, posts |-> 0, switches |-> 0]
    /\ hooks = [h \in Events |-> 0]
    /\ link = NewLink
    /\ audit = [entitled |-> {}, sent |-> {}, refused |-> FALSE, stuck |-> FALSE]

----------------------------------------------------------------------------
(* The trip: transactions, and the hooks they leave *)

\* audit.entitled: the messages during whose life the user was a member.
PostMessage ==
    /\ chat.posts < MaxPosts
    /\ chat' = [chat EXCEPT !.posts = @ + 1]
    /\ hooks' = [hooks EXCEPT ![chat.posts + 1] = @ + 1]
    /\ audit' = IF chat.member
                THEN [audit EXCEPT !.entitled = @ \cup {chat.posts + 1}]
                ELSE audit
    /\ UNCHANGED link

RemoveMember ==
    /\ chat.member /\ chat.switches < MaxSwitches
    /\ chat' = [chat EXCEPT !.member = FALSE, !.switches = @ + 1]
    /\ hooks' = [hooks EXCEPT ![KickEvent] = @ + 1]
    /\ UNCHANGED <<link, audit>>

AdmitMember ==
    /\ ~chat.member /\ chat.switches < MaxSwitches
    /\ chat' = [chat EXCEPT !.member = TRUE, !.switches = @ + 1]
    /\ audit' = [audit EXCEPT !.entitled = 1..chat.posts, !.refused = FALSE]
    /\ UNCHANGED <<hooks, link>>

\* A password change or a logout everywhere: auth_version moves on.
EndUserSession ==
    /\ chat.valid
    /\ chat' = [chat EXCEPT !.valid = FALSE]
    /\ UNCHANGED <<hooks, link, audit>>

\* group_send, to the channels that are in the group now.  It may fail, which
\* is logged, and a full channel drops the event.
GroupSend(h) ==
    /\ hooks[h] > 0
    /\ hooks' = [hooks EXCEPT ![h] = @ - 1]
    /\ \/ /\ link.inGroup /\ Len(link.inbox) < Capacity
          /\ link' = [link EXCEPT !.inbox = Append(@, h)]
       \/ UNCHANGED link
    /\ UNCHANGED <<chat, audit>>

----------------------------------------------------------------------------
(* The consumer: one handler at a time, other actors between its awaits *)

Ready == link.up /\ link.task = "idle"

Closed == [link EXCEPT !.up = FALSE, !.inGroup = FALSE, !.joined = FALSE,
                       !.inbox = <<>>, !.task = "idle"]

\* _discard_chat_group, the whole of it: nothing unless joined; group_discard
\* may raise, and the channel then stays in the group.
DiscardGroup(l, raises) ==
    IF l.joined THEN [l EXCEPT !.joined = FALSE, !.inGroup = raises] ELSE l

\* A push that is refused, and a kick, take the connection out of the group.
LeaveKicked(l) ==
    \E raises \in BOOLEAN :
        /\ link' = DiscardGroup(l, raises)
        /\ audit' = [audit EXCEPT !.refused = ~chat.member,
                                  !.stuck = @ \/ (raises /\ l.joined)]

\* _handle_chat_subscribe, up to the check of access.
Subscribe ==
    /\ Ready /\ chat.valid
    /\ link' = IF link.joined THEN link ELSE [link EXCEPT !.task = "access"]
    /\ UNCHANGED <<chat, hooks, audit>>

\* ensure_user_can_access_trip_chat, or an error that is reported.
CheckAccess ==
    /\ link.task = "access"
    /\ \/ chat.member /\ link' = [link EXCEPT !.task = "join"]
       \/ link' = [link EXCEPT !.task = "idle"]
    /\ UNCHANGED <<chat, hooks, audit>>

\* group_add, or its failure; nothing looks at the membership again.
JoinGroup ==
    /\ link.task = "join"
    /\ \/ link' = [link EXCEPT !.task = "idle", !.joined = TRUE, !.inGroup = TRUE]
       \/ link' = [link EXCEPT !.task = "idle"]
    /\ UNCHANGED <<chat, hooks, audit>>

Unsubscribe ==
    /\ Ready /\ chat.valid
    /\ \E raises \in BOOLEAN :
          /\ link' = DiscardGroup(link, raises)
          /\ audit' = [audit EXCEPT !.stuck = @ \/ (raises /\ link.joined)]
    /\ UNCHANGED <<chat, hooks>>

TakenOut == [link EXCEPT !.inbox = Tail(@)]

\* chat_kicked_push has no await between the session and the discard.
HandleKick ==
    /\ Ready /\ chat.valid /\ link.inbox # <<>> /\ Head(link.inbox) = KickEvent
    /\ LeaveKicked(TakenOut)
    /\ UNCHANGED <<chat, hooks>>

\* chat_message_push and the other pushes, after the check of the session.
HandlePush ==
    /\ Ready /\ chat.valid /\ link.inbox # <<>> /\ Head(link.inbox) # KickEvent
    /\ link' = [TakenOut EXCEPT !.task = "checkPush", !.arg = Head(link.inbox)]
    /\ UNCHANGED <<chat, hooks, audit>>

\* Mutant: the group is trusted, and a push is sent without a check.
CheckPushBlindly ==
    /\ link.task = "checkPush"
    /\ link' = [link EXCEPT !.task = "send"]
    /\ UNCHANGED <<chat, hooks, audit>>

\* The check of access before a push: it is sent, refused, or given up because
\* the check itself failed or the viewer has hidden the message.
CheckPush ==
    /\ link.task = "checkPush"
    /\ \/ chat.member /\ link' = [link EXCEPT !.task = "send"]
       \/ ~chat.member /\ link' = [link EXCEPT !.task = "refuse"]
       \/ link' = [link EXCEPT !.task = "idle"]
    /\ UNCHANGED <<chat, hooks, audit>>

RefusePush ==
    /\ link.task = "refuse"
    /\ LeaveKicked([link EXCEPT !.task = "idle"])
    /\ UNCHANGED <<chat, hooks>>

\* send_json, after the payload was built for the viewer.
SendPush ==
    /\ link.task = "send"
    /\ link' = [link EXCEPT !.task = "idle"]
    /\ audit' = [audit EXCEPT !.sent = @ \cup {link.arg}]
    /\ UNCHANGED <<chat, hooks>>

\* The client goes away, or _ensure_current_session finds that the session has
\* ended, by a message of the client or an event: disconnect discards the groups.
\* The client connects again with a new channel.
Disconnect ==
    /\ Ready
    /\ link' = Closed
    /\ UNCHANGED <<chat, hooks, audit>>

Connect ==
    /\ ~link.up /\ chat.valid
    /\ link' = NewLink
    /\ audit' = [audit EXCEPT !.stuck = FALSE]
    /\ UNCHANGED <<chat, hooks>>

GatewayNext ==
    \/ PostMessage \/ RemoveMember \/ AdmitMember \/ EndUserSession
    \/ \E h \in Events : GroupSend(h)
    \/ Subscribe \/ CheckAccess \/ JoinGroup \/ Unsubscribe
    \/ HandleKick \/ HandlePush \/ CheckPush \/ RefusePush \/ SendPush
    \/ Disconnect \/ Connect

GatewaySpec == GatewayInit /\ [][GatewayNext]_gatewayVars

----------------------------------------------------------------------------
(* Properties *)

\* A message reaches a connection only if its user was a member at some time
\* after it was posted: neither a kick that is late, lost or overtaken nor a
\* subscription that was granted during the removal lets a removed member read
\* on.  And the first event of the chat that finds the user removed takes the
\* connection out of the group for good, unless the layer fails to.
RemovalReaches ==
    /\ audit.sent \subseteq audit.entitled
    /\ audit.refused /\ ~audit.stuck => ~link.inGroup

\* RemovalReaches, with the types of the gateway and no channel over its capacity.
GatewaySound == GatewayTypeOK /\ RemovalReaches

----------------------------------------------------------------------------
(* The inductive invariant, for the proofs *)

\* What is on its way has been posted, and each transaction leaves one hook.
EventsPosted ==
    /\ \A i \in 1..Len(link.inbox) : link.inbox[i] \in 0..chat.posts
    /\ link.task \in {"checkPush", "send"} => link.arg \in 1..chat.posts
    /\ \A h \in Events : hooks[h] > 0 => h <= chat.posts
    /\ hooks[KickEvent] <= chat.switches /\ \A m \in Posts : hooks[m] <= 1

\* A member may read all there is, and a push past its check what it carries.
ReadersEntitled ==
    /\ audit.sent \subseteq audit.entitled
    /\ audit.entitled \subseteq 1..chat.posts
    /\ chat.member => audit.entitled = 1..chat.posts
    /\ link.task = "send" => link.arg \in audit.entitled

\* A channel is in the group without the consumer knowing only if the layer failed.
GroupKnown ==
    /\ link.inGroup => link.joined \/ audit.stuck
    /\ audit.refused => ~chat.member /\ ~link.joined /\ link.task # "join"

GatewayInv == GatewayTypeOK /\ EventsPosted /\ ReadersEntitled /\ GroupKnown
=============================================================================
