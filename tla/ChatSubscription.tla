-------------------------- MODULE ChatSubscription --------------------------
(***************************************************************************)
(* The subscription of the chat screen to one room (useTripChat.ts): focus,*)
(* access to the trip, connection epochs, the subscribe command with its   *)
(* acknowledgement timeout and retries, and the catch-up runs it schedules.*)
(*                                                                         *)
(* A callback of the hook runs to its end, so operators map one state of   *)
(* the hook to the next and an action is one callback with the microtasks  *)
(* it queues.  An epoch of 0 stands for null.  Changes of focusGeneration  *)
(* are seen by timers and runs only, both of which they cancel at once.    *)
(***************************************************************************)
EXTENDS Naturals, Sequences

CONSTANTS
  MaxSubscribes,  \* CHAT_SUBSCRIPTION_MAX_ATTEMPTS
  MaxEpochs,      \* bound: sockets opened in turn
  MaxQueue        \* bound: commands, and replies, under way on one socket

ASSUME SubscriptionBounds ==
  MaxSubscribes \in Nat \ {0} /\ MaxEpochs \in Nat /\ MaxQueue \in Nat

VARIABLES
  room,  \* the refs of the hook
  link   \* the socket: commands, replies, and the server's membership

chatVars == <<room, link>>

NoEpoch == 0

-----------------------------------------------------------------------------
(* The catch-up schedule.                                                  *)

Live(c) == c.up /\ c.acked = c.epoch

\* scheduleRequestedCatchUp and the guards of runCatchUp.
Schedule(c) ==
  IF /\ Live(c) /\ c.requested = c.epoch /\ c.history = "loaded"
     /\ c.ready /\ c.focused /\ c.access /\ ~c.kicked /\ c.run = NoEpoch
  THEN [c EXCEPT !.run = c.epoch, !.requested = NoEpoch]
  ELSE c

\* requestCurrentReadCatchUp.
RequestRead(c) == IF Live(c) THEN Schedule([c EXCEPT !.requested = c.epoch]) ELSE c

AbortRun(c) == [c EXCEPT !.run = NoEpoch]

-----------------------------------------------------------------------------
(* The subscription.                                                       *)

\* resetSubscriptionAttemptTracking.
ResetAttempts(c) == [c EXCEPT !.timer = NoEpoch, !.attEpoch = NoEpoch, !.attempts = 0]

\* The assignments every change of ownership begins with.
Forget(c) ==
  [c EXCEPT !.sent = NoEpoch, !.acked = NoEpoch, !.rejected = NoEpoch,
            !.requested = NoEpoch, !.intent = NoEpoch]

MayAttempt(c) ==
  /\ c.focused /\ c.access /\ ~c.kicked /\ c.up
  /\ c.epoch \notin {c.sent, c.acked, c.rejected}

\* Mutant: the attempts of the last connection count for the next.
OfEpochKeepingAttempts(c) ==
  IF c.attEpoch = c.epoch THEN c
  ELSE [c EXCEPT !.attEpoch = c.epoch, !.timer = NoEpoch,
                 !.sent = NoEpoch, !.acked = NoEpoch, !.rejected = NoEpoch]

\* Tracking starts afresh with the first attempt of an epoch.
OfEpoch(c) ==
  IF c.attEpoch = c.epoch THEN c
  ELSE [c EXCEPT !.attEpoch = c.epoch, !.attempts = 0, !.timer = NoEpoch,
                 !.sent = NoEpoch, !.acked = NoEpoch, !.rejected = NoEpoch]

Subscribes(c) == MayAttempt(c) /\ OfEpoch(c).attempts < MaxSubscribes

\* attemptSubscribe; ok is what realtime.send returns.
Attempt(c, ok) ==
  IF ~Subscribes(c) THEN IF MayAttempt(c) THEN OfEpoch(c) ELSE c
  ELSE [OfEpoch(c) EXCEPT !.attempts = @ + 1, !.timer = c.epoch,
                          !.sent = IF ok THEN c.epoch ELSE NoEpoch,
                          !.status = IF ok THEN "subscribing" ELSE "waiting"]

Leaves(c) == c.up /\ c.sent = c.epoch

NoLink == [open |-> FALSE, up |-> <<>>, down |-> <<>>, joined |-> FALSE]
NewLink == [NoLink EXCEPT !.open = TRUE]

Command(l, cmd) == IF l.open THEN [l EXCEPT !.up = Append(@, cmd)] ELSE l

\* The hook goes from c to Attempt(c, ok), on a socket l.  The manager gives
\* up a socket that does not send.
Attempting(c, l, ok) ==
  /\ Subscribes(c) => (ok => l.open)
  /\ ok \/ Subscribes(c)
  /\ room' = Attempt(c, ok)
  /\ link' = IF ~Subscribes(c) THEN l ELSE IF ok THEN Command(l, "subscribe") ELSE NoLink

\* leaveOwnedSubscription.
Leave(c, l) == IF Leaves(c) THEN Command(l, "unsubscribe") ELSE l

-----------------------------------------------------------------------------
(* Focus, access, connection.                                              *)

Space == Len(link.up) < MaxQueue

Focus(ok) ==
  /\ ~room.focused
  /\ LET c == ResetAttempts(Forget([room EXCEPT !.focused = TRUE])) IN
     Attempting([c EXCEPT !.status = IF c.up THEN "subscribing" ELSE "waiting"], link, ok)

\* The cleanup of the focus effect.
Blur ==
  /\ room.focused
  /\ link' = Leave(room, link)
  /\ room' = [ResetAttempts(Forget(AbortRun(room))) EXCEPT
                !.focused = FALSE, !.status = "inactive"]

\* kickRoom; a further kick changes nothing.
Kick(c) ==
  [ResetAttempts(Forget(AbortRun(c))) EXCEPT
     !.kicked = TRUE, !.ready = FALSE, !.status = "inactive",
     !.history = IF @ = "loading" THEN "none" ELSE @]

\* Access is being verified again: resetTransientSubscriptionOwnership.
AccessUncertain ==
  /\ room.access /\ ~room.kicked
  /\ link' = Leave(room, link)
  /\ room' = [ResetAttempts(Forget(AbortRun(room))) EXCEPT
                !.access = FALSE, !.status = "inactive",
                !.history = IF @ = "loading" THEN "none" ELSE @]

AccessLost ==
  /\ ~room.kicked
  /\ link' = Leave(room, link)
  /\ room' = [Kick(room) EXCEPT !.access = FALSE]

\* Both the load of the history and the subscription follow.
AccessGranted(ok) ==
  /\ ~room.access /\ ~room.kicked
  /\ Attempting([room EXCEPT !.access = TRUE,
                             !.history = IF @ = "none" THEN "loading" ELSE @,
                             !.ready = IF room.history = "none" THEN room.locked ELSE @],
                link, ok)

\* What the connection effect does when the snapshot is not connected.
Disconnected(c) ==
  IF ~c.focused \/ c.kicked \/ ~c.access THEN AbortRun([c EXCEPT !.up = FALSE])
  ELSE [ResetAttempts(Forget(AbortRun(c))) EXCEPT !.up = FALSE, !.status = "waiting"]

ConnectionLost ==
  /\ room.up
  /\ room' = Disconnected(room) /\ link' = NoLink

\* React may render the next epoch without a snapshot in between.
ConnectionOpens(ok) ==
  /\ room.epoch < MaxEpochs
  /\ Attempting([AbortRun(room) EXCEPT !.up = TRUE, !.epoch = @ + 1], NewLink, ok)

-----------------------------------------------------------------------------
(* Timers and the user's retries.                                          *)

RecoveryTimer(ok) ==
  /\ room.timer # NoEpoch
  /\ LET c == [room EXCEPT !.timer = NoEpoch] IN
     IF \/ ~c.focused \/ ~c.access \/ c.kicked \/ ~c.up
        \/ room.timer # c.epoch \/ c.attEpoch # c.epoch \/ c.epoch \in {c.acked, c.rejected}
     THEN room' = c /\ link' = link
     ELSE IF c.attempts >= MaxSubscribes
     THEN room' = [c EXCEPT !.rejected = c.epoch, !.status = "rejected"] /\ link' = link
     ELSE Attempting([c EXCEPT !.sent = NoEpoch, !.status = "waiting"], link, ok)

RetrySubscription(ok) ==
  /\ room.focused /\ room.access /\ ~room.kicked
  /\ Attempting([ResetAttempts(Forget(room)) EXCEPT !.status = "waiting"], link, ok)

RetryCatchUp ==
  /\ room.intent = room.epoch /\ room.run = NoEpoch
  /\ Live(room) /\ room.focused /\ room.access /\ ~room.kicked /\ room.ready
  /\ room' = [room EXCEPT !.intent = NoEpoch, !.requested = NoEpoch, !.run = room.epoch]
  /\ UNCHANGED link

RetryInitialLoad ==
  /\ room.history = "none" /\ room.access /\ ~room.kicked
  /\ room' = [room EXCEPT !.history = "loading", !.ready = room.locked]
  /\ UNCHANGED link

-----------------------------------------------------------------------------
(* Reads end.                                                              *)

InitialLoadEnds(ok) ==
  /\ room.history = "loading"
  /\ room' = IF ok THEN Schedule([room EXCEPT !.history = "loaded", !.ready = TRUE])
             ELSE [room EXCEPT !.history = "none", !.ready = room.locked]
  /\ UNCHANGED link

\* isCatchUpCurrent.
RunIsCurrent == room.run = room.epoch /\ Live(room) /\ room.focused /\ ~room.kicked

\* A run completes, arms the retry, or finds that it is no longer current.
RunEnds(ok) ==
  /\ room.run # NoEpoch
  /\ LET c == AbortRun(room) IN
     room' = IF ~RunIsCurrent THEN Schedule(c)
             ELSE Schedule([c EXCEPT !.intent = IF ok THEN NoEpoch ELSE c.epoch])
  /\ UNCHANGED link

\* The trip ends: the room is read-only and reads once more.
TripEnds ==
  /\ ~room.locked /\ ~room.kicked
  /\ room' = RequestRead([room EXCEPT !.locked = TRUE, !.ready = TRUE])
  /\ UNCHANGED link

-----------------------------------------------------------------------------
(* The server answers commands in the order they were sent.                *)

Reply(l, e) == [l EXCEPT !.down = Append(@, e)]

ServerHandles(answer) ==
  /\ link.up # <<>> /\ Len(link.down) < MaxQueue
  /\ LET l == [link EXCEPT !.up = Tail(@)] IN
     CASE Head(link.up) = "unsubscribe" ->
            answer = "unsubscribed" /\ link' = Reply([l EXCEPT !.joined = FALSE], answer)
       [] Head(link.up) = "subscribe" /\ link.joined ->
            answer = "subscribed" /\ link' = Reply(l, answer)
       [] OTHER ->
            /\ answer \in {"subscribed", "limit", "error"}
            /\ link' = Reply([l EXCEPT !.joined = answer = "subscribed"], answer)
  /\ UNCHANGED room

-----------------------------------------------------------------------------
(* The hook handles an answer.                                             *)

Received(e) == link.down # <<>> /\ Head(link.down) = e
Rest == [link EXCEPT !.down = Tail(@)]

Expecting(c) == c.focused /\ c.up /\ c.attEpoch = c.epoch /\ c.attempts > 0

\* Mutant: an acknowledgement after a retry does not ask for a read.
AcknowledgeFirst(c) ==
  Schedule([c EXCEPT !.timer = NoEpoch, !.acked = c.epoch, !.rejected = NoEpoch,
                     !.status = "subscribed", !.intent = NoEpoch,
                     !.requested = IF c.attempts = 1 THEN c.epoch ELSE NoEpoch])

\* Only the first acknowledgement of an epoch asks for a catch-up.
Acknowledge(c) ==
  IF Live(c) THEN [c EXCEPT !.timer = NoEpoch, !.rejected = NoEpoch, !.status = "subscribed"]
  ELSE Schedule([c EXCEPT !.timer = NoEpoch, !.acked = c.epoch, !.rejected = NoEpoch,
                          !.status = "subscribed", !.intent = NoEpoch,
                          !.requested = c.epoch])

OnSubscribed ==
  /\ Received("subscribed")
  /\ link' = Rest
  /\ room' = IF room.kicked \/ ~room.access \/ ~Expecting(room) THEN room ELSE Acknowledge(room)

\* Also the late answer to a leave before the screen was focused again.
OnUnsubscribed(ok) ==
  /\ Received("unsubscribed")
  /\ IF room.kicked \/ ~room.access
     THEN room' = room /\ link' = Rest
     ELSE LET c == [AbortRun(room) EXCEPT !.timer = NoEpoch, !.acked = NoEpoch,
                                          !.requested = NoEpoch, !.intent = NoEpoch]
          IN IF c.focused /\ c.rejected # c.epoch
             THEN Attempting([ResetAttempts(c) EXCEPT !.sent = NoEpoch, !.status = "waiting"],
                             Rest, ok)
             ELSE room' = c /\ link' = Rest

OnError(e) ==
  /\ e \in {"limit", "error"} /\ Received(e)
  /\ link' = Rest
  /\ room' = IF room.kicked \/ ~room.access \/ ~Expecting(room) \/ Live(room) THEN room
             ELSE IF e = "limit"
             THEN [room EXCEPT !.timer = NoEpoch, !.rejected = room.epoch, !.status = "rejected"]
             ELSE [room EXCEPT !.sent = NoEpoch, !.status = "waiting", !.timer = room.epoch]

\* chat.kicked, or an error that says access is lost.
OnKicked ==
  /\ ~room.kicked /\ room.access /\ link.joined
  /\ link' = Leave(room, [link EXCEPT !.joined = FALSE])
  /\ room' = Kick(room)

-----------------------------------------------------------------------------
SubscriptionInit ==
  /\ room = [focused |-> FALSE, access |-> FALSE, kicked |-> FALSE, up |-> FALSE, epoch |-> 0,
             sent |-> 0, acked |-> 0, rejected |-> 0, attEpoch |-> 0, attempts |-> 0,
             timer |-> 0, requested |-> 0, intent |-> 0, run |-> 0,
             history |-> "none", ready |-> FALSE, locked |-> FALSE, status |-> "inactive"]
  /\ link = NoLink

SubscriptionNext ==
  \/ Space /\ \/ Blur \/ AccessUncertain \/ AccessLost \/ OnKicked
              \/ \E ok \in BOOLEAN :
                   \/ Focus(ok) \/ AccessGranted(ok) \/ ConnectionOpens(ok)
                   \/ RecoveryTimer(ok) \/ RetrySubscription(ok) \/ OnUnsubscribed(ok)
  \/ ConnectionLost \/ RetryCatchUp \/ RetryInitialLoad \/ TripEnds \/ OnSubscribed
  \/ \E ok \in BOOLEAN : InitialLoadEnds(ok) \/ RunEnds(ok)
  \/ \E answer \in {"subscribed", "unsubscribed", "limit", "error"} : ServerHandles(answer)
  \/ \E e \in {"limit", "error"} : OnError(e)

SubscriptionSpec == SubscriptionInit /\ [][SubscriptionNext]_chatVars

-----------------------------------------------------------------------------
Room ==
  [focused : BOOLEAN, access : BOOLEAN, kicked : BOOLEAN, up : BOOLEAN, epoch : Nat,
   sent : Nat, acked : Nat, rejected : Nat, attEpoch : Nat, attempts : Nat,
   timer : Nat, requested : Nat, intent : Nat, run : Nat,
   history : {"none", "loading", "loaded"}, ready : BOOLEAN, locked : BOOLEAN,
   status : {"inactive", "waiting", "subscribing", "subscribed", "rejected"}]

Link ==
  [open : BOOLEAN, joined : BOOLEAN, up : Seq({"subscribe", "unsubscribe"}),
   down : Seq({"subscribed", "unsubscribed", "limit", "error"})]

\* Type invariant: attempts are limited, and no timer or acknowledgement is
\* ahead of the epochs that were opened.
SubscriptionTypeOK ==
  /\ room \in Room /\ link \in Link
  /\ room.attempts <= MaxSubscribes
  /\ {room.sent, room.acked, room.rejected, room.attEpoch, room.timer} \subseteq 0..room.epoch

\* On a connected, open screen something is always due to happen: the room is
\* live, the user was told that it is not, or a timer will try again.
RoomAttended ==
  room.focused /\ room.access /\ ~room.kicked /\ room.up
    => Live(room) \/ room.rejected = room.epoch \/ room.timer = room.epoch

\* "subscribed" is shown only while the server has the room, or its answer
\* that it has not is on the way.
SubscribedIsTrue ==
  room.status = "subscribed" /\ room.up
    => \/ link.joined
       \/ \E i \in 1..Len(link.down) : link.down[i] = "unsubscribed"
       \/ \E i \in 1..Len(link.up) : link.up[i] = "subscribe"

\* What the hook tells itself and the user about its subscription.
SubscriptionSound == RoomAttended /\ SubscribedIsTrue

\* The subscription gives the transcript the feed it relies on: it implements
\* ChatFeed, so that no acknowledgement after a gap in the events goes without
\* a catch-up (the realtime handler, scheduleRequestedCatchUp, runCatchUp).
Feed == INSTANCE ChatFeed WITH
  feed <- IF room.kicked THEN "shut" ELSE IF Live(room) THEN "live" ELSE "off",
  wanted <- Live(room) /\ ~room.kicked /\ room.requested = room.epoch,
  running <- Live(room) /\ ~room.kicked /\ room.run = room.epoch

FeedIsKept == Feed!FeedSpec

=============================================================================
