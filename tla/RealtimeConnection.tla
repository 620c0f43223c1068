------------------------- MODULE RealtimeConnection -------------------------
(***************************************************************************)
(* The realtime connection of the mobile app: WebSocketManager (tickets,   *)
(* sockets, heartbeat, retry budget) driven by RealtimeRuntimeController   *)
(* (credentials, foreground, connectivity).                                *)
(*                                                                         *)
(* Every method of the manager is synchronous and the controller calls it  *)
(* from the very notification that changed the environment, so operators   *)
(* map one state of the manager to the next and an action is one event.    *)
(* connectRequestId is a counter compared for equality only: what it       *)
(* tells apart is whether a ticket or a socket is of the present attempt   *)
(* (fresh).  Delays are left out: a timer may fire at any time.            *)
(***************************************************************************)
EXTENDS Naturals, FiniteSets

CONSTANTS
  MaxOwners,   \* bound: credentials published in turn
  MaxAttempts  \* REALTIME_TIMING.maxReconnectAttempts

ASSUME RealtimeBounds == MaxOwners \in Nat /\ MaxAttempts \in Nat

VARIABLES
  env,  \* what the controller observes
  rt    \* the manager, its timers, tickets and sockets

rtVars == <<env, rt>>

NoOwner == 0
NoTimer == [kind |-> "none", counted |-> FALSE]

Kinds == {"issue", "refresh"}
\* "untyped": not known yet, or online by a network whose kind is not told.
\* Of two kinds only whether they are the same is told apart.
Networks == {"untyped", "offline", "typed"}

\* The socket this.socket refers to; sockets with a live transport.
Held(r) == {s \in r.sockets : s.held}
LiveSockets(r) == {s \in r.sockets : s.state \in {"connecting", "open"}}

-----------------------------------------------------------------------------
(* The manager.                                                            *)

CanUse(e, r, o) == ~r.destroyed /\ o # NoOwner /\ e.owner = o /\ r.hard # o

\* Mutant: an answer is accepted for its owner, whatever attempt asked.
AttemptOfOwner(e, r, x) == x.owner = r.owner /\ CanUse(e, r, x.owner)

\* isAttemptCurrent, for a ticket or a socket.
AttemptCurrent(e, r, x) == x.fresh /\ x.owner = r.owner /\ CanUse(e, r, x.owner)

Active(e, r, s) == s.held /\ AttemptCurrent(e, r, s)

\* A detached socket is closed and can call nobody back.
Detach(r, s) == [r EXCEPT !.sockets = @ \ {s}]

StopHeartbeat(r) == [r EXCEPT !.beat = "off"]

Stale(xs) == {[x EXCEPT !.fresh = FALSE] : x \in xs}

Invalidate(r) ==
  [r EXCEPT !.connecting = FALSE, !.timer = NoTimer, !.beat = "off",
            !.attempt = 0, !.bootstrap = FALSE, !.spent = 0,
            !.tickets = Stale(@),
            !.sockets = {[s EXCEPT !.fresh = FALSE, !.openTimer = FALSE, !.errorTimer = FALSE] :
                           s \in @ \ Held(r)}]

\* Stopped for a reason that no event but a new owner or the user undoes.
Stop(r, o, reason) ==
  [Invalidate(r) EXCEPT !.owner = o, !.status = "disconnected", !.stopped = reason]

\* beginTicketRequest; counted requests are those the manager makes by
\* itself, and draw on the retry budget.
BeginTicket(e, r, o, kind, status, counted) ==
  IF ~CanUse(e, r, o) \/ r.owner # o THEN r
  ELSE IF ~e.urlValid THEN Stop(r, o, "config")
  ELSE [r EXCEPT !.timer = NoTimer, !.connecting = TRUE, !.status = status,
                 !.stopped = "none",
                 !.tickets = Stale(@) \cup {[owner |-> o, kind |-> kind, fresh |-> TRUE]},
                 !.sockets = Stale(@),
                 !.spent = IF counted THEN @ + 1 ELSE @]

ScheduleRetry(e, r, o, kind, counted) ==
  IF ~CanUse(e, r, o) \/ r.owner # o THEN r
  ELSE [r EXCEPT !.connecting = FALSE, !.status = "reconnecting", !.stopped = "none",
                 !.timer = [kind |-> kind, counted |-> counted]]

\* Mutant: one attempt too many.
ScheduleReconnectOnceMore(e, r, o, kind) ==
  IF ~CanUse(e, r, o) \/ r.owner # o THEN r
  ELSE IF r.attempt > MaxAttempts
       THEN [r EXCEPT !.connecting = FALSE, !.status = "disconnected", !.stopped = "exhausted"]
       ELSE ScheduleRetry(e, [r EXCEPT !.attempt = @ + 1], o, kind, TRUE)

ScheduleReconnect(e, r, o, kind) ==
  IF ~CanUse(e, r, o) \/ r.owner # o THEN r
  ELSE IF r.attempt >= MaxAttempts
       THEN [r EXCEPT !.connecting = FALSE, !.status = "disconnected", !.stopped = "exhausted"]
       ELSE ScheduleRetry(e, [r EXCEPT !.attempt = @ + 1], o, kind, TRUE)

\* handleTokenExpiry and handleNetworkClose: one immediate try, then backoff.
Recover(e, r, o, kind) ==
  LET q == [r EXCEPT !.status = "reconnecting", !.stopped = "none"] IN
  IF ~q.bootstrap
  THEN BeginTicket(e, [q EXCEPT !.bootstrap = TRUE], o, kind, "reconnecting", TRUE)
  ELSE ScheduleReconnect(e, q, o, kind)

HardStop(r, o) == Stop([r EXCEPT !.hard = o], o, "auth")

\* failActiveSocket, and the bodies of the two socket timeouts.
FailSocket(e, r, s) ==
  Recover(e, StopHeartbeat([Detach(r, s) EXCEPT !.connecting = FALSE]), s.owner, "issue")

Connect(e, r, o) ==
  LET q == IF r.owner = o THEN r ELSE [Invalidate(r) EXCEPT !.owner = o, !.hard = NoOwner] IN
  IF \/ ~CanUse(e, r, o)
     \/ r.owner = o /\ r.stopped # "none"
     \/ q.connecting \/ q.timer # NoTimer
     \/ \E s \in Held(q) : s.state \in {"connecting", "open"}
  THEN IF CanUse(e, r, o) THEN q ELSE r
  ELSE BeginTicket(e, q, o, "issue", IF q.opened THEN "reconnecting" ELSE "connecting", FALSE)

RestartFor(e, r, o) ==
  IF ~CanUse(e, r, o) THEN r
  ELSE BeginTicket(e, [Invalidate(r) EXCEPT !.owner = o, !.hard = NoOwner,
                                            !.status = "reconnecting", !.stopped = "none"],
                   o, "issue", "reconnecting", FALSE)

Disconnect(r, reason) ==
  LET keep == /\ reason \in {"background", "offline"} /\ r.stopped = "auth"
              /\ r.owner # NoOwner /\ r.hard = r.owner
      q == [Invalidate(r) EXCEPT !.owner = NoOwner]
  IN IF r.destroyed THEN r
     ELSE IF keep THEN q
     ELSE [q EXCEPT !.status = "disconnected",
                    !.stopped = IF reason = "unmount" THEN "unmount" ELSE "none"]

-----------------------------------------------------------------------------
(* The controller.                                                         *)

BlockReason(e) ==
  IF e.owner = NoOwner THEN "auth"
  ELSE IF ~e.foreground THEN "background"
  ELSE IF e.net = "offline" THEN "offline" ELSE "none"

Synchronize(e, r, handoff) ==
  IF BlockReason(e) # "none" THEN Disconnect(r, BlockReason(e))
  ELSE IF handoff THEN RestartFor(e, r, e.owner) ELSE Connect(e, r, e.owner)

Observe(e, handoff) == env' = e /\ rt' = Synchronize(e, rt, handoff)

\* Credentials go (a close, a rotation not yet published) or are published.
AuthChanges ==
  /\ ~rt.destroyed
  /\ \/ env.owner # NoOwner /\ Observe([env EXCEPT !.owner = NoOwner], FALSE)
     \/ /\ env.owner = NoOwner /\ env.published < MaxOwners
        /\ Observe([env EXCEPT !.owner = env.published + 1, !.published = @ + 1], FALSE)

AppStateChanges ==
  ~rt.destroyed /\ Observe([env EXCEPT !.foreground = ~@], FALSE)

\* The network changes, to another kind than the last one known or not; a
\* change between two known kinds, not by way of offline, is a handoff.
ConnectivityChanges(net, another) ==
  /\ ~rt.destroyed
  /\ another => net = "typed" /\ env.known
  /\ net # env.net \/ another
  /\ Observe([env EXCEPT !.net = net, !.known = net # "offline" /\ (@ \/ net = "typed")],
             another /\ env.net # "offline")

\* The provider unmounts: stop(), then destroy().
Unmount ==
  /\ ~rt.destroyed
  /\ rt' = [Disconnect(rt, "unmount") EXCEPT !.destroyed = TRUE]
  /\ UNCHANGED env

RetryConnection ==
  /\ rt.stopped = "exhausted" /\ rt.owner # NoOwner /\ ~rt.destroyed
  /\ rt' = RestartFor(env, rt, rt.owner)
  /\ UNCHANGED env

-----------------------------------------------------------------------------
(* Tickets and timers.                                                     *)

NewSocket(t) ==
  [owner |-> t.owner, state |-> "connecting", fresh |-> t.fresh, held |-> TRUE,
   openTimer |-> TRUE, errorTimer |-> FALSE, stable |-> FALSE]

\* openSocket; opens is false when the constructor throws.
TicketArrives(t, opens) ==
  /\ t \in rt.tickets
  /\ LET r == [rt EXCEPT !.tickets = @ \ {t}] IN
     rt' = IF ~AttemptCurrent(env, rt, t) THEN r
           ELSE IF ~opens
           THEN ScheduleReconnect(env, [r EXCEPT !.connecting = FALSE], t.owner, "issue")
           ELSE [r EXCEPT !.sockets =
                  {[s EXCEPT !.held = FALSE, !.openTimer = FALSE] : s \in @} \cup {NewSocket(t)}]
  /\ UNCHANGED env

\* handleTicketFailure.
TicketFails(t, kind) ==
  /\ t \in rt.tickets /\ kind \in {"hardAuth", "throttled", "transient"}
  /\ LET r == [rt EXCEPT !.tickets = @ \ {t}]
         q == [r EXCEPT !.connecting = FALSE]
     IN rt' = CASE ~AttemptCurrent(env, rt, t) -> r
                [] AttemptCurrent(env, rt, t) /\ kind = "hardAuth" -> HardStop(q, t.owner)
                [] AttemptCurrent(env, rt, t) /\ kind = "throttled" ->
                     ScheduleRetry(env, q, t.owner, t.kind, FALSE)
                [] AttemptCurrent(env, rt, t) /\ kind = "transient" ->
                     ScheduleReconnect(env, q, t.owner, t.kind)
  /\ UNCHANGED env

\* The reconnect timer; changing the owner has always cleared it.
ReconnectTimer ==
  /\ rt.timer # NoTimer
  /\ rt' = BeginTicket(env, [rt EXCEPT !.timer = NoTimer], rt.owner, rt.timer.kind,
                       "reconnecting", rt.timer.counted)
  /\ UNCHANGED env

OpenTimeout(s) ==
  /\ s \in rt.sockets /\ s.openTimer
  /\ LET q == [s EXCEPT !.openTimer = FALSE]
         r == [rt EXCEPT !.sockets = (@ \ {s}) \cup {q}]
     IN rt' = IF rt.connecting /\ s.state = "connecting" /\ Active(env, rt, s)
              THEN FailSocket(env, r, q) ELSE r
  /\ UNCHANGED env

ErrorCloseTimeout(s) ==
  /\ s \in rt.sockets /\ s.errorTimer
  /\ LET q == [s EXCEPT !.errorTimer = FALSE]
         r == [rt EXCEPT !.sockets = (@ \ {s}) \cup {q}]
     IN rt' = IF Active(env, rt, s) THEN FailSocket(env, r, q) ELSE r
  /\ UNCHANGED env

-----------------------------------------------------------------------------
(* Socket events.                                                          *)

SocketOpens(s) ==
  /\ s \in rt.sockets /\ s.state = "connecting"
  /\ LET q == [s EXCEPT !.state = "open", !.openTimer = FALSE, !.errorTimer = FALSE] IN
     rt' = IF ~Active(env, rt, s) THEN Detach(rt, s)
           ELSE [rt EXCEPT !.sockets = (@ \ {s}) \cup {q}, !.connecting = FALSE,
                           !.timer = NoTimer, !.beat = "idle",
                           !.status = "connected", !.stopped = "none", !.opened = TRUE]
  /\ UNCHANGED env

\* An auth_error message: the ticket expired, or is not valid at all.
AuthError(s, expired) ==
  /\ s \in rt.sockets /\ s.state = "open" /\ Active(env, rt, s)
  /\ LET r == StopHeartbeat(Detach(rt, s)) IN
     rt' = IF expired THEN Recover(env, r, s.owner, "refresh") ELSE HardStop(r, s.owner)
  /\ UNCHANGED env

\* Only an answer to a ping that was sent proves the connection healthy.
Pong(s) ==
  /\ s \in rt.sockets /\ s.state = "open" /\ Active(env, rt, s)
  /\ rt.status = "connected"
  /\ LET healthy == ~s.stable /\ rt.beat = "awaiting" IN
     rt' = [rt EXCEPT !.beat = IF @ = "off" THEN @ ELSE "idle",
                      !.sockets = (@ \ {s}) \cup {[s EXCEPT !.stable = @ \/ healthy]},
                      !.attempt = IF healthy THEN 0 ELSE @,
                      !.bootstrap = IF healthy THEN FALSE ELSE @,
                      !.spent = IF healthy THEN 0 ELSE @]
  /\ UNCHANGED env

\* The heartbeat interval: a ping, or the socket fails to send it.
Ping(s, sent) ==
  /\ s \in rt.sockets /\ s.state = "open" /\ Active(env, rt, s)
  /\ rt.beat = "idle" /\ rt.status = "connected"
  /\ rt' = IF sent THEN [rt EXCEPT !.beat = "awaiting"] ELSE FailSocket(env, rt, s)
  /\ UNCHANGED env

HeartbeatTimeout(s) ==
  /\ s \in rt.sockets /\ Active(env, rt, s) /\ rt.beat = "awaiting"
  /\ rt' = FailSocket(env, rt, s)
  /\ UNCHANGED env

SendFails(s) ==
  /\ s \in rt.sockets /\ s.state = "open" /\ s.held /\ rt.status = "connected"
  /\ rt' = IF Active(env, rt, s) THEN FailSocket(env, rt, s) ELSE rt
  /\ UNCHANGED env

\* A close event, with the code the server closed with.
SocketCloses(s, code) ==
  /\ s \in rt.sockets /\ code \in {"expired", "refused", "other"}
  /\ LET r == StopHeartbeat([Detach(rt, s) EXCEPT !.connecting = FALSE]) IN
     rt' = IF ~Active(env, rt, s)
           THEN [rt EXCEPT !.sockets = (@ \ {s}) \cup
                  {[s EXCEPT !.state = "closed", !.openTimer = FALSE, !.errorTimer = FALSE]}]
           ELSE CASE code = "expired" -> Recover(env, r, s.owner, "refresh")
                  [] code = "refused" -> HardStop(r, s.owner)
                  [] code = "other" -> Recover(env, r, s.owner, "issue")
  /\ UNCHANGED env

\* An error event, with which the transport may close; a close event may
\* follow and may not.
SocketFails(s, state) ==
  /\ s \in rt.sockets /\ state \in {s.state, "closed"}
  /\ LET q == [s EXCEPT !.state = state, !.openTimer = FALSE, !.errorTimer = TRUE] IN
     rt' = IF ~Active(env, rt, s)
           THEN [rt EXCEPT !.sockets = (@ \ {s}) \cup {[s EXCEPT !.state = state]}]
           ELSE [StopHeartbeat(rt) EXCEPT
                   !.sockets = {[x EXCEPT !.errorTimer = FALSE] : x \in @ \ {s}} \cup {q},
                   !.status = IF rt.opened THEN "reconnecting" ELSE "connecting",
                   !.stopped = "none"]
  /\ UNCHANGED env

-----------------------------------------------------------------------------
RealtimeInit ==
  /\ env = [owner |-> NoOwner, published |-> 0, foreground |-> TRUE,
            net |-> "untyped", known |-> FALSE, urlValid |-> TRUE]
     \/ env = [owner |-> NoOwner, published |-> 0, foreground |-> TRUE,
               net |-> "untyped", known |-> FALSE, urlValid |-> FALSE]
  /\ rt = [status |-> "disconnected", stopped |-> "none", opened |-> FALSE,
           owner |-> NoOwner, hard |-> NoOwner, connecting |-> FALSE,
           attempt |-> 0, bootstrap |-> FALSE, timer |-> NoTimer, beat |-> "off",
           tickets |-> {}, sockets |-> {}, spent |-> 0, destroyed |-> FALSE]

RealtimeNext ==
  \/ AuthChanges \/ AppStateChanges \/ Unmount \/ RetryConnection \/ ReconnectTimer
  \/ \E net \in Networks, another \in BOOLEAN : ConnectivityChanges(net, another)
  \/ \E t \in rt.tickets :
       \/ \E opens \in BOOLEAN : TicketArrives(t, opens)
       \/ \E kind \in {"hardAuth", "throttled", "transient"} : TicketFails(t, kind)
  \/ \E s \in rt.sockets :
       \/ OpenTimeout(s) \/ ErrorCloseTimeout(s) \/ SocketOpens(s) \/ Pong(s)
       \/ HeartbeatTimeout(s) \/ SendFails(s)
       \/ \E b \in BOOLEAN : AuthError(s, b) \/ Ping(s, b)
       \/ \E code \in {"expired", "refused", "other"} : SocketCloses(s, code)
       \/ \E state \in {s.state, "closed"} : SocketFails(s, state)

RealtimeSpec == RealtimeInit /\ [][RealtimeNext]_rtVars

-----------------------------------------------------------------------------
SocketType ==
  [owner : 1..MaxOwners, state : {"connecting", "open", "closed"}, fresh : BOOLEAN,
   held : BOOLEAN, openTimer : BOOLEAN, errorTimer : BOOLEAN, stable : BOOLEAN]

\* Type invariant.
RealtimeTypeOK ==
  /\ env \in [owner : 0..MaxOwners, published : 0..MaxOwners, foreground : BOOLEAN,
              net : Networks, known : BOOLEAN, urlValid : BOOLEAN]
  /\ rt.status \in {"disconnected", "connecting", "reconnecting", "connected"}
  /\ rt.stopped \in {"none", "exhausted", "auth", "config", "unmount"}
  /\ rt.owner \in 0..MaxOwners /\ rt.hard \in 0..MaxOwners /\ rt.attempt \in 0..MaxAttempts
  /\ rt.beat \in {"off", "idle", "awaiting"} /\ rt.spent \in Nat
  /\ rt.timer.kind \in {"none"} \cup Kinds
  /\ rt.tickets \subseteq [owner : 1..MaxOwners, kind : Kinds, fresh : BOOLEAN]
  /\ rt.sockets \subseteq SocketType

\* At most one transport is alive, it is the one the manager holds, and it
\* belongs to the credentials, the foreground and the network of this moment:
\* no socket of an earlier session goes on delivering messages.
OneLiveSocket ==
  /\ Cardinality(LiveSockets(rt)) <= 1
  /\ \A s \in LiveSockets(rt) :
       s.held /\ s.fresh /\ s.owner = env.owner /\ BlockReason(env) = "none"

\* With nothing in the way the manager is never left waiting for an event
\* that nobody will send: it is stopped for a reason the user is told, or a
\* ticket, a timer or a watched socket will call it back.
Attended ==
  BlockReason(env) = "none" /\ ~rt.destroyed /\ rt.stopped = "none" /\ rt.hard # env.owner
    => \/ \E t \in rt.tickets : AttemptCurrent(env, rt, t)
       \/ rt.timer # NoTimer
       \/ \E s \in rt.sockets : Active(env, rt, s) /\
            (s.openTimer \/ s.errorTimer \/ rt.beat # "off" \/ s.state = "connecting")

\* Short-lived sockets draw on one budget: without a sign of health, and with
\* nothing new around it, the manager tries no more than MaxAttempts times
\* after the immediate retry.
BudgetHolds == rt.spent <= MaxAttempts + 1

\* What the manager keeps whatever order tickets, sockets, timers and the
\* lifecycle come in (WebSocketManager.reconcile and its callbacks).
ConnectionSound == OneLiveSocket /\ Attended /\ BudgetHolds

\* The user is told that authentication failed for as long as the manager
\* refuses the credentials for that reason, wherever the app has been since
\* (WebSocketManager.test.ts: "preserves authentication hard-stop diagnostics
\* across %s lifecycle transitions").
AuthFailureShown ==
  BlockReason(env) = "none" /\ rt.hard = env.owner /\ ~rt.destroyed => rt.stopped = "auth"

=============================================================================
