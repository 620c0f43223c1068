---------------------------- MODULE ClientProofs ----------------------------
(***************************************************************************)
(* Parts of the clients that share no state, each for every value of its   *)
(* constants: on the phone the realtime connection keeps ConnectionSound,  *)
(* the chat subscription implements ChatFeed and keeps SubscriptionSound,  *)
(* and the upload keeps UploadSound; the session of a browser keeps        *)
(* WebSound.                                                               *)
(***************************************************************************)
EXTENDS RealtimeConnection, ChatSubscription, UploadSession, WebSession, FiniteSetTheorems,
        TLAPS

(***************************************************************************)
(* The realtime connection.  Its inductive invariant says of an attempt    *)
(* that it is one ticket, one socket or one timer, and that only what is   *)
(* of the present attempt is alive; of the owner served that it is the one *)
(* of this moment; and that a try is drawn from the budget before it is    *)
(* made.                                                                   *)
(***************************************************************************)

TicketSet == [owner : 1..MaxOwners, kind : Kinds, fresh : BOOLEAN]
TimerSet == {NoTimer} \cup [kind : Kinds, counted : BOOLEAN]

Managers ==
  [status : {"disconnected", "connecting", "reconnecting", "connected"},
   stopped : {"none", "exhausted", "auth", "config", "unmount"}, opened : BOOLEAN,
   owner : 0..MaxOwners, hard : 0..MaxOwners, connecting : BOOLEAN,
   attempt : 0..MaxAttempts, bootstrap : BOOLEAN, timer : TimerSet,
   beat : {"off", "idle", "awaiting"},
   tickets : SUBSET TicketSet, sockets : SUBSET SocketType, spent : Nat, destroyed : BOOLEAN]

Envs ==
  [owner : 0..MaxOwners, published : 0..MaxOwners, foreground : BOOLEAN,
   net : Networks, known : BOOLEAN, urlValid : BOOLEAN]

FreshTickets(r) == {t \in r.tickets : t.fresh}
FreshSockets(r) == {s \in r.sockets : s.fresh}

\* The owner served is the one of this moment, unless it is refused.
Present(e, r) ==
  /\ r.owner # NoOwner => r.owner = e.owner /\ BlockReason(e) = "none" /\ ~r.destroyed
  /\ BlockReason(e) = "none" /\ ~r.destroyed /\ r.hard # e.owner => r.owner = e.owner

\* Only what is of the present attempt is alive, and it is the owner's.
Ours(r) ==
  /\ \A x \in FreshTickets(r) \cup FreshSockets(r) : x.owner = r.owner /\ r.hard # r.owner
  /\ \A s \in FreshSockets(r) : s.held
  /\ \A s \in LiveSockets(r) : s.fresh

\* The present attempt is one ticket, one socket or one timer.
Single(r) ==
  /\ \A t, u \in FreshTickets(r) : t = u
  /\ \A s, z \in FreshSockets(r) : s = z
  /\ FreshTickets(r) # {} => FreshSockets(r) = {} /\ r.timer = NoTimer
  /\ FreshSockets(r) # {} => r.timer = NoTimer

One(b) == IF b THEN 1 ELSE 0

\* A try that was made or is to be made was drawn from the budget.
Drawn(r) == r.spent + One(r.timer.counted) <= r.attempt + One(r.bootstrap)

Tended(r) ==
  \/ FreshTickets(r) # {} \/ r.timer # NoTimer
  \/ \E s \in FreshSockets(r) :
       s.state = "connecting" \/ s.errorTimer \/ (s.state = "open" /\ r.beat # "off")

Watched(r) == r.owner # NoOwner /\ r.stopped = "none" /\ r.hard # r.owner => Tended(r)

Sound(e, r) ==
  r \in Managers /\ Present(e, r) /\ Ours(r) /\ Single(r) /\ Drawn(r) /\ Watched(r)

Quiet(r) == FreshTickets(r) = {} /\ FreshSockets(r) = {} /\ LiveSockets(r) = {}

-----------------------------------------------------------------------------
(* The manager.                                                            *)

LEMMA TimerShape ==
  /\ NoTimer \in TimerSet /\ NoTimer.counted = FALSE /\ NoTimer.kind = "none"
  /\ \A k \in Kinds, b \in BOOLEAN :
       /\ [kind |-> k, counted |-> b] \in TimerSet /\ [kind |-> k, counted |-> b] # NoTimer
       /\ [kind |-> k, counted |-> b].counted = b
BY DEF NoTimer, TimerSet, Kinds

LEMMA StaleTickets ==
  ASSUME NEW T \in SUBSET TicketSet
  PROVE  Stale(T) \in SUBSET TicketSet /\ \A t \in Stale(T) : t.fresh = FALSE
BY DEF Stale, TicketSet

LEMMA StaleSockets ==
  ASSUME NEW S \in SUBSET SocketType
  PROVE  /\ Stale(S) \in SUBSET SocketType
         /\ \A s \in Stale(S) : s.fresh = FALSE
         /\ \A s \in Stale(S) : \E z \in S : s.state = z.state
BY DEF Stale, SocketType

LEMMA InvalidateShape ==
  ASSUME NEW r \in Managers, Ours(r)
  PROVE  LET q == Invalidate(r) IN
         /\ q \in Managers /\ Quiet(q)
         /\ q.connecting = FALSE /\ q.timer = NoTimer /\ q.beat = "off" /\ q.attempt = 0
         /\ q.bootstrap = FALSE /\ q.spent = 0
         /\ q.status = r.status /\ q.stopped = r.stopped /\ q.opened = r.opened
         /\ q.owner = r.owner /\ q.hard = r.hard /\ q.destroyed = r.destroyed
<1> DEFINE T == Stale(r.tickets)
           S == {[s EXCEPT !.fresh = FALSE, !.openTimer = FALSE, !.errorTimer = FALSE] :
                   s \in r.sockets \ Held(r)}
<1>1. r.tickets \in SUBSET TicketSet /\ r.sockets \in SUBSET SocketType
  BY DEF Managers
<1>2. T \in SUBSET TicketSet /\ \A t \in T : t.fresh = FALSE
  BY <1>1, StaleTickets
<1>4. /\ S \in SUBSET SocketType
      /\ \A s \in S : s.fresh = FALSE /\ s.state = "closed"
  <2>1. \A s \in r.sockets \ Held(r) : s.state = "closed"
    BY <1>1 DEF Ours, LiveSockets, FreshSockets, Held, SocketType
  <2>2. \A y \in S : \E s \in r.sockets \ Held(r) :
          y = [s EXCEPT !.fresh = FALSE, !.openTimer = FALSE, !.errorTimer = FALSE]
    OBVIOUS
  <2> HIDE DEF S
  <2>3. ASSUME NEW y \in S PROVE y \in SocketType /\ y.fresh = FALSE /\ y.state = "closed"
    <3>1. PICK s \in r.sockets \ Held(r) :
            y = [s EXCEPT !.fresh = FALSE, !.openTimer = FALSE, !.errorTimer = FALSE]
      BY <2>2
    <3>2. s \in SocketType /\ s.state = "closed"
      BY <1>1, <2>1
    <3> QED BY <3>1, <3>2 DEF SocketType
  <2> QED BY <2>3
<1>9. Invalidate(r) = [r EXCEPT !.connecting = FALSE, !.timer = NoTimer, !.beat = "off",
            !.attempt = 0, !.bootstrap = FALSE, !.spent = 0, !.tickets = T, !.sockets = S]
  BY DEF Invalidate
<1> HIDE DEF T, S
<1> DEFINE q == [status |-> r.status, stopped |-> r.stopped, opened |-> r.opened,
                 owner |-> r.owner, hard |-> r.hard, connecting |-> FALSE, attempt |-> 0,
                 bootstrap |-> FALSE, timer |-> NoTimer, beat |-> "off", tickets |-> T,
                 sockets |-> S, spent |-> 0, destroyed |-> r.destroyed]
<1>5. Invalidate(r) = q
  BY <1>9 DEF Managers
<1>6. q \in Managers
  BY <1>2, <1>4, TimerShape, RealtimeBounds DEF Managers
<1>7. q.tickets = T /\ q.sockets = S
  OBVIOUS
<1>8. Quiet(q)
  BY <1>2, <1>4, <1>7 DEF Quiet, FreshTickets, FreshSockets, LiveSockets
<1> QED BY <1>5, <1>6, <1>8

LEMMA QuietIsSound ==
  ASSUME NEW e, NEW q \in Managers, Quiet(q), Present(e, q), Drawn(q), Watched(q)
  PROVE  Sound(e, q)
BY DEF Sound, Quiet, Ours, Single

LEMMA StopSound ==
  ASSUME NEW e, NEW r \in Managers, Ours(r), NEW o \in 0..MaxOwners,
         NEW reason \in {"exhausted", "auth", "config", "unmount"},
         o = e.owner, BlockReason(e) = "none", ~r.destroyed
  PROVE  Sound(e, Stop(r, o, reason))
<1> DEFINE i == Invalidate(r)
           q == [i EXCEPT !.owner = o, !.status = "disconnected", !.stopped = reason]
<1>1. /\ i \in Managers /\ Quiet(i) /\ i.timer = NoTimer /\ i.spent = 0
      /\ i.destroyed = r.destroyed
  BY InvalidateShape
<1> HIDE DEF i
<1>2. /\ q \in Managers /\ q.owner = o /\ q.stopped = reason /\ q.tickets = i.tickets
      /\ q.sockets = i.sockets /\ q.timer = i.timer /\ q.spent = i.spent
      /\ q.destroyed = i.destroyed
  BY <1>1 DEF Managers
<1>3. Stop(r, o, reason) = q
  BY DEF Stop, i
<1> HIDE DEF q
<1>4. Quiet(q)
  BY <1>1, <1>2 DEF Quiet, FreshTickets, FreshSockets, LiveSockets
<1>5. Present(e, q) /\ Watched(q)
  BY <1>1, <1>2 DEF Present, Watched
<1>6. Drawn(q)
  <2>1. q.spent = 0 /\ q.timer.counted = FALSE /\ q.attempt \in Nat
    BY <1>1, <1>2, TimerShape DEF Managers
  <2> QED BY <2>1 DEF Drawn, One
<1> QED BY <1>2, <1>3, <1>4, <1>5, <1>6, QuietIsSound

-----------------------------------------------------------------------------
LEMMA BeginTicketSound ==
  ASSUME NEW e \in Envs, NEW r \in Managers, Ours(r), LiveSockets(r) = {}, Present(e, r),
         NEW o, CanUse(e, r, o), r.owner = o,
         NEW kind \in Kinds, NEW status \in {"connecting", "reconnecting"}, NEW counted \in BOOLEAN,
         r.spent + One(counted) <= r.attempt + One(r.bootstrap)
  PROVE  Sound(e, BeginTicket(e, r, o, kind, status, counted))
<1>1. /\ o \in 1..MaxOwners /\ o = e.owner /\ BlockReason(e) = "none" /\ ~r.destroyed /\ r.hard # o
  BY DEF CanUse, Present, Managers, NoOwner, Envs
<1>2. CASE ~e.urlValid
  <2>1. BeginTicket(e, r, o, kind, status, counted) = Stop(r, o, "config")
    BY <1>2 DEF BeginTicket
  <2> QED BY <1>1, <2>1, StopSound
<1>3. CASE e.urlValid
  <2> DEFINE t == [owner |-> o, kind |-> kind, fresh |-> TRUE]
             T == Stale(r.tickets) \cup {t}
             S == Stale(r.sockets)
             n == IF counted THEN r.spent + 1 ELSE r.spent
  <2>1. r.tickets \in SUBSET TicketSet /\ r.sockets \in SUBSET SocketType /\ r.spent \in Nat
    BY DEF Managers
  <2>2. t \in TicketSet /\ t.fresh = TRUE /\ t.owner = o
    BY <1>1 DEF TicketSet
  <2> HIDE DEF t
  <2>3. T \in SUBSET TicketSet /\ (\A u \in T : u.fresh => u = t) /\ t \in T
    BY <2>1, <2>2, StaleTickets
  <2>4. S \in SUBSET SocketType /\ (\A s \in S : s.fresh = FALSE /\ s.state = "closed")
    <3>1. \A s \in r.sockets : s.state = "closed"
      BY <2>1 DEF LiveSockets, SocketType
    <3>2. /\ S \in SUBSET SocketType /\ \A s \in S : s.fresh = FALSE
          /\ \A s \in S : \E z \in r.sockets : s.state = z.state
      BY <2>1, StaleSockets
    <3> QED BY <3>1, <3>2
  <2>5. n \in Nat /\ n = r.spent + One(counted)
    BY <2>1 DEF One
  <2> HIDE DEF T, S, n
  <2> DEFINE q == [status |-> status, stopped |-> "none", opened |-> r.opened,
                   owner |-> r.owner, hard |-> r.hard, connecting |-> TRUE, attempt |-> r.attempt,
                   bootstrap |-> r.bootstrap, timer |-> NoTimer, beat |-> r.beat, tickets |-> T,
                   sockets |-> S, spent |-> n, destroyed |-> r.destroyed]
  <2>6. BeginTicket(e, r, o, kind, status, counted) = q
    BY <1>3 DEF BeginTicket, Managers, T, S, n, t
  <2>7. q \in Managers
    BY <2>3, <2>4, <2>5, TimerShape DEF Managers
  <2>8. /\ q.tickets = T /\ q.sockets = S /\ q.owner = r.owner /\ q.hard = r.hard
        /\ q.timer = NoTimer /\ q.destroyed = r.destroyed /\ q.spent = n
        /\ q.attempt = r.attempt /\ q.bootstrap = r.bootstrap
    OBVIOUS
  <2> HIDE DEF q
  <2>9. FreshTickets(q) = {t} /\ FreshSockets(q) = {} /\ LiveSockets(q) = {}
    BY <2>2, <2>3, <2>4, <2>8 DEF FreshTickets, FreshSockets, LiveSockets
  <2>10. Ours(q) /\ Single(q) /\ Watched(q)
    BY <1>1, <2>2, <2>8, <2>9 DEF Ours, Single, Watched, Tended
  <2>11. Present(e, q)
    BY <2>8 DEF Present
  <2>12. Drawn(q)
    <3>1. q.timer.counted = FALSE
      BY <2>8, TimerShape
    <3> QED BY <2>5, <2>8, <3>1 DEF Drawn, One
  <2> QED BY <2>6, <2>7, <2>10, <2>11, <2>12 DEF Sound
<1> QED BY <1>2, <1>3

LEMMA RetrySound ==
  ASSUME NEW e \in Envs, NEW r \in Managers, Quiet(r), Present(e, r),
         NEW o, CanUse(e, r, o), r.owner = o, NEW kind \in Kinds, NEW counted \in BOOLEAN,
         r.spent + One(counted) <= r.attempt + One(r.bootstrap)
  PROVE  Sound(e, ScheduleRetry(e, r, o, kind, counted))
<1> DEFINE m == [kind |-> kind, counted |-> counted]
           q == [r EXCEPT !.connecting = FALSE, !.status = "reconnecting", !.stopped = "none",
                          !.timer = m]
<1>1. ScheduleRetry(e, r, o, kind, counted) = q
  BY DEF ScheduleRetry
<1>2. m \in TimerSet /\ m # NoTimer /\ m.counted = counted
  BY TimerShape
<1> HIDE DEF m
<1>3. /\ q \in Managers /\ q.timer = m /\ q.tickets = r.tickets /\ q.sockets = r.sockets
      /\ q.owner = r.owner /\ q.hard = r.hard /\ q.destroyed = r.destroyed
      /\ q.spent = r.spent /\ q.attempt = r.attempt /\ q.bootstrap = r.bootstrap
  BY <1>2 DEF Managers
<1> HIDE DEF q
<1>4. Quiet(q) /\ Present(e, q) /\ Drawn(q) /\ Watched(q)
  BY <1>2, <1>3 DEF Quiet, FreshTickets, FreshSockets, LiveSockets, Present, Drawn, Watched, Tended
<1> QED BY <1>1, <1>3, <1>4, QuietIsSound

LEMMA ReconnectSound ==
  ASSUME NEW e \in Envs, NEW r \in Managers, Quiet(r), Present(e, r),
         NEW o, CanUse(e, r, o), r.owner = o, NEW kind \in Kinds,
         r.timer = NoTimer, Drawn(r)
  PROVE  Sound(e, ScheduleReconnect(e, r, o, kind))
<1>1. r.timer.counted = FALSE /\ r.spent \in Nat /\ r.attempt \in 0..MaxAttempts /\ MaxAttempts \in Nat
  BY TimerShape, RealtimeBounds DEF Managers
<1>2. r.spent <= r.attempt + One(r.bootstrap)
  BY <1>1 DEF Drawn, One
<1>3. CASE r.attempt >= MaxAttempts
  <2> DEFINE q == [r EXCEPT !.connecting = FALSE, !.status = "disconnected", !.stopped = "exhausted"]
  <2>1. ScheduleReconnect(e, r, o, kind) = q
    BY <1>3 DEF ScheduleReconnect
  <2>2. /\ q \in Managers /\ q.timer = r.timer /\ q.tickets = r.tickets /\ q.sockets = r.sockets
        /\ q.owner = r.owner /\ q.hard = r.hard /\ q.destroyed = r.destroyed
        /\ q.spent = r.spent /\ q.attempt = r.attempt /\ q.bootstrap = r.bootstrap
        /\ q.stopped = "exhausted"
    BY DEF Managers
  <2> HIDE DEF q
  <2>3. Quiet(q) /\ Present(e, q) /\ Drawn(q) /\ Watched(q)
    BY <2>2 DEF Quiet, FreshTickets, FreshSockets, LiveSockets, Present, Drawn, Watched
  <2> QED BY <2>1, <2>2, <2>3, QuietIsSound
<1>4. CASE ~(r.attempt >= MaxAttempts)
  <2>1. PICK n \in 0..MaxAttempts : n = r.attempt + 1
    BY <1>1, <1>4
  <2> DEFINE q == [r EXCEPT !.attempt = n]
  <2>2. ScheduleReconnect(e, r, o, kind) = ScheduleRetry(e, q, o, kind, TRUE)
    BY <1>4, <2>1 DEF ScheduleReconnect
  <2>3. /\ q \in Managers /\ q.tickets = r.tickets /\ q.sockets = r.sockets
        /\ q.owner = r.owner /\ q.hard = r.hard /\ q.destroyed = r.destroyed
        /\ q.spent = r.spent /\ q.attempt = n /\ q.bootstrap = r.bootstrap
    BY DEF Managers
  <2> HIDE DEF q
  <2>4. Quiet(q) /\ Present(e, q) /\ CanUse(e, q, o)
    BY <2>3 DEF Quiet, FreshTickets, FreshSockets, LiveSockets, Present, CanUse
  <2>5. q.spent + One(TRUE) <= q.attempt + One(q.bootstrap)
    BY <1>1, <1>2, <2>1, <2>3 DEF One
  <2> QED BY <2>2, <2>3, <2>4, <2>5, RetrySound
<1> QED BY <1>3, <1>4

LEMMA RecoverSound ==
  ASSUME NEW e \in Envs, NEW r \in Managers, Quiet(r), Present(e, r),
         NEW o, CanUse(e, r, o), r.owner = o, NEW kind \in Kinds,
         r.timer = NoTimer, Drawn(r)
  PROVE  Sound(e, Recover(e, r, o, kind))
<1> DEFINE q == [r EXCEPT !.status = "reconnecting", !.stopped = "none"]
           p == [q EXCEPT !.bootstrap = TRUE]
<1>1. /\ q \in Managers /\ q.timer = r.timer /\ q.tickets = r.tickets /\ q.sockets = r.sockets
      /\ q.owner = r.owner /\ q.hard = r.hard /\ q.destroyed = r.destroyed
      /\ q.spent = r.spent /\ q.attempt = r.attempt /\ q.bootstrap = r.bootstrap
  BY DEF Managers
<1>2. Recover(e, r, o, kind) = IF ~q.bootstrap THEN BeginTicket(e, p, o, kind, "reconnecting", TRUE)
                               ELSE ScheduleReconnect(e, q, o, kind)
  BY DEF Recover
<1> HIDE DEF q
<1>3. Quiet(q) /\ Present(e, q) /\ CanUse(e, q, o) /\ Drawn(q)
  BY <1>1 DEF Quiet, FreshTickets, FreshSockets, LiveSockets, Present, CanUse, Drawn
<1>4. CASE q.bootstrap
  BY <1>1, <1>2, <1>3, <1>4, ReconnectSound
<1>5. CASE ~q.bootstrap
  <2>1. /\ p \in Managers /\ p.timer = r.timer /\ p.tickets = r.tickets /\ p.sockets = r.sockets
        /\ p.owner = r.owner /\ p.hard = r.hard /\ p.destroyed = r.destroyed
        /\ p.spent = r.spent /\ p.attempt = r.attempt /\ p.bootstrap = TRUE
    BY <1>1 DEF Managers
  <2> HIDE DEF p
  <2>2. Quiet(p) /\ Present(e, p) /\ CanUse(e, p, o)
    BY <2>1 DEF Quiet, FreshTickets, FreshSockets, LiveSockets, Present, CanUse
  <2>3. p.spent + One(TRUE) <= p.attempt + One(p.bootstrap)
    <3>1. r.spent \in Nat /\ r.attempt \in Nat /\ r.timer.counted = FALSE /\ r.bootstrap = FALSE
      BY <1>1, <1>5, TimerShape DEF Managers
    <3> QED BY <2>1, <3>1 DEF Drawn, One
  <2>4. Ours(p) /\ LiveSockets(p) = {}
    BY <2>2 DEF Quiet, Ours
  <2> QED BY <1>2, <1>5, <2>1, <2>2, <2>3, <2>4, BeginTicketSound
<1> QED BY <1>4, <1>5

-----------------------------------------------------------------------------
(* The controller.                                                         *)

\* What a change of the environment leaves true of the manager.
Carried(e, r) ==
  /\ r \in Managers /\ Ours(r) /\ Single(r) /\ Drawn(r) /\ Watched(r)
  /\ r.owner # NoOwner => r.owner = e.owner

LEMMA BudgetLeft ==
  ASSUME NEW r \in Managers, Drawn(r)
  PROVE  r.spent + One(FALSE) <= r.attempt + One(r.bootstrap)
<1>1. r.spent \in Nat /\ r.attempt \in Nat
  BY DEF Managers
<1>2. \A b : One(b) \in {0, 1}
  BY DEF One
<1>3. One(FALSE) = 0
  BY DEF One
<1>4. PICK x \in {0, 1} : x = One(r.timer.counted)
  BY <1>2
<1>5. PICK y \in {0, 1} : y = One(r.bootstrap)
  BY <1>2
<1>6. r.spent + x <= r.attempt + y
  BY <1>4, <1>5, Zenon DEF Drawn
<1>7. r.spent + 0 <= r.attempt + y
  BY <1>1, <1>6
<1> QED BY <1>3, <1>5, <1>7, Zenon

\* An attempt from scratch, with new credentials or a new network.
LEMMA AnewSound ==
  ASSUME NEW e \in Envs, NEW r \in Managers, Ours(r), BlockReason(e) = "none", ~r.destroyed,
         NEW q \in Managers, q.tickets = Invalidate(r).tickets, q.sockets = Invalidate(r).sockets,
         q.owner = e.owner, q.hard = NoOwner, q.destroyed = FALSE,
         q.spent = 0, NEW status \in {"connecting", "reconnecting"}
  PROVE  Sound(e, BeginTicket(e, q, e.owner, "issue", status, FALSE))
<1>1. Quiet(Invalidate(r))
  BY InvalidateShape
<1>2. Ours(q) /\ LiveSockets(q) = {}
  BY <1>1 DEF Quiet, Ours, FreshTickets, FreshSockets, LiveSockets
<1>3. e.owner # NoOwner
  BY DEF BlockReason
<1>4. Present(e, q) /\ CanUse(e, q, e.owner)
  BY <1>3 DEF Present, CanUse
<1>5. q.spent + One(FALSE) <= q.attempt + One(q.bootstrap)
  BY DEF One, Managers
<1> QED BY <1>2, <1>4, <1>5, BeginTicketSound DEF Kinds

LEMMA ConnectSound ==
  ASSUME NEW e \in Envs, NEW r, Carried(e, r), BlockReason(e) = "none", ~r.destroyed
  PROVE  Sound(e, Connect(e, r, e.owner))
<1>1. e.owner # NoOwner /\ r \in Managers /\ Ours(r) /\ r.destroyed = FALSE
  BY DEF BlockReason, Carried, Managers
<1>2. CASE ~CanUse(e, r, e.owner)
  <2>1. Connect(e, r, e.owner) = r
    BY <1>2 DEF Connect
  <2>2. r.hard = e.owner
    BY <1>1, <1>2 DEF CanUse
  <2>3. Present(e, r)
    BY <2>2 DEF Present, Carried
  <2> QED BY <2>1, <2>3 DEF Sound, Carried
<1>3. CASE CanUse(e, r, e.owner) /\ r.owner = e.owner
  <2>1. Present(e, r)
    BY <1>3 DEF Present
  <2>2. \/ Connect(e, r, e.owner) = r
        \/ /\ \A s \in Held(r) : s.state \notin {"connecting", "open"}
           /\ Connect(e, r, e.owner) =
                BeginTicket(e, r, e.owner, "issue",
                            IF r.opened THEN "reconnecting" ELSE "connecting", FALSE)
    BY <1>3 DEF Connect
  <2>3. CASE Connect(e, r, e.owner) = r
    BY <2>1, <2>3 DEF Sound, Carried
  <2>4. CASE /\ \A s \in Held(r) : s.state \notin {"connecting", "open"}
             /\ Connect(e, r, e.owner) =
                  BeginTicket(e, r, e.owner, "issue",
                              IF r.opened THEN "reconnecting" ELSE "connecting", FALSE)
    <3>1. LiveSockets(r) = {}
      BY <2>4 DEF Carried, Ours, LiveSockets, FreshSockets, Held
    <3>2. r.spent + One(FALSE) <= r.attempt + One(r.bootstrap)
      BY BudgetLeft DEF Carried
    <3>3. PICK status \in {"connecting", "reconnecting"} :
            status = IF r.opened THEN "reconnecting" ELSE "connecting"
      OBVIOUS
    <3> QED BY <1>1, <1>3, <2>1, <2>4, <3>1, <3>2, <3>3, BeginTicketSound DEF Kinds
  <2> QED BY <2>2, <2>3, <2>4
<1>4. CASE CanUse(e, r, e.owner) /\ r.owner # e.owner
  <2> DEFINE i == Invalidate(r)
             q == [i EXCEPT !.owner = e.owner, !.hard = NoOwner]
  <2>1. /\ i \in Managers /\ Quiet(i) /\ i.connecting = FALSE /\ i.timer = NoTimer
        /\ i.spent = 0 /\ i.destroyed = r.destroyed
    BY <1>1, InvalidateShape
  <2>2. PICK status \in {"connecting", "reconnecting"} :
          status = IF q.opened THEN "reconnecting" ELSE "connecting"
    OBVIOUS
  <2>3. Connect(e, r, e.owner) =
          IF \/ q.connecting \/ q.timer # NoTimer
             \/ \E s \in Held(q) : s.state \in {"connecting", "open"}
          THEN q ELSE BeginTicket(e, q, e.owner, "issue", status, FALSE)
    BY <1>4, <2>2 DEF Connect
  <2> HIDE DEF i
  <2>6. e.owner \in 0..MaxOwners /\ NoOwner \in 0..MaxOwners
    BY RealtimeBounds DEF Envs, NoOwner
  <2>4. /\ q \in Managers /\ q.owner = e.owner /\ q.hard = NoOwner /\ q.destroyed = FALSE
        /\ q.spent = 0 /\ q.timer = NoTimer /\ q.connecting = FALSE
        /\ q.tickets = i.tickets /\ q.sockets = i.sockets
    BY <1>1, <2>1, <2>6 DEF Managers
  <2> HIDE DEF q
  <2>5. \A s \in Held(q) : s.state \notin {"connecting", "open"}
    BY <2>1, <2>4 DEF Quiet, LiveSockets, Held
  <2> QED BY <1>1, <2>3, <2>4, <2>5, AnewSound DEF i
<1> QED BY <1>2, <1>3, <1>4

LEMMA RestartSound ==
  ASSUME NEW e \in Envs, NEW r, Carried(e, r), BlockReason(e) = "none", ~r.destroyed
  PROVE  Sound(e, RestartFor(e, r, e.owner))
<1>1. e.owner # NoOwner /\ r \in Managers /\ Ours(r) /\ r.destroyed = FALSE
  BY DEF BlockReason, Carried, Managers
<1>2. CASE ~CanUse(e, r, e.owner)
  <2>1. RestartFor(e, r, e.owner) = r
    BY <1>2 DEF RestartFor
  <2>2. r.hard = e.owner
    BY <1>1, <1>2 DEF CanUse
  <2>3. Present(e, r)
    BY <2>2 DEF Present, Carried
  <2> QED BY <2>1, <2>3 DEF Sound, Carried
<1>3. CASE CanUse(e, r, e.owner)
  <2> DEFINE i == Invalidate(r)
             q == [i EXCEPT !.owner = e.owner, !.hard = NoOwner,
                            !.status = "reconnecting", !.stopped = "none"]
  <2>1. i \in Managers /\ i.spent = 0 /\ i.destroyed = r.destroyed
    BY <1>1, InvalidateShape
  <2>2. RestartFor(e, r, e.owner) = BeginTicket(e, q, e.owner, "issue", "reconnecting", FALSE)
    BY <1>3 DEF RestartFor
  <2> HIDE DEF i
  <2>4. e.owner \in 0..MaxOwners /\ NoOwner \in 0..MaxOwners
    BY RealtimeBounds DEF Envs, NoOwner
  <2>3. /\ q \in Managers /\ q.owner = e.owner /\ q.hard = NoOwner /\ q.destroyed = FALSE
        /\ q.spent = 0 /\ q.tickets = i.tickets /\ q.sockets = i.sockets
    BY <1>1, <2>1, <2>4 DEF Managers
  <2> HIDE DEF q
  <2> QED BY <1>1, <2>2, <2>3, AnewSound DEF i
<1> QED BY <1>2, <1>3

LEMMA DisconnectShape ==
  ASSUME NEW r \in Managers, Ours(r), ~r.destroyed, NEW reason
  PROVE  LET q == Disconnect(r, reason) IN
         /\ q \in Managers /\ Quiet(q) /\ q.owner = NoOwner /\ Drawn(q)
         /\ q.destroyed = r.destroyed
<1> DEFINE i == Invalidate(r)
           q == [i EXCEPT !.owner = NoOwner]
           p == [q EXCEPT !.status = "disconnected",
                          !.stopped = IF reason = "unmount" THEN "unmount" ELSE "none"]
<1>1. /\ i \in Managers /\ Quiet(i) /\ i.timer = NoTimer /\ i.spent = 0
      /\ i.destroyed = r.destroyed
  BY InvalidateShape
<1>2. Disconnect(r, reason) \in {q, p}
  BY DEF Disconnect
<1> HIDE DEF i
<1>6. NoOwner \in 0..MaxOwners
  BY RealtimeBounds DEF NoOwner
<1>7. /\ q \in Managers /\ q.owner = NoOwner /\ q.tickets = i.tickets /\ q.sockets = i.sockets
      /\ q.timer = NoTimer /\ q.spent = 0 /\ q.destroyed = r.destroyed
  BY <1>1, <1>6 DEF Managers
<1> HIDE DEF q
<1>8. /\ p \in Managers /\ p.owner = NoOwner /\ p.tickets = i.tickets /\ p.sockets = i.sockets
      /\ p.timer = NoTimer /\ p.spent = 0 /\ p.destroyed = r.destroyed
  BY <1>7 DEF Managers
<1>3. \A x \in {q, p} :
        /\ x \in Managers /\ x.owner = NoOwner /\ x.tickets = i.tickets /\ x.sockets = i.sockets
        /\ x.timer = NoTimer /\ x.spent = 0 /\ x.destroyed = r.destroyed
  BY <1>7, <1>8
<1> HIDE DEF p, q
<1>4. \A x \in {q, p} : Quiet(x)
  BY <1>1, <1>3 DEF Quiet, FreshTickets, FreshSockets, LiveSockets
<1>5. \A x \in {q, p} : Drawn(x)
  <2>1. \A x \in {q, p} : One(x.timer.counted) = 0 /\ One(x.bootstrap) \in 0..1 /\ x.attempt \in Nat
    BY <1>3, TimerShape DEF Managers, One
  <2> QED BY <1>3, <2>1 DEF Drawn
<1> QED BY <1>2, <1>3, <1>4, <1>5

LEMMA SynchronizeSound ==
  ASSUME NEW e \in Envs, NEW r, Carried(e, r), ~r.destroyed, NEW handoff \in BOOLEAN
  PROVE  Sound(e, Synchronize(e, r, handoff))
<1>1. CASE BlockReason(e) = "none"
  BY <1>1, ConnectSound, RestartSound DEF Synchronize
<1>2. CASE BlockReason(e) # "none"
  <2>1. PICK q : q = Disconnect(r, BlockReason(e))
    OBVIOUS
  <2>2. q \in Managers /\ Quiet(q) /\ q.owner = NoOwner /\ Drawn(q)
    BY <2>1, DisconnectShape DEF Carried
  <2>3. Present(e, q) /\ Watched(q)
    BY <1>2, <2>2 DEF Present, Watched
  <2> QED BY <1>2, <2>1, <2>2, <2>3, QuietIsSound DEF Synchronize
<1> QED BY <1>1, <1>2

-----------------------------------------------------------------------------
RealtimeInv == env \in Envs /\ Sound(env, rt)

LEMMA RealtimeInitially == RealtimeInit => RealtimeInv
<1> SUFFICES ASSUME RealtimeInit PROVE RealtimeInv
  OBVIOUS
<1>0. \E b \in BOOLEAN : env = [owner |-> NoOwner, published |-> 0, foreground |-> TRUE,
                                net |-> "untyped", known |-> FALSE, urlValid |-> b]
  BY Zenon DEF RealtimeInit
<1>1. /\ env \in Envs /\ env.owner = NoOwner
  BY <1>0, RealtimeBounds DEF Envs, NoOwner, Networks
<1>2. /\ rt \in Managers /\ rt.tickets = {} /\ rt.sockets = {} /\ rt.owner = NoOwner
      /\ rt.timer = NoTimer /\ rt.spent = 0 /\ rt.attempt = 0
  BY RealtimeBounds, TimerShape DEF RealtimeInit, Managers, NoOwner
<1>3. Quiet(rt) /\ Present(env, rt) /\ Watched(rt)
  BY <1>1, <1>2 DEF Quiet, FreshTickets, FreshSockets, LiveSockets, Present, Watched, BlockReason
<1>4. Drawn(rt)
  BY <1>2, TimerShape DEF Drawn, One
<1> QED BY <1>1, <1>2, <1>3, <1>4, QuietIsSound DEF RealtimeInv

\* The environment changes, and the manager is told in the same step.
LEMMA ObserveInv ==
  ASSUME RealtimeInv, ~rt.destroyed, NEW e \in Envs, NEW handoff \in BOOLEAN, Observe(e, handoff),
         e.owner = env.owner \/ env.owner = NoOwner \/ e.owner = NoOwner
  PROVE  RealtimeInv'
<1>1. CASE e.owner = env.owner \/ env.owner = NoOwner
  <2>1. Carried(e, rt)
    BY <1>1 DEF RealtimeInv, Sound, Present, Carried, BlockReason
  <2> QED BY <2>1, SynchronizeSound DEF Observe, RealtimeInv
<1>2. CASE e.owner = NoOwner
  <2>1. BlockReason(e) = "auth"
    BY <1>2 DEF BlockReason
  <2>2. PICK q : q = Disconnect(rt, "auth")
    OBVIOUS
  <2>3. q \in Managers /\ Quiet(q) /\ q.owner = NoOwner /\ Drawn(q)
    BY <2>2, DisconnectShape DEF RealtimeInv, Sound
  <2>4. Present(e, q) /\ Watched(q)
    BY <2>1, <2>3 DEF Present, Watched
  <2>5. env' = e /\ rt' = q
    BY <2>1, <2>2 DEF Observe, Synchronize
  <2> QED BY <2>3, <2>4, <2>5, QuietIsSound DEF RealtimeInv
<1> QED BY <1>1, <1>2

LEMMA EnvironmentInv ==
  ASSUME RealtimeInv,
         \/ AuthChanges \/ AppStateChanges
         \/ \E net \in Networks, another \in BOOLEAN : ConnectivityChanges(net, another)
  PROVE  RealtimeInv'
<1>1. env \in Envs
  BY DEF RealtimeInv
<1>2. CASE AuthChanges
  <2>1. CASE env.owner # NoOwner /\ Observe([env EXCEPT !.owner = NoOwner], FALSE)
    <3>1. PICK e : e = [env EXCEPT !.owner = NoOwner]
      OBVIOUS
    <3>2. e \in Envs /\ e.owner = NoOwner
      BY <1>1, <3>1, RealtimeBounds DEF Envs, NoOwner
    <3> QED BY <1>2, <2>1, <3>1, <3>2, ObserveInv DEF AuthChanges
  <2>2. CASE /\ env.owner = NoOwner /\ env.published < MaxOwners
             /\ Observe([env EXCEPT !.owner = env.published + 1, !.published = @ + 1], FALSE)
    <3>1. PICK n \in 0..MaxOwners : n = env.published + 1
      BY <1>1, <2>2, RealtimeBounds DEF Envs
    <3>2. PICK e : e = [env EXCEPT !.owner = n, !.published = n]
      OBVIOUS
    <3>3. e \in Envs
      BY <1>1, <3>2 DEF Envs
    <3>4. Observe(e, FALSE)
      BY <2>2, <3>1, <3>2
    <3> QED BY <1>2, <2>2, <3>3, <3>4, ObserveInv DEF AuthChanges
  <2> QED BY <1>2, <2>1, <2>2 DEF AuthChanges
<1>3. CASE AppStateChanges
  <2>1. PICK e : e = [env EXCEPT !.foreground = ~@]
    OBVIOUS
  <2>2. e \in Envs /\ e.owner = env.owner
    BY <1>1, <2>1 DEF Envs
  <2> QED BY <1>3, <2>1, <2>2, ObserveInv DEF AppStateChanges
<1>4. CASE \E net \in Networks, another \in BOOLEAN : ConnectivityChanges(net, another)
  <2>1. PICK net \in Networks, another \in BOOLEAN : ConnectivityChanges(net, another)
    BY <1>4
  <2>2. PICK known \in BOOLEAN : known = (net # "offline" /\ (env.known \/ net = "typed"))
    OBVIOUS
  <2>3. PICK e : e = [env EXCEPT !.net = net, !.known = known]
    OBVIOUS
  <2>4. e \in Envs /\ e.owner = env.owner
    BY <1>1, <2>3 DEF Envs
  <2>5. PICK handoff \in BOOLEAN : handoff = (another /\ env.net # "offline")
    OBVIOUS
  <2>6. Observe(e, handoff) /\ ~rt.destroyed
    BY <2>1, <2>2, <2>3, <2>5 DEF ConnectivityChanges
  <2> QED BY <2>4, <2>6, ObserveInv
<1> QED BY <1>2, <1>3, <1>4

-----------------------------------------------------------------------------
(* Tickets, timers and sockets.                                            *)

SameBudget(p, r) ==
  /\ p \in Managers /\ p.owner = r.owner /\ p.hard = r.hard /\ p.destroyed = r.destroyed
  /\ p.spent = r.spent /\ p.attempt = r.attempt /\ p.bootstrap = r.bootstrap
  /\ p.timer = r.timer

Without(p, r, x) ==
  /\ SameBudget(p, r)
  /\ p.tickets \subseteq r.tickets \ {x} /\ p.sockets \subseteq r.sockets \ {x}

\* The attempt of owner o is over, and o is served still.
Over(e, p, o) ==
  /\ p \in Managers /\ Quiet(p) /\ Present(e, p) /\ p.timer = NoTimer /\ Drawn(p)
  /\ CanUse(e, p, o) /\ p.owner = o /\ o = e.owner
  /\ BlockReason(e) = "none" /\ ~p.destroyed

\* What the present attempt waited for is gone.
LEMMA AttemptGone ==
  ASSUME NEW e \in Envs, NEW r, Sound(e, r), NEW x \in r.tickets \cup r.sockets, x.fresh = TRUE,
         NEW p, Without(p, r, x)
  PROVE  Over(e, p, x.owner)
<1>0. /\ SameBudget(p, r) /\ p.tickets \subseteq r.tickets /\ p.sockets \subseteq r.sockets
      /\ x \notin p.tickets /\ x \notin p.sockets
  BY DEF Without
<1>1. r.tickets \in SUBSET TicketSet /\ r.sockets \in SUBSET SocketType
  BY DEF Sound, Managers
<1>2. x \in FreshTickets(r) \/ x \in FreshSockets(r)
  BY <1>1 DEF FreshTickets, FreshSockets, TicketSet, SocketType
<1>3. x.owner = r.owner /\ r.hard # r.owner /\ x.owner \in 1..MaxOwners
  BY <1>1, <1>2 DEF Sound, Ours, FreshTickets, FreshSockets, TicketSet, SocketType
<1>4. FreshTickets(p) = {} /\ FreshSockets(p) = {}
  <2>1. FreshTickets(p) \subseteq FreshTickets(r) /\ FreshSockets(p) \subseteq FreshSockets(r)
    BY <1>0 DEF FreshTickets, FreshSockets
  <2>2. FreshTickets(p) \subseteq p.tickets /\ FreshSockets(p) \subseteq p.sockets
    BY DEF FreshTickets, FreshSockets
  <2>3. CASE x \in FreshTickets(r) /\ x \notin p.tickets
    BY <2>1, <2>2, <2>3 DEF Sound, Single
  <2>4. CASE x \in FreshSockets(r) /\ x \notin p.sockets
    BY <2>1, <2>2, <2>4 DEF Sound, Single
  <2> QED BY <1>0, <1>2, <2>3, <2>4
<1>5. LiveSockets(p) = {}
  <2>1. \A s \in LiveSockets(p) : s \in FreshSockets(p)
    BY <1>0 DEF Sound, Ours, LiveSockets, FreshSockets
  <2> QED BY <1>4, <2>1
<1>6. p.timer = NoTimer
  BY <1>0, <1>2 DEF Sound, Single, SameBudget
<1>7. Present(e, p) /\ Drawn(p)
  BY <1>0 DEF Sound, Present, Drawn, SameBudget
<1>8. x.owner = e.owner /\ BlockReason(e) = "none" /\ ~p.destroyed
  BY <1>0, <1>3 DEF Sound, Present, SameBudget, NoOwner
<1>9. CanUse(e, p, x.owner)
  BY <1>0, <1>3, <1>8 DEF CanUse, SameBudget, NoOwner
<1> QED BY <1>0, <1>3, <1>4, <1>5, <1>6, <1>7, <1>8, <1>9 DEF Over, Quiet, SameBudget

\* What is not current is not fresh.
LEMMA CurrentIsFresh ==
  ASSUME NEW e \in Envs, NEW r, Sound(e, r), NEW x \in r.tickets \cup r.sockets
  PROVE  /\ AttemptCurrent(e, r, x) <=> x.fresh
         /\ x \in r.sockets => (Active(e, r, x) <=> x.fresh)
<1>1. r.tickets \in SUBSET TicketSet /\ r.sockets \in SUBSET SocketType
  BY DEF Sound, Managers
<1>2. x.owner \in 1..MaxOwners /\ x.fresh \in BOOLEAN /\ (x \in r.sockets => x.held \in BOOLEAN)
  BY <1>1 DEF TicketSet, SocketType
<1>3. ASSUME x.fresh PROVE AttemptCurrent(e, r, x)
  <2>1. x \in FreshTickets(r) \cup FreshSockets(r)
    BY <1>3 DEF FreshTickets, FreshSockets
  <2>2. x.owner = r.owner /\ r.hard # r.owner
    BY <2>1 DEF Sound, Ours
  <2> QED BY <1>2, <1>3, <2>2 DEF Sound, Present, AttemptCurrent, CanUse, NoOwner
<1>4. x \in r.sockets /\ x.fresh => x.held
  BY DEF Sound, Ours, FreshSockets
<1> QED BY <1>2, <1>3, <1>4 DEF AttemptCurrent, Active

LEMMA HardStopSound ==
  ASSUME NEW e \in Envs, NEW r \in Managers, Quiet(r), NEW o, CanUse(e, r, o), r.owner = o,
         o = e.owner, BlockReason(e) = "none", ~r.destroyed
  PROVE  Sound(e, HardStop(r, o))
<1> DEFINE q == [r EXCEPT !.hard = o]
<1>1. o \in 0..MaxOwners
  BY DEF Envs
<1>2. /\ q \in Managers /\ q.tickets = r.tickets /\ q.sockets = r.sockets
      /\ q.destroyed = r.destroyed
  BY <1>1 DEF Managers
<1>3. HardStop(r, o) = Stop(q, o, "auth")
  BY DEF HardStop
<1> HIDE DEF q
<1>4. Ours(q)
  BY <1>2 DEF Quiet, Ours, FreshTickets, FreshSockets, LiveSockets
<1> QED BY <1>1, <1>2, <1>3, <1>4, StopSound

-----------------------------------------------------------------------------
LEMMA UnmountInv ==
  ASSUME RealtimeInv, Unmount
  PROVE  RealtimeInv'
<1>1. rt \in Managers /\ Ours(rt)
  BY DEF RealtimeInv, Sound
<1>2. PICK q : q = Disconnect(rt, "unmount")
  OBVIOUS
<1>3. q \in Managers /\ Quiet(q) /\ q.owner = NoOwner /\ Drawn(q)
  BY <1>1, <1>2, DisconnectShape DEF Unmount
<1>4. PICK p : p = [q EXCEPT !.destroyed = TRUE]
  OBVIOUS
<1>5. /\ p \in Managers /\ p.owner = NoOwner /\ p.tickets = q.tickets /\ p.sockets = q.sockets
      /\ p.timer = q.timer /\ p.spent = q.spent /\ p.attempt = q.attempt
      /\ p.bootstrap = q.bootstrap /\ p.destroyed = TRUE
  BY <1>3, <1>4 DEF Managers
<1>6. Quiet(p) /\ Present(env, p) /\ Drawn(p) /\ Watched(p)
  BY <1>3, <1>5 DEF Quiet, FreshTickets, FreshSockets, LiveSockets, Present, Drawn, Watched
<1>7. rt' = p /\ env' = env
  BY <1>2, <1>4 DEF Unmount
<1> QED BY <1>5, <1>6, <1>7, QuietIsSound DEF RealtimeInv

LEMMA RetryConnectionInv ==
  ASSUME RealtimeInv, RetryConnection
  PROVE  RealtimeInv'
<1>1. rt.owner = env.owner /\ BlockReason(env) = "none" /\ ~rt.destroyed
  BY DEF RetryConnection, RealtimeInv, Sound, Present
<1>2. Carried(env, rt)
  BY <1>1 DEF RealtimeInv, Sound, Carried
<1> QED BY <1>1, <1>2, RestartSound DEF RetryConnection, RealtimeInv

LEMMA ReconnectTimerInv ==
  ASSUME RealtimeInv, ReconnectTimer
  PROVE  RealtimeInv'
<1>1. rt \in Managers /\ rt.timer # NoTimer /\ env \in Envs /\ env' = env
  BY DEF RealtimeInv, Sound, ReconnectTimer
<1>2. PICK k \in Kinds, c \in BOOLEAN : rt.timer.kind = k /\ rt.timer.counted = c
  BY <1>1 DEF Managers, TimerSet
<1>3. PICK r : r = [rt EXCEPT !.timer = NoTimer]
  OBVIOUS
<1>4. /\ r \in Managers /\ r.timer = NoTimer /\ r.tickets = rt.tickets /\ r.sockets = rt.sockets
      /\ r.owner = rt.owner /\ r.hard = rt.hard /\ r.destroyed = rt.destroyed
      /\ r.spent = rt.spent /\ r.attempt = rt.attempt /\ r.bootstrap = rt.bootstrap
  BY <1>1, <1>3, TimerShape DEF Managers
<1>5. rt' = BeginTicket(env, r, rt.owner, k, "reconnecting", c)
  BY <1>2, <1>3 DEF ReconnectTimer
<1>6. Quiet(r)
  <2>1. FreshTickets(rt) = {} /\ FreshSockets(rt) = {}
    BY <1>1 DEF RealtimeInv, Sound, Single
  <2>2. LiveSockets(rt) \subseteq FreshSockets(rt)
    BY DEF RealtimeInv, Sound, Ours, LiveSockets, FreshSockets
  <2>3. FreshTickets(r) = FreshTickets(rt) /\ FreshSockets(r) = FreshSockets(rt)
        /\ LiveSockets(r) = LiveSockets(rt)
    BY <1>4 DEF FreshTickets, FreshSockets, LiveSockets
  <2> QED BY <2>1, <2>2, <2>3 DEF Quiet
<1>7. Present(env, r) /\ Ours(r) /\ LiveSockets(r) = {}
  BY <1>4, <1>6 DEF RealtimeInv, Sound, Present, Quiet, Ours
<1>8. r.spent + One(c) <= r.attempt + One(r.bootstrap)
  BY <1>2, <1>4 DEF RealtimeInv, Sound, Drawn
<1>9. CASE CanUse(env, r, rt.owner)
  BY <1>1, <1>4, <1>5, <1>7, <1>8, <1>9, BeginTicketSound DEF RealtimeInv
<1>10. CASE ~CanUse(env, r, rt.owner)
  <2>1. rt' = r
    BY <1>5, <1>10 DEF BeginTicket
  <2>2. Watched(r)
    BY <1>4, <1>7, <1>10 DEF Watched, CanUse, Present
  <2>3. Drawn(r)
    <3>1. r.spent + One(FALSE) <= r.attempt + One(r.bootstrap)
      BY <1>1, <1>4, BudgetLeft DEF RealtimeInv, Sound
    <3> QED BY <1>4, <3>1, TimerShape DEF Drawn
  <2> QED BY <1>1, <1>4, <1>6, <1>7, <2>1, <2>2, <2>3, QuietIsSound DEF RealtimeInv
<1> QED BY <1>9, <1>10

\* An answer to an earlier attempt is dropped.
LEMMA StaleTicketDropped ==
  ASSUME RealtimeInv, NEW t \in rt.tickets, ~t.fresh, env' = env,
         rt' = [rt EXCEPT !.tickets = @ \ {t}]
  PROVE  RealtimeInv'
<1>1. rt \in Managers /\ env \in Envs
  BY DEF RealtimeInv, Sound
<1>2. PICK r : r = [rt EXCEPT !.tickets = @ \ {t}]
  OBVIOUS
<1>3. /\ SameBudget(r, rt) /\ r.tickets = rt.tickets \ {t} /\ r.sockets = rt.sockets
      /\ r.stopped = rt.stopped /\ r.beat = rt.beat
  BY <1>1, <1>2 DEF Managers, SameBudget
<1>4. FreshTickets(r) = FreshTickets(rt) /\ FreshSockets(r) = FreshSockets(rt)
      /\ LiveSockets(r) = LiveSockets(rt)
  BY <1>3 DEF FreshTickets, FreshSockets, LiveSockets
<1>5. Present(env, r) /\ Ours(r) /\ Single(r) /\ Drawn(r) /\ Watched(r)
  BY <1>3, <1>4 DEF RealtimeInv, Sound, SameBudget, Present, Ours, Single, Drawn, Watched, Tended
<1> QED BY <1>1, <1>2, <1>3, <1>5 DEF RealtimeInv, Sound, SameBudget

\* A ticket of the present attempt leaves nothing else of it.
LEMMA TicketUsed ==
  ASSUME RealtimeInv, NEW t \in rt.tickets, t.fresh = TRUE,
         NEW r, r = [rt EXCEPT !.tickets = @ \ {t}],
         NEW q, q = [r EXCEPT !.connecting = FALSE]
  PROVE  Over(env, r, t.owner) /\ Over(env, q, t.owner) /\ Without(r, rt, t)
<1>1. rt \in Managers /\ t \notin rt.sockets
  BY DEF RealtimeInv, Sound, Managers, TicketSet, SocketType, Kinds
<1>2. SameBudget(r, rt) /\ r.tickets = rt.tickets \ {t} /\ r.sockets = rt.sockets
  BY <1>1 DEF Managers, SameBudget
<1>3. SameBudget(q, rt) /\ q.tickets = rt.tickets \ {t} /\ q.sockets = rt.sockets
  BY <1>2 DEF Managers, SameBudget
<1>4. Without(r, rt, t) /\ Without(q, rt, t)
  BY <1>1, <1>2, <1>3 DEF Without
<1>5. Sound(env, rt) /\ env \in Envs
  BY DEF RealtimeInv
<1> QED BY <1>4, <1>5, AttemptGone

LEMMA TicketFailsInv ==
  ASSUME RealtimeInv, NEW t \in rt.tickets, NEW kind \in {"hardAuth", "throttled", "transient"},
         TicketFails(t, kind)
  PROVE  RealtimeInv'
<1>1. PICK r : r = [rt EXCEPT !.tickets = @ \ {t}]
  OBVIOUS
<1>2. PICK q : q = [r EXCEPT !.connecting = FALSE]
  OBVIOUS
<1>3. (AttemptCurrent(env, rt, t) <=> t.fresh) /\ env \in Envs /\ env' = env
  BY CurrentIsFresh DEF RealtimeInv, TicketFails
<1>4. t.kind \in Kinds /\ t.fresh \in BOOLEAN
  BY DEF RealtimeInv, Sound, Managers, TicketSet
<1>5. CASE ~t.fresh
  BY <1>1, <1>3, <1>5, StaleTicketDropped DEF TicketFails
<1>6. CASE t.fresh
  <2>0. Over(env, q, t.owner)
    BY <1>1, <1>2, <1>4, <1>6, TicketUsed
  <2>1. /\ q \in Managers /\ Quiet(q) /\ Present(env, q) /\ q.timer = NoTimer /\ Drawn(q)
        /\ CanUse(env, q, t.owner) /\ q.owner = t.owner
        /\ t.owner = env.owner /\ BlockReason(env) = "none" /\ ~q.destroyed
    BY <2>0 DEF Over
  <2>2. \/ rt' = HardStop(q, t.owner)
        \/ rt' = ScheduleRetry(env, q, t.owner, t.kind, FALSE)
        \/ rt' = ScheduleReconnect(env, q, t.owner, t.kind)
    BY <1>1, <1>2, <1>3, <1>6 DEF TicketFails
  <2>3. q.spent + One(FALSE) <= q.attempt + One(q.bootstrap)
    BY <2>1, BudgetLeft
  <2> QED BY <1>3, <1>4, <2>1, <2>2, <2>3, HardStopSound, RetrySound, ReconnectSound DEF RealtimeInv
<1> QED BY <1>5, <1>6

LEMMA TicketArrivesInv ==
  ASSUME RealtimeInv, NEW t \in rt.tickets, NEW opens \in BOOLEAN, TicketArrives(t, opens)
  PROVE  RealtimeInv'
<1>1. PICK r : r = [rt EXCEPT !.tickets = @ \ {t}]
  OBVIOUS
<1>2. PICK q : q = [r EXCEPT !.connecting = FALSE]
  OBVIOUS
<1>3. (AttemptCurrent(env, rt, t) <=> t.fresh) /\ env \in Envs /\ env' = env
  BY CurrentIsFresh DEF RealtimeInv, TicketArrives
<1>4. CASE ~t.fresh
  BY <1>1, <1>3, <1>4, StaleTicketDropped DEF TicketArrives
<1>5. CASE t.fresh
  <2>4. t \in TicketSet /\ t.fresh = TRUE
    BY <1>5 DEF RealtimeInv, Sound, Managers, TicketSet
  <2>5. Over(env, r, t.owner) /\ Over(env, q, t.owner) /\ Without(r, rt, t)
    BY <1>1, <1>2, <2>4, TicketUsed
  <2>1. /\ SameBudget(r, rt)
        /\ q \in Managers /\ Quiet(q) /\ Present(env, q) /\ q.timer = NoTimer /\ Drawn(q)
        /\ CanUse(env, q, t.owner) /\ q.owner = t.owner
    BY <2>5 DEF Over, Without
  <2>2. CASE ~opens
    <3>1. rt' = ScheduleReconnect(env, q, t.owner, "issue")
      BY <1>1, <1>2, <1>3, <1>5, <2>2 DEF TicketArrives
    <3> QED BY <1>3, <2>1, <3>1, ReconnectSound DEF RealtimeInv, Kinds
  <2>3. CASE opens
    <3> DEFINE S == {[s EXCEPT !.held = FALSE, !.openTimer = FALSE] : s \in r.sockets}
               n == NewSocket(t)
               p == [r EXCEPT !.sockets = S \cup {n}]
    <3>1. rt' = p
      BY <1>1, <1>3, <1>5, <2>3 DEF TicketArrives
    <3>2. r \in Managers /\ r.sockets \in SUBSET SocketType /\ t \in TicketSet
          /\ t.fresh = TRUE
      <4>1. r \in Managers
        BY <2>1 DEF SameBudget
      <4>2. r.sockets \in SUBSET SocketType
        BY <4>1 DEF Managers
      <4> QED BY <2>4, <4>1, <4>2
    <3>3. FreshTickets(r) = {} /\ FreshSockets(r) = {} /\ LiveSockets(r) = {}
      BY <2>5 DEF Over, Quiet
    <3>4. S \in SUBSET SocketType /\ \A z \in S : ~z.fresh /\ z.state = "closed"
      <4>1. \A s \in r.sockets : ~s.fresh /\ s.state = "closed" /\ s \in SocketType
        BY <3>2, <3>3 DEF FreshSockets, LiveSockets, SocketType
      <4>2. \A z \in S : \E s \in r.sockets : z = [s EXCEPT !.held = FALSE, !.openTimer = FALSE]
        OBVIOUS
      <4> HIDE DEF S
      <4>3. ASSUME NEW z \in S PROVE z \in SocketType /\ ~z.fresh /\ z.state = "closed"
        <5>1. PICK s \in r.sockets : z = [s EXCEPT !.held = FALSE, !.openTimer = FALSE]
          BY <4>2
        <5> QED BY <4>1, <5>1 DEF SocketType
      <4> QED BY <4>3
    <3>5. /\ n \in SocketType /\ n.fresh = TRUE /\ n.held = TRUE /\ n.state = "connecting"
          /\ n.owner = t.owner
      BY <3>2 DEF NewSocket, SocketType, TicketSet
    <3> HIDE DEF S, n
    <3>6. /\ p \in Managers /\ SameBudget(p, rt) /\ p.sockets = S \cup {n} /\ p.tickets = r.tickets
      BY <2>1, <3>2, <3>4, <3>5 DEF Managers, SameBudget
    <3> HIDE DEF p
    <3>7. FreshTickets(p) = {} /\ FreshSockets(p) = {n} /\ LiveSockets(p) = {n}
      BY <3>3, <3>4, <3>5, <3>6 DEF FreshTickets, FreshSockets, LiveSockets
    <3>8. p.owner = t.owner /\ p.hard # p.owner /\ p.timer = NoTimer
      BY <2>5, <3>6 DEF Over, CanUse, SameBudget, Without
    <3>9. Ours(p) /\ Single(p) /\ Watched(p)
      BY <3>5, <3>7, <3>8 DEF Ours, Single, Watched, Tended
    <3>10. Present(env, p) /\ Drawn(p)
      BY <3>6 DEF RealtimeInv, Sound, Present, Drawn, SameBudget
    <3> QED BY <1>3, <3>1, <3>6, <3>9, <3>10 DEF RealtimeInv, Sound
  <2> QED BY <2>2, <2>3
<1> QED BY <1>4, <1>5

-----------------------------------------------------------------------------
(* Socket events.                                                          *)

\* Beside the socket of the present attempt nothing of it is left.
LEMMA OthersAreOver ==
  ASSUME RealtimeInv, NEW s \in rt.sockets
  PROVE  /\ s \in SocketType /\ s \notin rt.tickets
         /\ ~s.fresh => s.state = "closed"
         /\ s.fresh => /\ FreshTickets(rt) = {} /\ rt.timer = NoTimer
                       /\ \A z \in rt.sockets \ {s} : z.fresh = FALSE /\ z.state = "closed"
<1>1. rt.sockets \in SUBSET SocketType /\ rt.tickets \in SUBSET TicketSet
  BY DEF RealtimeInv, Sound, Managers
<1>2. \A z \in rt.sockets : z.fresh \in BOOLEAN /\ z.state \in {"connecting", "open", "closed"}
  BY <1>1 DEF SocketType
<1>3. \A z \in rt.sockets : ~z.fresh => z.state = "closed"
  BY <1>2 DEF RealtimeInv, Sound, Ours, LiveSockets
<1>4. s.fresh => s \in FreshSockets(rt)
  BY DEF FreshSockets
<1>5. s.fresh => \A z \in rt.sockets \ {s} : z.fresh = FALSE
  BY <1>2, <1>4 DEF RealtimeInv, Sound, Single, FreshSockets
<1>6. s.fresh => FreshTickets(rt) = {} /\ rt.timer = NoTimer
  BY <1>4 DEF RealtimeInv, Sound, Single
<1>7. s \in SocketType /\ s \notin rt.tickets
  BY <1>1 DEF SocketType, TicketSet, Kinds
<1> QED BY <1>3, <1>5, <1>6, <1>7

\* A change of a socket of an earlier attempt changes nothing.
LEMMA StaleSocketChanges ==
  ASSUME RealtimeInv, NEW s \in rt.sockets, s.fresh = FALSE,
         NEW q \in SocketType, q.fresh = FALSE, q.state = "closed",
         rt' = [rt EXCEPT !.sockets = (@ \ {s}) \cup {q}], env' = env
  PROVE  RealtimeInv'
<1>1. rt \in Managers /\ env \in Envs /\ rt.sockets \in SUBSET SocketType
  BY DEF RealtimeInv, Sound, Managers
<1>2. PICK p : p = [rt EXCEPT !.sockets = (@ \ {s}) \cup {q}]
  OBVIOUS
<1>3. /\ SameBudget(p, rt) /\ p.tickets = rt.tickets /\ p.sockets = (rt.sockets \ {s}) \cup {q}
      /\ p.stopped = rt.stopped /\ p.beat = rt.beat
  BY <1>1, <1>2 DEF Managers, SameBudget
<1>4. s.state = "closed"
  BY OthersAreOver
<1>5. FreshTickets(p) = FreshTickets(rt) /\ FreshSockets(p) = FreshSockets(rt)
      /\ LiveSockets(p) = LiveSockets(rt)
  BY <1>3, <1>4 DEF FreshTickets, FreshSockets, LiveSockets
<1>6. Present(env, p) /\ Ours(p) /\ Single(p) /\ Drawn(p) /\ Watched(p)
  BY <1>3, <1>5 DEF RealtimeInv, Sound, SameBudget, Present, Ours, Single, Drawn, Watched, Tended
<1> QED BY <1>1, <1>2, <1>3, <1>6 DEF RealtimeInv, Sound, SameBudget

\* The socket of the present attempt goes on.
LEMMA FreshSocketChanges ==
  ASSUME RealtimeInv, NEW s \in rt.sockets, s.fresh = TRUE, env' = env,
         NEW p, rt' = p, p \in Managers, p.owner = rt.owner, p.hard = rt.hard,
         p.destroyed = rt.destroyed, p.timer = NoTimer, p.tickets = rt.tickets,
         NEW q \in SocketType, q.fresh = TRUE, q.owner = s.owner, q.held = s.held,
         NEW O, p.sockets = O \cup {q}, \A z \in O : z.fresh = FALSE /\ z.state = "closed",
         Drawn(p), Watched(p)
  PROVE  RealtimeInv'
<1>1. s \in FreshSockets(rt) /\ FreshTickets(rt) = {}
  BY OthersAreOver DEF FreshSockets
<1>2. s.owner = rt.owner /\ rt.hard # rt.owner /\ s.held
  BY <1>1 DEF RealtimeInv, Sound, Ours
<1>3. /\ FreshTickets(p) = {} /\ FreshSockets(p) = {q}
      /\ LiveSockets(p) \subseteq {q}
  BY <1>1 DEF FreshTickets, FreshSockets, LiveSockets
<1>4. Ours(p) /\ Single(p)
  BY <1>2, <1>3 DEF Ours, Single
<1>5. Present(env, p)
  BY DEF RealtimeInv, Sound, Present
<1> QED BY <1>4, <1>5 DEF RealtimeInv, Sound

\* The socket of the present attempt fails: it goes, and one try follows.
LEMMA SocketGone ==
  ASSUME RealtimeInv, NEW s \in rt.sockets, s.fresh = TRUE,
         NEW p, SameBudget(p, rt), p.tickets = rt.tickets, p.sockets \subseteq rt.sockets \ {s}
  PROVE  Over(env, p, s.owner)
<1>1. s \notin rt.tickets
  BY OthersAreOver
<1>2. Without(p, rt, s)
  BY <1>1 DEF Without
<1>3. Sound(env, rt) /\ env \in Envs
  BY DEF RealtimeInv
<1> QED BY <1>2, <1>3, AttemptGone

LEMMA FailSound ==
  ASSUME RealtimeInv, NEW s \in rt.sockets, s.fresh = TRUE,
         NEW r, SameBudget(r, rt), r.tickets = rt.tickets,
         NEW z, r.sockets \ {z} \subseteq rt.sockets \ {s}, z.owner = s.owner
  PROVE  Sound(env, FailSocket(env, r, z))
<1>1. PICK p : p = StopHeartbeat([Detach(r, z) EXCEPT !.connecting = FALSE])
  OBVIOUS
<1>2. PICK S : S = r.sockets \ {z}
  OBVIOUS
<1>3. r \in Managers /\ S \in SUBSET SocketType
  BY <1>2 DEF SameBudget, Managers
<1>4. p = [r EXCEPT !.sockets = S, !.connecting = FALSE, !.beat = "off"]
  BY <1>1, <1>2, <1>3 DEF StopHeartbeat, Detach, Managers
<1>5. SameBudget(p, rt) /\ p.tickets = rt.tickets /\ p.sockets = S
  BY <1>3, <1>4 DEF Managers, SameBudget
<1>6. Over(env, p, s.owner)
  BY <1>2, <1>5, SocketGone
<1>7. FailSocket(env, r, z) = Recover(env, p, s.owner, "issue")
  BY <1>1 DEF FailSocket
<1>8. env \in Envs /\ "issue" \in Kinds
  BY DEF RealtimeInv, Kinds
<1> QED BY <1>6, <1>7, <1>8, RecoverSound DEF Over

LEMMA FailsAtOnce ==
  ASSUME RealtimeInv, NEW s \in rt.sockets, s.fresh = TRUE
  PROVE  Sound(env, FailSocket(env, rt, s))
<1>1. SameBudget(rt, rt)
  BY DEF RealtimeInv, Sound, SameBudget
<1> QED BY <1>1, FailSound

LEMMA OpenTimeoutInv ==
  ASSUME RealtimeInv, NEW s \in rt.sockets, OpenTimeout(s)
  PROVE  RealtimeInv'
<1>1. PICK q : q = [s EXCEPT !.openTimer = FALSE]
  OBVIOUS
<1>2. PICK r : r = [rt EXCEPT !.sockets = (@ \ {s}) \cup {q}]
  OBVIOUS
<1>3. /\ env \in Envs /\ env' = env /\ rt \in Managers
      /\ (rt' = FailSocket(env, r, q) /\ Active(env, rt, s)) \/ rt' = r
  BY <1>1, <1>2 DEF OpenTimeout, RealtimeInv, Sound
<1>4. Active(env, rt, s) <=> s.fresh
  BY CurrentIsFresh DEF RealtimeInv
<1>5. s \in SocketType /\ s.fresh \in BOOLEAN
  BY OthersAreOver DEF SocketType
<1>6. /\ q \in SocketType /\ q.fresh = s.fresh /\ q.owner = s.owner /\ q.held = s.held
      /\ q.state = s.state /\ q.errorTimer = s.errorTimer
  BY <1>1, <1>5 DEF SocketType
<1>7. /\ SameBudget(r, rt) /\ r.tickets = rt.tickets /\ r.stopped = rt.stopped
      /\ r.beat = rt.beat /\ r.sockets = (rt.sockets \ {s}) \cup {q}
  <2>1. (rt.sockets \ {s}) \cup {q} \in SUBSET SocketType
    BY <1>3, <1>6 DEF Managers
  <2>2. PICK S \in SUBSET SocketType : S = (rt.sockets \ {s}) \cup {q}
    BY <2>1
  <2>3. r = [rt EXCEPT !.sockets = S]
    BY <1>2, <2>2
  <2> QED BY <1>3, <2>2, <2>3 DEF Managers, SameBudget
<1>8. CASE ~s.fresh
  <2>1. s.state = "closed"
    BY <1>8, OthersAreOver
  <2> QED BY <1>2, <1>3, <1>4, <1>5, <1>6, <1>8, <2>1, StaleSocketChanges
<1>9. CASE s.fresh /\ rt' = FailSocket(env, r, q)
  <2>1. r.sockets \ {q} \subseteq rt.sockets \ {s}
    BY <1>7
  <2> QED BY <1>3, <1>5, <1>6, <1>7, <1>9, <2>1, FailSound DEF RealtimeInv
<1>10. CASE s.fresh /\ rt' = r
  <2>1. /\ rt.timer = NoTimer /\ FreshTickets(rt) = {}
        /\ \A z \in rt.sockets \ {s} : z.fresh = FALSE /\ z.state = "closed"
    BY <1>10, OthersAreOver
  <2>2. FreshSockets(rt) = {s} /\ FreshSockets(r) = {q} /\ FreshTickets(r) = {}
    BY <1>6, <1>7, <1>10, <2>1 DEF FreshSockets, FreshTickets
  <2>3. Drawn(r) /\ Watched(r)
    BY <1>6, <1>7, <2>1, <2>2 DEF RealtimeInv, Sound, SameBudget, Drawn, Watched, Tended
  <2>4. /\ r \in Managers /\ r.owner = rt.owner /\ r.hard = rt.hard
        /\ r.destroyed = rt.destroyed /\ r.timer = NoTimer
    BY <1>7, <2>1 DEF SameBudget
  <2>5. s.fresh = TRUE /\ q.fresh = TRUE /\ rt' = r
    BY <1>5, <1>6, <1>10
  <2> QED BY <1>3, <1>6, <1>7, <2>1, <2>3, <2>4, <2>5, FreshSocketChanges
<1> QED BY <1>3, <1>4, <1>8, <1>9, <1>10

LEMMA ErrorCloseTimeoutInv ==
  ASSUME RealtimeInv, NEW s \in rt.sockets, ErrorCloseTimeout(s)
  PROVE  RealtimeInv'
<1>1. PICK q : q = [s EXCEPT !.errorTimer = FALSE]
  OBVIOUS
<1>2. PICK r : r = [rt EXCEPT !.sockets = (@ \ {s}) \cup {q}]
  OBVIOUS
<1>3. /\ env \in Envs /\ env' = env /\ rt \in Managers
      /\ rt' = IF Active(env, rt, s) THEN FailSocket(env, r, q) ELSE r
  BY <1>1, <1>2 DEF ErrorCloseTimeout, RealtimeInv, Sound
<1>4. Active(env, rt, s) <=> s.fresh
  BY CurrentIsFresh DEF RealtimeInv
<1>5. s \in SocketType /\ s.fresh \in BOOLEAN
  BY OthersAreOver DEF SocketType
<1>6. q \in SocketType /\ q.fresh = s.fresh /\ q.owner = s.owner /\ q.state = s.state
  BY <1>1, <1>5 DEF SocketType
<1>7. SameBudget(r, rt) /\ r.tickets = rt.tickets /\ r.sockets \ {q} \subseteq rt.sockets \ {s}
  <2>1. (rt.sockets \ {s}) \cup {q} \in SUBSET SocketType
    BY <1>3, <1>6 DEF Managers
  <2>2. PICK S \in SUBSET SocketType : S = (rt.sockets \ {s}) \cup {q}
    BY <2>1
  <2>3. r = [rt EXCEPT !.sockets = S]
    BY <1>2, <2>2
  <2> QED BY <1>3, <2>2, <2>3 DEF Managers, SameBudget
<1>8. CASE ~s.fresh
  <2>1. s.state = "closed"
    BY <1>8, OthersAreOver
  <2> QED BY <1>2, <1>3, <1>4, <1>5, <1>6, <1>8, <2>1, StaleSocketChanges
<1>9. CASE s.fresh
  BY <1>3, <1>4, <1>5, <1>6, <1>7, <1>9, FailSound DEF RealtimeInv
<1> QED BY <1>8, <1>9

LEMMA SocketOpensInv ==
  ASSUME RealtimeInv, NEW s \in rt.sockets, SocketOpens(s)
  PROVE  RealtimeInv'
<1>1. env \in Envs /\ env' = env /\ rt \in Managers /\ s.state = "connecting"
  BY DEF SocketOpens, RealtimeInv, Sound
<1>2. s \in SocketType /\ s.fresh = TRUE
  BY <1>1, OthersAreOver DEF SocketType
<1>3. Active(env, rt, s)
  BY <1>2, CurrentIsFresh DEF RealtimeInv
<1>4. PICK q : q = [s EXCEPT !.state = "open", !.openTimer = FALSE, !.errorTimer = FALSE]
  OBVIOUS
<1>5. /\ q \in SocketType /\ q.fresh = TRUE /\ q.owner = s.owner /\ q.held = s.held
      /\ q.state = "open"
  BY <1>2, <1>4 DEF SocketType
<1>6. PICK S \in SUBSET SocketType : S = (rt.sockets \ {s}) \cup {q}
  BY <1>1, <1>5 DEF Managers
<1>7. PICK p : p = [rt EXCEPT !.sockets = S, !.connecting = FALSE, !.timer = NoTimer,
                              !.beat = "idle", !.status = "connected", !.stopped = "none",
                              !.opened = TRUE]
  OBVIOUS
<1>8. rt' = p
  BY <1>3, <1>4, <1>6, <1>7 DEF SocketOpens
<1>9. /\ p \in Managers /\ p.owner = rt.owner /\ p.hard = rt.hard /\ p.destroyed = rt.destroyed
      /\ p.timer = NoTimer /\ p.tickets = rt.tickets /\ p.sockets = S /\ p.beat = "idle"
      /\ p.spent = rt.spent /\ p.attempt = rt.attempt /\ p.bootstrap = rt.bootstrap
  BY <1>1, <1>7, TimerShape DEF Managers
<1>10. rt.timer = NoTimer /\ \A z \in rt.sockets \ {s} : z.fresh = FALSE /\ z.state = "closed"
  BY <1>2, OthersAreOver
<1>11. Drawn(p)
  BY <1>9, <1>10 DEF RealtimeInv, Sound, Drawn
<1>12. Watched(p)
  BY <1>5, <1>6, <1>9 DEF Watched, Tended, FreshSockets
<1> QED BY <1>1, <1>2, <1>5, <1>6, <1>8, <1>9, <1>10, <1>11, <1>12, FreshSocketChanges

LEMMA PongInv ==
  ASSUME RealtimeInv, NEW s \in rt.sockets, Pong(s)
  PROVE  RealtimeInv'
<1>1. env \in Envs /\ env' = env /\ rt \in Managers /\ s.state = "open" /\ Active(env, rt, s)
  BY DEF Pong, RealtimeInv, Sound
<1>2. s \in SocketType /\ s.fresh = TRUE
  BY <1>1, OthersAreOver DEF SocketType
<1>3. PICK healthy \in BOOLEAN : healthy = (~s.stable /\ rt.beat = "awaiting")
  OBVIOUS
<1>4. PICK stable \in BOOLEAN : stable = (s.stable \/ healthy)
  OBVIOUS
<1>5. PICK q : q = [s EXCEPT !.stable = stable]
  OBVIOUS
<1>6. /\ q \in SocketType /\ q.fresh = TRUE /\ q.owner = s.owner /\ q.held = s.held
      /\ q.state = s.state /\ q.errorTimer = s.errorTimer
  BY <1>2, <1>5 DEF SocketType
<1>7. PICK S \in SUBSET SocketType : S = (rt.sockets \ {s}) \cup {q}
  BY <1>1, <1>6 DEF Managers
<1>8. PICK beat \in {"off", "idle", "awaiting"} :
        beat = IF rt.beat = "off" THEN rt.beat ELSE "idle"
  BY <1>1 DEF Managers
<1>9. PICK n \in 0..MaxAttempts : n = IF healthy THEN 0 ELSE rt.attempt
  BY <1>1, RealtimeBounds DEF Managers
<1>10. PICK b \in BOOLEAN : b = IF healthy THEN FALSE ELSE rt.bootstrap
  BY <1>1 DEF Managers
<1>11. PICK k \in Nat : k = IF healthy THEN 0 ELSE rt.spent
  BY <1>1 DEF Managers
<1>12. PICK p : p = [rt EXCEPT !.beat = beat, !.sockets = S, !.attempt = n,
                               !.bootstrap = b, !.spent = k]
  OBVIOUS
<1>13. rt' = p
  BY <1>3, <1>4, <1>5, <1>7, <1>8, <1>9, <1>10, <1>11, <1>12 DEF Pong
<1>14. /\ p \in Managers /\ p.owner = rt.owner /\ p.hard = rt.hard /\ p.destroyed = rt.destroyed
       /\ p.timer = rt.timer /\ p.tickets = rt.tickets /\ p.sockets = S /\ p.beat = beat
       /\ p.spent = k /\ p.attempt = n /\ p.bootstrap = b /\ p.stopped = rt.stopped
  BY <1>1, <1>12 DEF Managers
<1>15. rt.timer = NoTimer /\ \A z \in rt.sockets \ {s} : z.fresh = FALSE /\ z.state = "closed"
  BY <1>2, OthersAreOver
<1>16. FreshSockets(rt) = {s} /\ FreshSockets(p) = {q} /\ FreshTickets(rt) = {}
  BY <1>2, <1>6, <1>7, <1>14, <1>15, OthersAreOver DEF FreshSockets
<1>17. Drawn(p)
  <2>1. CASE healthy
    <3>1. p.spent = 0 /\ p.attempt = 0 /\ p.timer.counted = FALSE
      BY <2>1, <1>9, <1>11, <1>14, <1>15, TimerShape
    <3> QED BY <3>1 DEF Drawn, One
  <2>2. CASE ~healthy
    BY <2>2, <1>9, <1>10, <1>11, <1>14 DEF RealtimeInv, Sound, Drawn
  <2> QED BY <2>1, <2>2
<1>18. Watched(p)
  BY <1>6, <1>8, <1>14, <1>15, <1>16 DEF RealtimeInv, Sound, Watched, Tended
<1>19. p.timer = NoTimer /\ p.sockets = (rt.sockets \ {s}) \cup {q}
  BY <1>7, <1>14, <1>15
<1> QED BY <1>1, <1>2, <1>6, <1>13, <1>14, <1>15, <1>17, <1>18, <1>19, FreshSocketChanges

\* The socket goes; what follows is one try, or the end for these credentials.
LEMMA SocketDropped ==
  ASSUME RealtimeInv, NEW s \in rt.sockets, s.fresh = TRUE,
         NEW p, \/ p = StopHeartbeat(Detach(rt, s))
                \/ p = StopHeartbeat([Detach(rt, s) EXCEPT !.connecting = FALSE])
  PROVE  /\ \A kind \in Kinds : Sound(env, Recover(env, p, s.owner, kind))
         /\ Sound(env, HardStop(p, s.owner))
<1>1. rt \in Managers /\ env \in Envs
  BY DEF RealtimeInv, Sound
<1>2. PICK S \in SUBSET SocketType : S = rt.sockets \ {s}
  BY <1>1 DEF Managers
<1>3. PICK c \in BOOLEAN : p = [rt EXCEPT !.sockets = S, !.connecting = c, !.beat = "off"]
  <2>1. CASE p = StopHeartbeat(Detach(rt, s))
    <3>1. p = [rt EXCEPT !.sockets = S, !.connecting = rt.connecting, !.beat = "off"]
      BY <1>1, <1>2, <2>1 DEF StopHeartbeat, Detach, Managers
    <3>2. rt.connecting \in BOOLEAN
      BY <1>1 DEF Managers
    <3> QED BY <3>1, <3>2
  <2>2. CASE p = StopHeartbeat([Detach(rt, s) EXCEPT !.connecting = FALSE])
    <3>1. p = [rt EXCEPT !.sockets = S, !.connecting = FALSE, !.beat = "off"]
      BY <1>1, <1>2, <2>2 DEF StopHeartbeat, Detach, Managers
    <3> QED BY <3>1
  <2> QED BY <2>1, <2>2
<1>4. SameBudget(p, rt) /\ p.tickets = rt.tickets /\ p.sockets \subseteq rt.sockets \ {s}
  BY <1>1, <1>2, <1>3 DEF Managers, SameBudget
<1>5. Over(env, p, s.owner)
  BY <1>4, SocketGone
<1> QED BY <1>1, <1>5, RecoverSound, HardStopSound DEF Over

LEMMA AuthErrorInv ==
  ASSUME RealtimeInv, NEW s \in rt.sockets, NEW expired \in BOOLEAN, AuthError(s, expired)
  PROVE  RealtimeInv'
<1>1. s.fresh = TRUE
  BY CurrentIsFresh, OthersAreOver DEF RealtimeInv, AuthError, SocketType
<1>2. PICK p : p = StopHeartbeat(Detach(rt, s))
  OBVIOUS
<1>3. /\ \A kind \in Kinds : Sound(env, Recover(env, p, s.owner, kind))
      /\ Sound(env, HardStop(p, s.owner))
  BY <1>1, <1>2, SocketDropped
<1>4. rt' = Recover(env, p, s.owner, "refresh") \/ rt' = HardStop(p, s.owner)
  BY <1>2 DEF AuthError
<1> QED BY <1>3, <1>4 DEF RealtimeInv, AuthError, Kinds

LEMMA PingInv ==
  ASSUME RealtimeInv, NEW s \in rt.sockets, NEW sent \in BOOLEAN, Ping(s, sent)
  PROVE  RealtimeInv'
<1>1. s.fresh = TRUE /\ s \in SocketType
  BY CurrentIsFresh, OthersAreOver DEF RealtimeInv, Ping, SocketType
<1>2. CASE ~sent
  BY <1>1, <1>2, FailsAtOnce DEF Ping, RealtimeInv
<1>3. CASE sent
  <2>1. PICK p : p = [rt EXCEPT !.beat = "awaiting"]
    OBVIOUS
  <2>2. rt \in Managers /\ rt' = p /\ env' = env /\ env \in Envs
    BY <1>3, <2>1 DEF Ping, RealtimeInv, Sound
  <2>3. /\ SameBudget(p, rt) /\ p.tickets = rt.tickets /\ p.sockets = rt.sockets
        /\ p.stopped = rt.stopped /\ p.beat = "awaiting"
    BY <2>1, <2>2 DEF Managers, SameBudget
  <2>4. FreshTickets(p) = FreshTickets(rt) /\ FreshSockets(p) = FreshSockets(rt)
        /\ LiveSockets(p) = LiveSockets(rt)
    BY <2>3 DEF FreshTickets, FreshSockets, LiveSockets
  <2>5. Present(env, p) /\ Ours(p) /\ Single(p) /\ Drawn(p) /\ Watched(p)
    BY <2>3, <2>4 DEF RealtimeInv, Sound, SameBudget, Present, Ours, Single, Drawn, Watched, Tended
  <2> QED BY <2>2, <2>3, <2>5 DEF RealtimeInv, Sound, SameBudget
<1> QED BY <1>2, <1>3

LEMMA HeartbeatInv ==
  ASSUME RealtimeInv, NEW s \in rt.sockets, HeartbeatTimeout(s) \/ SendFails(s)
  PROVE  RealtimeInv'
<1>1. s.fresh \in BOOLEAN /\ (Active(env, rt, s) <=> s.fresh)
  BY CurrentIsFresh, OthersAreOver DEF RealtimeInv, SocketType
<1>2. \/ Active(env, rt, s) /\ rt' = FailSocket(env, rt, s) /\ env' = env
      \/ rt' = rt /\ env' = env
  BY DEF HeartbeatTimeout, SendFails
<1>3. CASE rt' = rt /\ env' = env
  BY <1>3 DEF RealtimeInv
<1>4. CASE Active(env, rt, s) /\ rt' = FailSocket(env, rt, s) /\ env' = env
  BY <1>1, <1>4, FailsAtOnce DEF RealtimeInv
<1> QED BY <1>2, <1>3, <1>4

LEMMA SocketClosesInv ==
  ASSUME RealtimeInv, NEW s \in rt.sockets, NEW code \in {"expired", "refused", "other"},
         SocketCloses(s, code)
  PROVE  RealtimeInv'
<1>1. s \in SocketType /\ s.fresh \in BOOLEAN /\ (Active(env, rt, s) <=> s.fresh)
  BY CurrentIsFresh, OthersAreOver DEF RealtimeInv, SocketType
<1>2. CASE ~s.fresh
  <2>1. PICK q : q = [s EXCEPT !.state = "closed", !.openTimer = FALSE, !.errorTimer = FALSE]
    OBVIOUS
  <2>2. q \in SocketType /\ q.fresh = FALSE /\ q.state = "closed" /\ s.fresh = FALSE
    BY <1>1, <1>2, <2>1 DEF SocketType
  <2>3. rt' = [rt EXCEPT !.sockets = (@ \ {s}) \cup {q}] /\ env' = env
    BY <1>1, <1>2, <2>1 DEF SocketCloses
  <2> QED BY <2>2, <2>3, StaleSocketChanges
<1>3. CASE s.fresh
  <2>1. PICK p : p = StopHeartbeat([Detach(rt, s) EXCEPT !.connecting = FALSE])
    OBVIOUS
  <2>2. /\ \A kind \in Kinds : Sound(env, Recover(env, p, s.owner, kind))
        /\ Sound(env, HardStop(p, s.owner))
    BY <1>1, <1>3, <2>1, SocketDropped
  <2>3. /\ \/ rt' = Recover(env, p, s.owner, "refresh") \/ rt' = HardStop(p, s.owner)
           \/ rt' = Recover(env, p, s.owner, "issue")
        /\ env' = env
    BY <1>1, <1>3, <2>1 DEF SocketCloses
  <2> QED BY <2>2, <2>3 DEF RealtimeInv, Kinds
<1> QED BY <1>1, <1>2, <1>3

LEMMA SocketFailsInv ==
  ASSUME RealtimeInv, NEW s \in rt.sockets, NEW state \in {s.state, "closed"},
         SocketFails(s, state)
  PROVE  RealtimeInv'
<1>1. s \in SocketType /\ s.fresh \in BOOLEAN /\ (Active(env, rt, s) <=> s.fresh)
  BY CurrentIsFresh, OthersAreOver DEF RealtimeInv, SocketType
<1>2. state \in {"connecting", "open", "closed"} /\ (s.state = "closed" => state = "closed")
  BY <1>1 DEF SocketType
<1>3. CASE ~s.fresh
  <2>1. PICK q : q = [s EXCEPT !.state = state]
    OBVIOUS
  <2>2. s.state = "closed"
    BY <1>3, OthersAreOver
  <2>3. q \in SocketType /\ q.fresh = FALSE /\ q.state = "closed" /\ s.fresh = FALSE
    BY <1>1, <1>2, <1>3, <2>1, <2>2 DEF SocketType
  <2>4. rt' = [rt EXCEPT !.sockets = (@ \ {s}) \cup {q}] /\ env' = env
    BY <1>1, <1>3, <2>1 DEF SocketFails
  <2> QED BY <2>3, <2>4, StaleSocketChanges
<1>4. CASE s.fresh
  <2>1. PICK q : q = [s EXCEPT !.state = state, !.openTimer = FALSE, !.errorTimer = TRUE]
    OBVIOUS
  <2>2. /\ q \in SocketType /\ q.fresh = TRUE /\ q.owner = s.owner /\ q.held = s.held
        /\ q.errorTimer = TRUE /\ s.fresh = TRUE
    BY <1>1, <1>2, <1>4, <2>1 DEF SocketType
  <2>3. PICK O : O = {[x EXCEPT !.errorTimer = FALSE] : x \in rt.sockets \ {s}}
    OBVIOUS
  <2>4. rt.timer = NoTimer /\ \A z \in rt.sockets \ {s} : z.fresh = FALSE /\ z.state = "closed"
    BY <1>4, OthersAreOver
  <2>5. rt \in Managers /\ rt.sockets \in SUBSET SocketType /\ env' = env
    BY DEF RealtimeInv, Sound, Managers, SocketFails
  <2>6. ASSUME NEW z \in O PROVE z \in SocketType /\ z.fresh = FALSE /\ z.state = "closed"
    <3>1. PICK x \in rt.sockets \ {s} : z = [x EXCEPT !.errorTimer = FALSE]
      BY <2>3
    <3> QED BY <2>4, <2>5, <3>1 DEF SocketType
  <2>7. PICK S \in SUBSET SocketType : S = O \cup {q}
    BY <2>2, <2>6
  <2>8. PICK status \in {"connecting", "reconnecting"} :
          status = IF rt.opened THEN "reconnecting" ELSE "connecting"
    OBVIOUS
  <2>9. PICK p : p = [rt EXCEPT !.beat = "off", !.sockets = S, !.status = status,
                                !.stopped = "none"]
    OBVIOUS
  <2>10. rt' = [StopHeartbeat(rt) EXCEPT !.sockets = S, !.status = status, !.stopped = "none"]
    <3>1. StopHeartbeat(rt).sockets = rt.sockets
      BY <2>5 DEF StopHeartbeat, Managers
    <3> QED BY <1>1, <1>4, <2>1, <2>3, <2>7, <2>8, <3>1 DEF SocketFails
  <2>11. rt' = p
    BY <2>5, <2>9, <2>10 DEF StopHeartbeat, Managers
  <2>12. /\ p \in Managers /\ p.owner = rt.owner /\ p.hard = rt.hard
         /\ p.destroyed = rt.destroyed /\ p.timer = NoTimer /\ p.tickets = rt.tickets
         /\ p.sockets = O \cup {q} /\ p.timer = rt.timer
         /\ p.spent = rt.spent /\ p.attempt = rt.attempt /\ p.bootstrap = rt.bootstrap
    BY <2>4, <2>5, <2>7, <2>9 DEF Managers
  <2>13. Drawn(p)
    BY <2>12 DEF RealtimeInv, Sound, Drawn
  <2>14. Watched(p)
    BY <2>2, <2>12 DEF Watched, Tended, FreshSockets
  <2> QED BY <2>2, <2>5, <2>6, <2>11, <2>12, <2>13, <2>14, FreshSocketChanges
<1> QED BY <1>1, <1>3, <1>4

-----------------------------------------------------------------------------
LEMMA RealtimeStep == RealtimeInv /\ [RealtimeNext]_rtVars => RealtimeInv'
<1> SUFFICES ASSUME RealtimeInv, [RealtimeNext]_rtVars PROVE RealtimeInv'
  OBVIOUS
<1>1. CASE UNCHANGED rtVars
  BY <1>1 DEF rtVars, RealtimeInv
<1>2. CASE \/ AuthChanges \/ AppStateChanges
           \/ \E net \in Networks, another \in BOOLEAN : ConnectivityChanges(net, another)
  BY <1>2, EnvironmentInv
<1>3. CASE Unmount \/ RetryConnection \/ ReconnectTimer
  BY <1>3, UnmountInv, RetryConnectionInv, ReconnectTimerInv
<1>4. CASE \E t \in rt.tickets :
             \/ \E opens \in BOOLEAN : TicketArrives(t, opens)
             \/ \E kind \in {"hardAuth", "throttled", "transient"} : TicketFails(t, kind)
  BY <1>4, TicketArrivesInv, TicketFailsInv
<1>5. CASE \E s \in rt.sockets :
             \/ OpenTimeout(s) \/ ErrorCloseTimeout(s) \/ SocketOpens(s) \/ Pong(s)
             \/ HeartbeatTimeout(s) \/ SendFails(s)
             \/ \E b \in BOOLEAN : AuthError(s, b) \/ Ping(s, b)
             \/ \E code \in {"expired", "refused", "other"} : SocketCloses(s, code)
             \/ \E state \in {s.state, "closed"} : SocketFails(s, state)
  <2>1. PICK s \in rt.sockets :
             \/ OpenTimeout(s) \/ ErrorCloseTimeout(s) \/ SocketOpens(s) \/ Pong(s)
             \/ HeartbeatTimeout(s) \/ SendFails(s)
             \/ \E b \in BOOLEAN : AuthError(s, b) \/ Ping(s, b)
             \/ \E code \in {"expired", "refused", "other"} : SocketCloses(s, code)
             \/ \E state \in {s.state, "closed"} : SocketFails(s, state)
    BY <1>5
  <2>2. CASE OpenTimeout(s) \/ ErrorCloseTimeout(s) \/ SocketOpens(s) \/ Pong(s)
    BY <2>2, OpenTimeoutInv, ErrorCloseTimeoutInv, SocketOpensInv, PongInv
  <2>3. CASE HeartbeatTimeout(s) \/ SendFails(s)
    BY <2>3, HeartbeatInv
  <2>4. CASE \E b \in BOOLEAN : AuthError(s, b) \/ Ping(s, b)
    BY <2>4, AuthErrorInv, PingInv
  <2>5. CASE \E code \in {"expired", "refused", "other"} : SocketCloses(s, code)
    BY <2>5, SocketClosesInv
  <2>6. CASE \E state \in {s.state, "closed"} : SocketFails(s, state)
    BY <2>6, SocketFailsInv
  <2> QED BY <2>1, <2>2, <2>3, <2>4, <2>5, <2>6
<1> QED BY <1>1, <1>2, <1>3, <1>4, <1>5 DEF RealtimeNext

\* The invariant the rest follows from: the manager serves the owner of this
\* moment, its attempt is one ticket, one socket or one timer, and what waits
\* is watched (WebSocketManager, RealtimeRuntimeController.synchronize).
THEOREM RealtimeInvariant == RealtimeSpec => []RealtimeInv
  BY RealtimeInitially, RealtimeStep, PTL DEF RealtimeSpec

LEMMA OneTransport == RealtimeInv => OneLiveSocket
<1> SUFFICES ASSUME RealtimeInv PROVE OneLiveSocket
  OBVIOUS
<1>1. \A s \in LiveSockets(rt) : s \in FreshSockets(rt) /\ s.fresh /\ s.held
  BY DEF RealtimeInv, Sound, Ours, LiveSockets, FreshSockets
<1>2. \A s, z \in LiveSockets(rt) : s = z
  BY <1>1 DEF RealtimeInv, Sound, Single
<1>3. \A s \in LiveSockets(rt) : s.owner = rt.owner /\ s.owner # NoOwner
  <2>1. \A s \in LiveSockets(rt) : s.owner \in 1..MaxOwners
    BY DEF RealtimeInv, Sound, Managers, LiveSockets, SocketType
  <2> QED BY <1>1, <2>1 DEF RealtimeInv, Sound, Ours, NoOwner
<1>4. \A s \in LiveSockets(rt) : s.owner = env.owner /\ BlockReason(env) = "none"
  BY <1>3 DEF RealtimeInv, Sound, Present
<1>5. Cardinality(LiveSockets(rt)) <= 1
  <2>1. CASE LiveSockets(rt) = {}
    BY <2>1, FS_EmptySet
  <2>2. CASE LiveSockets(rt) # {}
    <3>1. PICK s \in LiveSockets(rt) : TRUE
      BY <2>2
    <3>2. LiveSockets(rt) = {s}
      BY <1>2, <3>1
    <3>3. Cardinality({s}) = 1
      BY FS_Singleton
    <3> QED BY <3>2, <3>3
  <2> QED BY <2>1, <2>2
<1> QED BY <1>1, <1>4, <1>5 DEF OneLiveSocket

LEMMA NobodyForgotten == RealtimeInv => Attended
<1> SUFFICES ASSUME RealtimeInv, BlockReason(env) = "none", ~rt.destroyed,
                    rt.stopped = "none", rt.hard # env.owner
             PROVE  \/ \E t \in rt.tickets : AttemptCurrent(env, rt, t)
                    \/ rt.timer # NoTimer
                    \/ \E s \in rt.sockets : Active(env, rt, s) /\
                         (s.openTimer \/ s.errorTimer \/ rt.beat # "off" \/ s.state = "connecting")
  BY DEF Attended
<1>1. rt.owner = env.owner /\ rt.owner # NoOwner
  BY DEF RealtimeInv, Sound, Present, BlockReason
<1>2. Tended(rt)
  BY <1>1 DEF RealtimeInv, Sound, Watched
<1>3. /\ \A t \in FreshTickets(rt) : t \in rt.tickets /\ AttemptCurrent(env, rt, t)
      /\ \A s \in FreshSockets(rt) : s \in rt.sockets /\ Active(env, rt, s)
  BY CurrentIsFresh DEF RealtimeInv, FreshTickets, FreshSockets
<1> QED BY <1>2, <1>3 DEF Tended

LEMMA WithinBudget == RealtimeInv => BudgetHolds
<1> SUFFICES ASSUME RealtimeInv PROVE BudgetHolds
  OBVIOUS
<1>1. rt.spent \in Nat /\ rt.attempt \in 0..MaxAttempts /\ MaxAttempts \in Nat
  BY RealtimeBounds DEF RealtimeInv, Sound, Managers
<1>2. PICK x \in {0, 1} : x = One(rt.bootstrap)
  BY DEF One
<1>3. rt.spent + 0 <= rt.attempt + x
  <2>1. rt.spent + One(FALSE) <= rt.attempt + One(rt.bootstrap)
    BY BudgetLeft DEF RealtimeInv, Sound
  <2>2. One(FALSE) = 0
    BY DEF One
  <2> QED BY <1>2, <2>1, <2>2, Zenon
<1> QED BY <1>1, <1>3 DEF BudgetHolds

\* One transport is alive, it is of this moment, whatever waits is watched, and
\* short-lived sockets draw on one budget, for any number of credentials and
\* attempts (WebSocketManager.reconcile and its callbacks).
THEOREM ConnectionStaysSound == RealtimeSpec => []ConnectionSound
<1>1. RealtimeInv => ConnectionSound
  BY OneTransport, NobodyForgotten, WithinBudget DEF ConnectionSound
<1> QED BY <1>1, RealtimeInvariant, PTL

\* The manager's state has its type.
THEOREM RealtimeTyped == RealtimeSpec => []RealtimeTypeOK
<1>1. RealtimeInv => RealtimeTypeOK
  BY DEF RealtimeInv, Sound, Managers, Envs, TimerSet, NoTimer, Kinds, TicketSet, RealtimeTypeOK
<1> QED BY <1>1, RealtimeInvariant, PTL

-----------------------------------------------------------------------------
(***************************************************************************)
(* The chat subscription.  The inductive invariant types the refs of the   *)
(* hook and says of the epochs that a connected room has one, and that     *)
(* none was acknowledged that has not been opened: a new socket is not     *)
(* live before its own acknowledgement.                                    *)
(***************************************************************************)

EpochsInOrder(c) == c.acked <= c.epoch /\ (c.up => c.epoch # NoEpoch)

RoomInv == room \in Room /\ EpochsInOrder(room)

\* Whether d may come after b: a room shut stays so; one that becomes live
\* owes or runs a read, and so does one that owed a read and stayed live.
Follows(b, d) ==
  /\ b.kicked => d.kicked
  /\ ~d.kicked /\ Live(d) /\ (Live(b) => b.requested = b.epoch)
       => d.requested = d.epoch \/ d.run = d.epoch

Good(b, d) == d \in Room /\ EpochsInOrder(d) /\ Follows(b, d)

-----------------------------------------------------------------------------
(* What the operators on the refs keep.                                    *)

\* A schedule touches the run and the request only, and a request that is
\* not kept has become a run.
LEMMA ScheduleKeeps ==
  ASSUME NEW c \in Room
  PROVE  /\ Schedule(c) \in Room
         /\ Schedule(c).up = c.up /\ Schedule(c).epoch = c.epoch
         /\ Schedule(c).acked = c.acked /\ Schedule(c).kicked = c.kicked
         /\ Live(Schedule(c)) = Live(c)
         /\ c.requested = c.epoch \/ c.run = c.epoch =>
              Schedule(c).requested = c.epoch \/ Schedule(c).run = c.epoch
BY DEF Schedule, Live, Room, NoEpoch

LEMMA OfEpochKeeps ==
  ASSUME NEW c \in Room
  PROVE  /\ OfEpoch(c) \in Room
         /\ OfEpoch(c).up = c.up /\ OfEpoch(c).epoch = c.epoch
         /\ OfEpoch(c).acked \in {c.acked, NoEpoch} /\ OfEpoch(c).kicked = c.kicked
BY DEF OfEpoch, Room, NoEpoch

\* An attempt never makes a room live, and does nothing to one that is.
LEMMA AttemptKeeps ==
  ASSUME NEW c \in Room, NEW ok \in BOOLEAN
  PROVE  /\ Attempt(c, ok) \in Room
         /\ Attempt(c, ok).up = c.up /\ Attempt(c, ok).epoch = c.epoch
         /\ Attempt(c, ok).acked \in {c.acked, NoEpoch} /\ Attempt(c, ok).kicked = c.kicked
         /\ Live(c) => Attempt(c, ok) = c
<1> DEFINE d == OfEpoch(c)
<1>1. /\ d \in Room /\ d.up = c.up /\ d.epoch = c.epoch
      /\ d.acked \in {c.acked, NoEpoch} /\ d.kicked = c.kicked
  BY OfEpochKeeps
<1>2. Live(c) => ~MayAttempt(c)
  BY DEF Live, MayAttempt
<1> HIDE DEF d
<1>3. CASE ~Subscribes(c)
  BY <1>1, <1>2, <1>3 DEF Attempt, d
<1>4. CASE Subscribes(c)
  <2> DEFINE e == [d EXCEPT !.attempts = @ + 1, !.timer = c.epoch,
                            !.sent = IF ok THEN c.epoch ELSE NoEpoch,
                            !.status = IF ok THEN "subscribing" ELSE "waiting"]
  <2>1. Attempt(c, ok) = e
    BY <1>4 DEF Attempt, d
  <2>2. d.attempts + 1 \in Nat /\ c.epoch \in Nat
    BY <1>1 DEF Room
  <2>3. PICK n, m \in Nat, status \in {"subscribing", "waiting"} :
          e = [d EXCEPT !.attempts = n, !.timer = c.epoch, !.sent = m, !.status = status]
    BY <2>2 DEF NoEpoch
  <2>4. /\ e \in Room /\ e.up = d.up /\ e.epoch = d.epoch
        /\ e.acked = d.acked /\ e.kicked = d.kicked
    BY <1>1, <2>2, <2>3 DEF Room
  <2> QED BY <1>1, <1>2, <1>4, <2>1, <2>4 DEF Subscribes
<1> QED BY <1>3, <1>4

LEMMA ForgetKeeps ==
  ASSUME NEW c \in Room
  PROVE  /\ Forget(c) \in Room /\ AbortRun(c) \in Room /\ ResetAttempts(c) \in Room
         /\ Forget(c).up = c.up /\ Forget(c).epoch = c.epoch /\ Forget(c).kicked = c.kicked
         /\ Forget(c).acked = NoEpoch
         /\ AbortRun(c).up = c.up /\ AbortRun(c).epoch = c.epoch
         /\ AbortRun(c).kicked = c.kicked /\ AbortRun(c).acked = c.acked
         /\ ResetAttempts(c).up = c.up /\ ResetAttempts(c).epoch = c.epoch
         /\ ResetAttempts(c).kicked = c.kicked /\ ResetAttempts(c).acked = c.acked
BY DEF Forget, AbortRun, ResetAttempts, Room, NoEpoch

-----------------------------------------------------------------------------
(* The operators keep to what may come after.                              *)

LEMMA ScheduleGood ==
  ASSUME NEW b \in Room, NEW c \in Room, Good(b, c)
  PROVE  Good(b, Schedule(c))
BY ScheduleKeeps DEF Good, EpochsInOrder, Follows

LEMMA AttemptGood ==
  ASSUME NEW b \in Room, NEW c \in Room, Good(b, c), NEW ok \in BOOLEAN
  PROVE  Good(b, Attempt(c, ok))
<1> DEFINE d == Attempt(c, ok)
<1>1. /\ d \in Room /\ d.up = c.up /\ d.epoch = c.epoch
      /\ d.acked \in {c.acked, NoEpoch} /\ d.kicked = c.kicked
      /\ Live(c) => d = c
  BY AttemptKeeps
<1> HIDE DEF d
<1>2. CASE Live(c)
  BY <1>1, <1>2 DEF d
<1>3. CASE ~Live(c)
  <2>1. c.epoch \in Nat /\ c.acked \in Nat
    BY DEF Room
  <2>2. EpochsInOrder(d) /\ ~Live(d)
    BY <1>1, <1>3, <2>1 DEF Good, EpochsInOrder, Live, NoEpoch
  <2> QED BY <1>1, <2>2 DEF Good, Follows, d
<1> QED BY <1>2, <1>3

\* Whoever forgets the acknowledgement is not live.
LEMMA ForgetGood ==
  ASSUME NEW b \in Room, NEW c \in Room, b.kicked => c.kicked, EpochsInOrder(c)
  PROVE  Good(b, Forget(c)) /\ ~Live(Forget(c)) /\ EpochsInOrder(AbortRun(c))
<1>1. c.epoch \in Nat
  BY DEF Room
<1> QED BY <1>1, ForgetKeeps DEF Good, EpochsInOrder, Follows, Live, NoEpoch

LEMMA ResetGood ==
  ASSUME NEW b \in Room, NEW c \in Room, Good(b, c)
  PROVE  Good(b, ResetAttempts(c))
<1>1. /\ ResetAttempts(c).requested = c.requested /\ ResetAttempts(c).run = c.run
  BY DEF ResetAttempts, Room
<1> QED BY <1>1, ForgetKeeps DEF Good, EpochsInOrder, Follows, Live

-----------------------------------------------------------------------------
(* One lemma for every action.                                             *)

LEMMA InitGood == SubscriptionInit => RoomInv /\ Feed!FeedInit
<1> SUFFICES ASSUME SubscriptionInit PROVE RoomInv /\ Feed!FeedInit
  OBVIOUS
<1>1. RoomInv
  BY DEF SubscriptionInit, RoomInv, Room, EpochsInOrder, NoEpoch
<1>2. ~room.kicked /\ ~Live(room)
  BY DEF SubscriptionInit, Live
<1> QED BY <1>1, <1>2 DEF Feed!FeedInit

LEMMA FocusGood ==
  ASSUME RoomInv, NEW ok \in BOOLEAN, Focus(ok)
  PROVE  Good(room, room')
<1> DEFINE a == [room EXCEPT !.focused = TRUE]
           f == ResetAttempts(Forget(a))
           c == [f EXCEPT !.status = IF f.up THEN "subscribing" ELSE "waiting"]
<1>1. a \in Room /\ EpochsInOrder(a) /\ a.kicked = room.kicked
  BY DEF RoomInv, Room, EpochsInOrder
<1>2. f \in Room /\ Good(room, f)
  <2> HIDE DEF a
  <2> QED BY <1>1, ForgetGood, ForgetKeeps, ResetGood DEF RoomInv
<1>3. c \in Room /\ Good(room, c)
  <2> HIDE DEF f
  <2> QED BY <1>2 DEF Good, Room, EpochsInOrder, Follows, Live
<1>4. room' = Attempt(c, ok)
  BY DEF Focus, Attempting
<1> HIDE DEF c
<1> QED BY <1>3, <1>4, AttemptGood DEF RoomInv

LEMMA BlurGood ==
  ASSUME RoomInv, Blur
  PROVE  Good(room, room')
<1> DEFINE f == ResetAttempts(Forget(AbortRun(room)))
<1>1. f \in Room /\ Good(room, f)
  BY ForgetGood, ForgetKeeps, ResetGood DEF RoomInv
<1>2. room' = [f EXCEPT !.focused = FALSE, !.status = "inactive"]
  BY DEF Blur
<1> HIDE DEF f
<1> QED BY <1>1, <1>2 DEF Good, Room, EpochsInOrder, Follows, Live

\* A room that is shut, or not live, may come after any that is not shut.
LEMMA NotLiveGood ==
  ASSUME NEW b \in Room, NEW c \in Room, EpochsInOrder(c),
         b.kicked => c.kicked, c.kicked \/ ~Live(c)
  PROVE  Good(b, c)
BY DEF Good, Follows

LEMMA KickGood ==
  ASSUME RoomInv
  PROVE  Kick(room) \in Room /\ EpochsInOrder(Kick(room)) /\ Kick(room).kicked
<1> DEFINE f == ResetAttempts(Forget(AbortRun(room)))
<1>1. f \in Room /\ Good(room, f)
  BY ForgetGood, ForgetKeeps, ResetGood DEF RoomInv
<1>2. Kick(room) = [f EXCEPT !.kicked = TRUE, !.ready = FALSE, !.status = "inactive",
                             !.history = IF @ = "loading" THEN "none" ELSE @]
  BY DEF Kick
<1> HIDE DEF f
<1> QED BY <1>1, <1>2 DEF Good, Room, EpochsInOrder

LEMMA AccessLostGood ==
  ASSUME RoomInv, AccessLost
  PROVE  Good(room, room')
<1> DEFINE k == Kick(room)
<1>1. k \in Room /\ EpochsInOrder(k) /\ k.kicked
  BY KickGood
<1>2. room' = [k EXCEPT !.access = FALSE]
  BY DEF AccessLost
<1> HIDE DEF k
<1>3. room' \in Room /\ EpochsInOrder(room') /\ room'.kicked
  BY <1>1, <1>2 DEF Room, EpochsInOrder
<1> QED BY <1>3, NotLiveGood DEF RoomInv

LEMMA OnKickedGood ==
  ASSUME RoomInv, OnKicked
  PROVE  Good(room, room')
BY KickGood, NotLiveGood DEF OnKicked, RoomInv

LEMMA AccessUncertainGood ==
  ASSUME RoomInv, AccessUncertain
  PROVE  Good(room, room')
<1> DEFINE f == ResetAttempts(Forget(AbortRun(room)))
<1>1. f \in Room /\ Good(room, f)
  BY ForgetGood, ForgetKeeps, ResetGood DEF RoomInv
<1>2. room' = [f EXCEPT !.access = FALSE, !.status = "inactive",
                        !.history = IF @ = "loading" THEN "none" ELSE @]
  BY DEF AccessUncertain
<1> HIDE DEF f
<1> QED BY <1>1, <1>2 DEF Good, Room, EpochsInOrder, Follows, Live

LEMMA AccessGrantedGood ==
  ASSUME RoomInv, NEW ok \in BOOLEAN, AccessGranted(ok)
  PROVE  Good(room, room')
<1> DEFINE c == [room EXCEPT !.access = TRUE,
                             !.history = IF @ = "none" THEN "loading" ELSE @,
                             !.ready = IF room.history = "none" THEN room.locked ELSE @]
<1>1. c \in Room /\ Good(room, c)
  BY DEF RoomInv, Good, Room, EpochsInOrder, Follows, Live
<1>2. room' = Attempt(c, ok)
  BY DEF AccessGranted, Attempting
<1> HIDE DEF c
<1> QED BY <1>1, <1>2, AttemptGood DEF RoomInv

LEMMA ConnectionLostGood ==
  ASSUME RoomInv, ConnectionLost
  PROVE  Good(room, room')
<1> DEFINE a == AbortRun([room EXCEPT !.up = FALSE])
           f == ResetAttempts(Forget(AbortRun(room)))
<1>1. a \in Room /\ EpochsInOrder(a) /\ a.kicked = room.kicked /\ ~a.up
  BY DEF RoomInv, Room, EpochsInOrder, AbortRun, NoEpoch
<1>2. f \in Room /\ Good(room, f)
  BY ForgetGood, ForgetKeeps, ResetGood DEF RoomInv
<1>3. room' = a \/ room' = [f EXCEPT !.up = FALSE, !.status = "waiting"]
  BY DEF ConnectionLost, Disconnected
<1> HIDE DEF a, f
<1>4. CASE room' = a
  BY <1>1, <1>4, NotLiveGood DEF RoomInv, Live
<1>5. CASE room' = [f EXCEPT !.up = FALSE, !.status = "waiting"]
  BY <1>2, <1>5 DEF Good, Room, EpochsInOrder, Follows, Live
<1> QED BY <1>3, <1>4, <1>5

\* No socket that opens was acknowledged before.
LEMMA ConnectionOpensGood ==
  ASSUME RoomInv, NEW ok \in BOOLEAN, ConnectionOpens(ok)
  PROVE  Good(room, room')
<1> DEFINE a == AbortRun(room)
           c == [a EXCEPT !.up = TRUE, !.epoch = @ + 1]
<1>1. a \in Room /\ EpochsInOrder(a) /\ a.kicked = room.kicked
  BY ForgetKeeps DEF RoomInv, EpochsInOrder
<1>2. room' = Attempt(c, ok)
  BY DEF ConnectionOpens, Attempting
<1> HIDE DEF a
<1>3. PICK n \in Nat : n = a.epoch + 1
  BY <1>1 DEF Room
<1>4. c = [a EXCEPT !.up = TRUE, !.epoch = n]
  BY <1>1, <1>3 DEF Room
<1>5. c \in Room /\ c.kicked = a.kicked /\ c.epoch = n /\ c.acked = a.acked
  BY <1>1, <1>4 DEF Room
<1>6. a.acked \in Nat /\ a.epoch \in Nat
  BY <1>1 DEF Room
<1> HIDE DEF c
<1>7. EpochsInOrder(c) /\ ~Live(c)
  BY <1>1, <1>3, <1>5, <1>6 DEF EpochsInOrder, Live, NoEpoch
<1>8. Good(room, c)
  BY <1>1, <1>5, <1>7, NotLiveGood DEF RoomInv
<1> QED BY <1>2, <1>5, <1>8, AttemptGood DEF RoomInv

LEMMA RecoveryTimerGood ==
  ASSUME RoomInv, NEW ok \in BOOLEAN, RecoveryTimer(ok)
  PROVE  Good(room, room')
<1> DEFINE c == [room EXCEPT !.timer = NoEpoch]
           r == [c EXCEPT !.rejected = c.epoch, !.status = "rejected"]
           w == [c EXCEPT !.sent = NoEpoch, !.status = "waiting"]
<1>1. c \in Room /\ Good(room, c)
  BY DEF RoomInv, Good, Room, EpochsInOrder, Follows, Live, NoEpoch
<1>2. room' = c \/ room' = r \/ room' = Attempt(w, ok)
  BY DEF RecoveryTimer, Attempting
<1> HIDE DEF c
<1>3. r \in Room /\ Good(room, r) /\ w \in Room /\ Good(room, w)
  BY <1>1 DEF Good, Room, EpochsInOrder, Follows, Live, NoEpoch
<1> HIDE DEF r, w
<1> QED BY <1>1, <1>2, <1>3, AttemptGood DEF RoomInv

LEMMA RetrySubscriptionGood ==
  ASSUME RoomInv, NEW ok \in BOOLEAN, RetrySubscription(ok)
  PROVE  Good(room, room')
<1> DEFINE f == ResetAttempts(Forget(room))
           c == [f EXCEPT !.status = "waiting"]
<1>1. f \in Room /\ Good(room, f)
  BY ForgetGood, ForgetKeeps, ResetGood DEF RoomInv
<1>2. room' = Attempt(c, ok)
  BY DEF RetrySubscription, Attempting
<1> HIDE DEF f
<1>3. c \in Room /\ Good(room, c)
  BY <1>1 DEF Good, Room, EpochsInOrder, Follows, Live
<1> HIDE DEF c
<1> QED BY <1>2, <1>3, AttemptGood DEF RoomInv

\* The retry gives up a read that is owed by starting it.
LEMMA RetryCatchUpGood ==
  ASSUME RoomInv, RetryCatchUp
  PROVE  Good(room, room')
<1>1. room' = [room EXCEPT !.intent = NoEpoch, !.requested = NoEpoch, !.run = room.epoch]
  BY DEF RetryCatchUp
<1> QED BY <1>1 DEF RoomInv, Good, Room, EpochsInOrder, Follows, Live, NoEpoch

LEMMA LoadGood ==
  ASSUME RoomInv, NEW ok \in BOOLEAN, RetryInitialLoad \/ InitialLoadEnds(ok)
  PROVE  Good(room, room')
<1> DEFINE c == [room EXCEPT !.history = "loaded", !.ready = TRUE]
<1>1. c \in Room /\ Good(room, c)
  BY DEF RoomInv, Good, Room, EpochsInOrder, Follows, Live
<1>2. \/ room' = [room EXCEPT !.history = "loading", !.ready = room.locked]
      \/ room' = [room EXCEPT !.history = "none", !.ready = room.locked]
      \/ room' = Schedule(c)
  BY DEF RetryInitialLoad, InitialLoadEnds
<1> HIDE DEF c
<1>3. CASE room' = Schedule(c)
  BY <1>1, <1>3, ScheduleGood DEF RoomInv
<1>4. CASE room' = [room EXCEPT !.history = "loading", !.ready = room.locked]
  BY <1>4 DEF RoomInv, Good, Room, EpochsInOrder, Follows, Live
<1>5. CASE room' = [room EXCEPT !.history = "none", !.ready = room.locked]
  BY <1>5 DEF RoomInv, Good, Room, EpochsInOrder, Follows, Live
<1> QED BY <1>2, <1>3, <1>4, <1>5

\* A run that ends leaves what is owed to the schedule.
LEMMA RunEndsGood ==
  ASSUME RoomInv, NEW ok \in BOOLEAN, RunEnds(ok)
  PROVE  Good(room, room')
<1> DEFINE c == AbortRun(room)
           d == [c EXCEPT !.intent = IF ok THEN NoEpoch ELSE c.epoch]
<1>1. c \in Room /\ Good(room, c)
  BY DEF RoomInv, Good, Room, EpochsInOrder, Follows, Live, AbortRun, NoEpoch
<1>2. room' = Schedule(c) \/ room' = Schedule(d)
  BY DEF RunEnds
<1> HIDE DEF c
<1>3. d \in Room /\ Good(room, d)
  BY <1>1 DEF Good, Room, EpochsInOrder, Follows, Live, NoEpoch
<1> HIDE DEF d
<1> QED BY <1>1, <1>2, <1>3, ScheduleGood DEF RoomInv

LEMMA TripEndsGood ==
  ASSUME RoomInv, TripEnds
  PROVE  Good(room, room')
<1> DEFINE c == [room EXCEPT !.locked = TRUE, !.ready = TRUE]
           d == [c EXCEPT !.requested = c.epoch]
<1>1. c \in Room /\ Good(room, c)
  BY DEF RoomInv, Good, Room, EpochsInOrder, Follows, Live
<1>2. room' = Schedule(d) \/ room' = c
  BY DEF TripEnds, RequestRead
<1> HIDE DEF c
<1>3. d \in Room /\ Good(room, d)
  BY <1>1 DEF Good, Room, EpochsInOrder, Follows, Live
<1> HIDE DEF d
<1> QED BY <1>1, <1>2, <1>3, ScheduleGood DEF RoomInv

\* The first acknowledgement of an epoch owes a read; a further one changes
\* neither the request nor the run.
LEMMA OnSubscribedGood ==
  ASSUME RoomInv, OnSubscribed
  PROVE  room' = room \/ Good(room, room')
<1> DEFINE a == [room EXCEPT !.timer = NoEpoch, !.rejected = NoEpoch, !.status = "subscribed"]
           b == [room EXCEPT !.timer = NoEpoch, !.acked = room.epoch, !.rejected = NoEpoch,
                             !.status = "subscribed", !.intent = NoEpoch,
                             !.requested = room.epoch]
<1>0. room \in Room /\ room.epoch \in Nat
  BY DEF RoomInv, Room
<1>1. a \in Room /\ Good(room, a) /\ b \in Room /\ Good(room, b)
  <2>1. a \in Room /\ Good(room, a)
    BY DEF RoomInv, Good, Room, EpochsInOrder, Follows, Live, NoEpoch
  <2>2. /\ b \in Room /\ b.up = room.up /\ b.epoch = room.epoch /\ b.acked = room.epoch
        /\ b.requested = room.epoch /\ b.kicked = room.kicked
    BY <1>0 DEF Room, NoEpoch
  <2> HIDE DEF b
  <2>3. Good(room, b)
    BY <1>0, <2>2 DEF RoomInv, Good, EpochsInOrder, Follows
  <2> QED BY <2>1, <2>2, <2>3
<1>2. room' \in {room, a, Schedule(b)}
  BY DEF OnSubscribed, Acknowledge
<1> HIDE DEF a, b
<1> QED BY <1>1, <1>2, ScheduleGood DEF RoomInv

LEMMA OnUnsubscribedGood ==
  ASSUME RoomInv, NEW ok \in BOOLEAN, OnUnsubscribed(ok)
  PROVE  room' = room \/ Good(room, room')
<1> DEFINE a == AbortRun(room)
           c == [a EXCEPT !.timer = NoEpoch, !.acked = NoEpoch,
                          !.requested = NoEpoch, !.intent = NoEpoch]
           r == ResetAttempts(c)
           d == [r EXCEPT !.sent = NoEpoch, !.status = "waiting"]
<1>1. a \in Room /\ EpochsInOrder(a) /\ a.kicked = room.kicked
  BY ForgetKeeps DEF RoomInv, EpochsInOrder
<1>2. room' \in {room, c, Attempt(d, ok)}
  BY DEF OnUnsubscribed, Attempting
<1> HIDE DEF a
<1>3. c \in Room /\ EpochsInOrder(c) /\ ~Live(c) /\ c.kicked = room.kicked
  <2>1. a.epoch \in Nat
    BY <1>1 DEF Room
  <2>2. c \in Room /\ c.up = a.up /\ c.epoch = a.epoch /\ c.acked = 0 /\ c.kicked = a.kicked
    BY <1>1 DEF Room, NoEpoch
  <2> HIDE DEF c
  <2> QED BY <1>1, <2>1, <2>2 DEF EpochsInOrder, Live, NoEpoch
<1> HIDE DEF c
<1>4. Good(room, c)
  BY <1>3, NotLiveGood DEF RoomInv
<1>5. r \in Room /\ Good(room, r)
  BY <1>3, <1>4, ResetGood, ForgetKeeps DEF RoomInv
<1> HIDE DEF r
<1>6. d \in Room /\ Good(room, d)
  BY <1>5 DEF Good, Room, EpochsInOrder, Follows, Live, NoEpoch
<1> HIDE DEF d
<1> QED BY <1>2, <1>4, <1>6, AttemptGood DEF RoomInv

LEMMA OnErrorGood ==
  ASSUME RoomInv, NEW e \in {"limit", "error"}, OnError(e)
  PROVE  room' = room \/ Good(room, room')
<1> DEFINE l == [room EXCEPT !.timer = NoEpoch, !.rejected = room.epoch, !.status = "rejected"]
           w == [room EXCEPT !.sent = NoEpoch, !.status = "waiting", !.timer = room.epoch]
<1>1. room' = room \/ room' = l \/ room' = w
  BY DEF OnError
<1>2. l \in Room /\ Good(room, l) /\ w \in Room /\ Good(room, w)
  BY DEF RoomInv, Good, Room, EpochsInOrder, Follows, Live, NoEpoch
<1> QED BY <1>1, <1>2

-----------------------------------------------------------------------------
(* The step and the theorems.                                              *)

LEMMA NextGood ==
  ASSUME RoomInv, [SubscriptionNext]_chatVars
  PROVE  room' = room \/ Good(room, room')
<1>1. CASE \/ Blur \/ AccessUncertain \/ AccessLost \/ OnKicked
  BY <1>1, BlurGood, AccessUncertainGood, AccessLostGood, OnKickedGood
<1>2. CASE \E ok \in BOOLEAN : \/ Focus(ok) \/ AccessGranted(ok) \/ ConnectionOpens(ok)
  BY <1>2, FocusGood, AccessGrantedGood, ConnectionOpensGood
<1>3. CASE \E ok \in BOOLEAN : \/ RecoveryTimer(ok) \/ RetrySubscription(ok) \/ OnUnsubscribed(ok)
  BY <1>3, RecoveryTimerGood, RetrySubscriptionGood, OnUnsubscribedGood
<1>4. CASE ConnectionLost \/ RetryCatchUp \/ TripEnds \/ OnSubscribed
  BY <1>4, ConnectionLostGood, RetryCatchUpGood, TripEndsGood, OnSubscribedGood
<1>5. CASE RetryInitialLoad \/ \E ok \in BOOLEAN : InitialLoadEnds(ok) \/ RunEnds(ok)
  BY <1>5, LoadGood, RunEndsGood
<1>6. CASE \E answer \in {"subscribed", "unsubscribed", "limit", "error"} : ServerHandles(answer)
  <2>1. room' = room
    BY <1>6, Zenon DEF ServerHandles
  <2> QED BY <2>1
<1>7. CASE \E e \in {"limit", "error"} : OnError(e)
  BY <1>7, OnErrorGood
<1>8. CASE UNCHANGED chatVars
  BY <1>8 DEF chatVars
<1>9. \/ Blur \/ AccessUncertain \/ AccessLost \/ OnKicked
      \/ \E ok \in BOOLEAN : \/ Focus(ok) \/ AccessGranted(ok) \/ ConnectionOpens(ok)
      \/ \E ok \in BOOLEAN : \/ RecoveryTimer(ok) \/ RetrySubscription(ok) \/ OnUnsubscribed(ok)
      \/ ConnectionLost \/ RetryCatchUp \/ TripEnds \/ OnSubscribed
      \/ RetryInitialLoad \/ \E ok \in BOOLEAN : InitialLoadEnds(ok) \/ RunEnds(ok)
      \/ \E answer \in {"subscribed", "unsubscribed", "limit", "error"} : ServerHandles(answer)
      \/ \E e \in {"limit", "error"} : OnError(e)
      \/ UNCHANGED chatVars
  BY Zenon DEF SubscriptionNext
<1> QED BY <1>1, <1>2, <1>3, <1>4, <1>5, <1>6, <1>7, <1>8, <1>9

\* The epochs stay in order on every step.
LEMMA RoomInvStep == RoomInv /\ [SubscriptionNext]_chatVars => RoomInv'
BY NextGood DEF RoomInv, Good, EpochsInOrder

\* What may come after a room is a step of the feed, or none.
LEMMA GoodIsFeedStep ==
  ASSUME RoomInv, room' = room \/ Good(room, room')
  PROVE  [Feed!FeedNext]_(Feed!feedVars)
<1>1. CASE room' = room
  BY <1>1 DEF Feed!feedVars, Live
<1>2. CASE Good(room, room')
  <2>1. CASE room.kicked
    BY <1>2, <2>1 DEF Good, Follows, Feed!feedVars
  <2>2. CASE ~room.kicked /\ room'.kicked
    BY <2>2 DEF Feed!FeedNext, Feed!Shut
  <2>3. CASE ~room.kicked /\ ~room'.kicked /\ ~Live(room) /\ Live(room)'
    BY <1>2, <2>3 DEF Good, Follows, Feed!FeedNext, Feed!GoLive, Live
  <2>4. CASE ~room.kicked /\ ~room'.kicked /\ ~Live(room) /\ ~Live(room)'
    BY <2>4 DEF Feed!feedVars
  <2>5. CASE ~room.kicked /\ ~room'.kicked /\ Live(room) /\ Live(room)'
    BY <1>2, <2>5 DEF Good, Follows, Feed!FeedNext, Feed!StayLive, Live
  <2>6. CASE ~room.kicked /\ ~room'.kicked /\ Live(room) /\ ~Live(room)'
    BY <2>6 DEF Feed!FeedNext, Feed!GoOff
  <2> QED BY <2>1, <2>2, <2>3, <2>4, <2>5, <2>6
<1> QED BY <1>1, <1>2

\* The refs of the hook keep their types, and no epoch is acknowledged that
\* the manager has not opened.
THEOREM EpochsStayInOrder == SubscriptionSpec => []RoomInv
<1>1. SubscriptionInit => RoomInv
  BY InitGood
<1> QED BY <1>1, RoomInvStep, PTL DEF SubscriptionSpec

\* The subscription implements the feed: whatever connections, access, focus
\* and retries do, a room never turns live without a catch-up read that
\* begins afterwards, and never drops one it owes.
THEOREM SubscriptionImplementsFeed == SubscriptionSpec => FeedIsKept
<1>1. SubscriptionInit => RoomInv /\ Feed!FeedInit
  BY InitGood
<1>2. RoomInv /\ [SubscriptionNext]_chatVars => [Feed!FeedNext]_(Feed!feedVars)
  BY NextGood, GoodIsFeedStep
<1> QED BY <1>1, <1>2, RoomInvStep, PTL DEF SubscriptionSpec, FeedIsKept, Feed!FeedSpec

-----------------------------------------------------------------------------
(* A connected, open screen is attended.  What has to be added: nothing is *)
(* ahead of the epochs, a timer belongs to the epoch of the attempts, and  *)
(* a screen that is closed or has no access holds no attempt that the next *)
(* one could be mistaken for.                                              *)

Bounded(c) ==
  /\ c \in Room /\ c.attempts <= MaxSubscribes /\ (c.up => c.epoch # NoEpoch)
  /\ c.sent <= c.epoch /\ c.acked <= c.epoch /\ c.rejected <= c.epoch
  /\ c.attEpoch <= c.epoch /\ c.timer <= c.epoch

Tracked(c) ==
  /\ c.timer # NoEpoch => c.timer = c.attEpoch
  /\ ~(c.focused /\ c.access) =>
       /\ c.sent = NoEpoch /\ c.acked = NoEpoch /\ c.rejected = NoEpoch
       /\ c.attEpoch = NoEpoch

Wants(c) == c.focused /\ c.access /\ ~c.kicked /\ c.up

RoomTended(c) == Wants(c) => Live(c) \/ c.rejected = c.epoch \/ c.timer = c.epoch

RefsKept(c) == Bounded(c) /\ Tracked(c) /\ RoomTended(c)

\* What an attempt needs to leave the room attended.
Ready(c) ==
  Wants(c) => \/ c.epoch \in {c.acked, c.rejected}
              \/ c.sent # c.epoch /\ (c.attEpoch # c.epoch \/ c.attempts < MaxSubscribes)

LEMMA OfEpochKept ==
  ASSUME NEW c \in Room, Bounded(c), Tracked(c), Wants(c)
  PROVE  /\ Bounded(OfEpoch(c)) /\ Tracked(OfEpoch(c)) /\ OfEpoch(c).attEpoch = c.epoch
         /\ OfEpoch(c).attEpoch # c.attEpoch => OfEpoch(c).attempts = 0
         /\ OfEpoch(c).attEpoch = c.attEpoch => OfEpoch(c) = c
         /\ OfEpoch(c).epoch = c.epoch /\ OfEpoch(c).focused = c.focused
         /\ OfEpoch(c).access = c.access /\ OfEpoch(c).kicked = c.kicked
         /\ OfEpoch(c).up = c.up
<1>1. c.epoch \in Nat /\ MaxSubscribes \in Nat
  BY SubscriptionBounds DEF Room
<1>2. CASE c.attEpoch = c.epoch
  BY <1>2 DEF OfEpoch
<1>3. CASE c.attEpoch # c.epoch
  <2> DEFINE d == [c EXCEPT !.attEpoch = c.epoch, !.attempts = 0, !.timer = NoEpoch,
                            !.sent = NoEpoch, !.acked = NoEpoch, !.rejected = NoEpoch]
  <2>1. OfEpoch(c) = d
    BY <1>3 DEF OfEpoch
  <2>2. /\ d \in Room /\ d.attEpoch = c.epoch /\ d.attempts = 0 /\ d.timer = 0 /\ d.sent = 0
        /\ d.acked = 0 /\ d.rejected = 0 /\ d.epoch = c.epoch /\ d.focused = c.focused
        /\ d.access = c.access /\ d.kicked = c.kicked /\ d.up = c.up
    BY DEF Room, NoEpoch
  <2> HIDE DEF d
  <2>3. Tracked(d)
    BY <2>2 DEF Tracked, Wants, NoEpoch
  <2>4. Bounded(d)
    BY <1>1, <2>2 DEF Bounded, NoEpoch
  <2> QED BY <1>3, <2>1, <2>2, <2>3, <2>4
<1> QED BY <1>2, <1>3

LEMMA AttemptKept ==
  ASSUME NEW c \in Room, Bounded(c), Tracked(c), Ready(c), NEW ok \in BOOLEAN
  PROVE  RefsKept(Attempt(c, ok))
<1> DEFINE d == OfEpoch(c)
           e == [d EXCEPT !.attempts = @ + 1, !.timer = c.epoch,
                          !.sent = IF ok THEN c.epoch ELSE NoEpoch,
                          !.status = IF ok THEN "subscribing" ELSE "waiting"]
<1>1. c.epoch \in Nat /\ MaxSubscribes \in Nat /\ MaxSubscribes > 0
  BY SubscriptionBounds DEF Room
<1>2. CASE ~MayAttempt(c)
  <2>1. Attempt(c, ok) = c
    BY <1>2 DEF Attempt, Subscribes
  <2>2. Wants(c) => c.acked = c.epoch \/ c.rejected = c.epoch
    BY <1>2 DEF MayAttempt, Wants, Ready
  <2> QED BY <2>1, <2>2 DEF RefsKept, RoomTended, Live, Wants
<1>3. CASE MayAttempt(c)
  <2>1. Wants(c) /\ c.epoch # c.acked /\ c.epoch # c.rejected
    BY <1>3 DEF MayAttempt, Wants
  <2>2. /\ Bounded(d) /\ Tracked(d) /\ d.attEpoch = c.epoch /\ d.epoch = c.epoch
        /\ d.attEpoch # c.attEpoch => d.attempts = 0
        /\ d.attEpoch = c.attEpoch => d = c
        /\ d.focused /\ d.access
    BY <2>1, OfEpochKept DEF Wants
  <2> HIDE DEF d
  <2>3. d.attempts \in Nat /\ d.attempts < MaxSubscribes
    BY <1>1, <2>1, <2>2 DEF Ready, Bounded, Room
  <2>4. Attempt(c, ok) = e
    BY <1>3, <2>3 DEF Attempt, Subscribes, d
  <2>5. PICK n \in Nat : n = d.attempts + 1
    BY <2>3
  <2>6. /\ e \in Room /\ e.attempts = n /\ e.timer = c.epoch /\ e.sent \in {c.epoch, NoEpoch}
        /\ e.acked = d.acked /\ e.rejected = d.rejected /\ e.attEpoch = d.attEpoch
        /\ e.epoch = d.epoch /\ e.focused = d.focused /\ e.access = d.access /\ e.up = d.up
    <3> DEFINE m == IF ok THEN c.epoch ELSE NoEpoch
               st == IF ok THEN "subscribing" ELSE "waiting"
    <3>1. m \in Nat /\ m \in {c.epoch, NoEpoch} /\ st \in {"subscribing", "waiting"}
      BY <1>1 DEF NoEpoch
    <3>2. e = [d EXCEPT !.attempts = n, !.timer = c.epoch, !.sent = m, !.status = st]
      BY <2>5
    <3> HIDE DEF m, st, e
    <3> QED BY <1>1, <2>2, <3>1, <3>2 DEF Bounded, Room
  <2> HIDE DEF e
  <2>7. Bounded(e)
    BY <1>1, <2>2, <2>3, <2>5, <2>6 DEF Bounded, NoEpoch
  <2>8. Tracked(e) /\ RoomTended(e)
    BY <2>2, <2>6 DEF Tracked, RoomTended
  <2> QED BY <2>4, <2>7, <2>8 DEF RefsKept
<1> QED BY <1>2, <1>3

\* Whoever starts tracking afresh is ready for an attempt.
LEMMA AfreshReady ==
  ASSUME NEW c \in Room, c.up => c.epoch # NoEpoch
  PROVE  LET f == ResetAttempts(Forget(c))
         IN /\ Bounded(f) /\ Tracked(f) /\ Ready(f)
            /\ f.focused = c.focused /\ f.access = c.access /\ f.up = c.up
            /\ f.kicked = c.kicked /\ f.epoch = c.epoch
            /\ f.sent = 0 /\ f.acked = 0 /\ f.rejected = 0 /\ f.attEpoch = 0
            /\ f.timer = 0 /\ f.attempts = 0
<1> DEFINE f == ResetAttempts(Forget(c))
<1>1. c.epoch \in Nat /\ MaxSubscribes \in Nat /\ MaxSubscribes > 0
  BY SubscriptionBounds DEF Room
<1>2. /\ f \in Room
      /\ f.focused = c.focused /\ f.access = c.access /\ f.up = c.up
      /\ f.kicked = c.kicked /\ f.epoch = c.epoch
      /\ f.sent = 0 /\ f.acked = 0 /\ f.rejected = 0 /\ f.attEpoch = 0
      /\ f.timer = 0 /\ f.attempts = 0
  BY DEF Room, ResetAttempts, Forget, NoEpoch
<1> HIDE DEF f
<1>3. Bounded(f) /\ Tracked(f) /\ Ready(f)
  BY <1>1, <1>2 DEF Bounded, Tracked, Ready, Wants, NoEpoch
<1> QED BY <1>2, <1>3 DEF f

\* What RefsKept speaks of.
Same(c, d) ==
  /\ d \in Room
  /\ d.focused = c.focused /\ d.access = c.access /\ d.up = c.up /\ d.kicked = c.kicked
  /\ d.epoch = c.epoch /\ d.sent = c.sent /\ d.acked = c.acked /\ d.rejected = c.rejected
  /\ d.attEpoch = c.attEpoch /\ d.timer = c.timer /\ d.attempts = c.attempts

LEMMA SameKept ==
  ASSUME NEW c, NEW d, Same(c, d)
  PROVE  /\ Bounded(c) => Bounded(d)
         /\ Tracked(c) => Tracked(d)
         /\ Ready(c) => Ready(d)
         /\ RefsKept(c) => RefsKept(d)
         /\ RoomTended(c) => RoomTended(d)
BY DEF Same, Bounded, Tracked, Ready, Wants, RoomTended, Live, RefsKept

\* Reads are none of its business.
LEMMA AbortSame ==
  ASSUME NEW c \in Room
  PROVE  Same(c, c) /\ Same(c, AbortRun(c))
BY DEF AbortRun, Room, Same, NoEpoch

LEMMA ScheduleSame ==
  ASSUME NEW c \in Room
  PROVE  Same(c, Schedule(c))
<1> DEFINE r == [c EXCEPT !.run = c.epoch, !.requested = NoEpoch]
<1>1. Same(c, r)
  BY DEF Room, Same, NoEpoch
<1>2. Same(c, c)
  BY AbortSame
<1>3. Schedule(c) = r \/ Schedule(c) = c
  BY DEF Schedule
<1> QED BY <1>1, <1>2, <1>3

LEMMA SameTrans ==
  ASSUME NEW b, NEW c, NEW d, Same(b, c), Same(c, d)
  PROVE  Same(b, d)
BY DEF Same

RoomKept == RefsKept(room)

LEMMA KeptInit == SubscriptionInit => RoomKept
<1> SUFFICES ASSUME SubscriptionInit PROVE RoomKept
  OBVIOUS
<1>1. /\ room \in Room /\ room.epoch = 0 /\ room.sent = 0 /\ room.acked = 0 /\ room.rejected = 0
      /\ room.attEpoch = 0 /\ room.timer = 0 /\ room.attempts = 0 /\ room.up = FALSE
  BY DEF SubscriptionInit, Room
<1> QED BY <1>1, SubscriptionBounds
        DEF RoomKept, RefsKept, Bounded, Tracked, RoomTended, Wants, NoEpoch

\* An attempt from a room that is ready for one.
LEMMA AttemptingKept ==
  ASSUME NEW c \in Room, NEW l, NEW ok \in BOOLEAN,
         Bounded(c), Tracked(c), Ready(c), Attempting(c, l, ok)
  PROVE  RoomKept'
<1>1. room' = Attempt(c, ok)
  BY DEF Attempting
<1> QED BY <1>1, AttemptKept DEF RoomKept

\* Steps that touch reads only.
LEMMA ReadsKept ==
  ASSUME RoomKept, NEW d, Same(room, d), room' = d
  PROVE  RoomKept'
BY SameKept DEF RoomKept

LEMMA FocusKept ==
  ASSUME RoomKept, NEW ok \in BOOLEAN, Focus(ok)
  PROVE  RoomKept'
<1> DEFINE b == [room EXCEPT !.focused = TRUE]
           f == ResetAttempts(Forget(b))
           d == [f EXCEPT !.status = IF f.up THEN "subscribing" ELSE "waiting"]
<1>1. b \in Room /\ (b.up => b.epoch # NoEpoch)
  BY DEF RoomKept, RefsKept, Bounded, Room
<1> HIDE DEF b
<1>2. f \in Room /\ Bounded(f) /\ Tracked(f) /\ Ready(f)
  BY <1>1, AfreshReady DEF Bounded
<1> HIDE DEF f
<1>3. Same(f, d) /\ d \in Room
  BY <1>2 DEF Same, Room
<1>4. Attempting(d, link, ok)
  BY DEF Focus, b, f
<1> HIDE DEF d
<1>5. Bounded(d) /\ Tracked(d) /\ Ready(d)
  BY <1>2, <1>3, SameKept
<1> QED BY <1>3, <1>4, <1>5, AttemptingKept

\* A room that is left for good or for now holds no attempt.
LEMMA LeftKept ==
  ASSUME NEW c \in Room, c.up => c.epoch # NoEpoch,
         NEW d \in Room, ~Wants(d),
         d.up => c.up, d.epoch = c.epoch,
         d.sent = 0, d.acked = 0, d.rejected = 0, d.attEpoch = 0, d.timer = 0, d.attempts = 0
  PROVE  RefsKept(d)
BY SubscriptionBounds DEF RefsKept, Bounded, Tracked, RoomTended, NoEpoch, Room

LEMMA BlurKept ==
  ASSUME RoomKept, Blur
  PROVE  RoomKept'
<1> DEFINE f == ResetAttempts(Forget(AbortRun(room)))
<1>1. AbortRun(room) \in Room /\ Same(room, AbortRun(room))
  BY AbortSame DEF RoomKept, RefsKept, Bounded, Same
<1>2. /\ f \in Room /\ f.epoch = room.epoch /\ f.up = room.up
      /\ f.sent = 0 /\ f.acked = 0 /\ f.rejected = 0 /\ f.attEpoch = 0
      /\ f.timer = 0 /\ f.attempts = 0
  BY <1>1, AfreshReady DEF Same, Bounded, RoomKept, RefsKept
<1>3. room' = [f EXCEPT !.focused = FALSE, !.status = "inactive"]
  BY DEF Blur
<1> HIDE DEF f
<1>4. /\ room' \in Room /\ ~Wants(room') /\ room'.epoch = f.epoch /\ room'.up = f.up
      /\ room'.sent = f.sent /\ room'.acked = f.acked /\ room'.rejected = f.rejected
      /\ room'.attEpoch = f.attEpoch /\ room'.timer = f.timer /\ room'.attempts = f.attempts
  BY <1>2, <1>3 DEF Room, Wants
<1>5. room \in Room /\ (room.up => room.epoch # NoEpoch)
  BY DEF RoomKept, RefsKept, Bounded
<1>6. RefsKept(room')
  BY <1>2, <1>4, <1>5, LeftKept
<1> QED BY <1>6 DEF RoomKept

LEMMA KickKept ==
  ASSUME RoomKept, NEW d \in Room,
         \/ d = Kick(room)
         \/ d = [Kick(room) EXCEPT !.access = FALSE]
  PROVE  RefsKept(d)
<1> DEFINE f == ResetAttempts(Forget(AbortRun(room)))
           h == IF f.history = "loading" THEN "none" ELSE f.history
           k == [f EXCEPT !.kicked = TRUE, !.ready = FALSE, !.status = "inactive", !.history = h]
<1>1. AbortRun(room) \in Room /\ Same(room, AbortRun(room))
  BY AbortSame DEF RoomKept, RefsKept, Bounded, Same
<1>2. /\ f \in Room /\ f.epoch = room.epoch /\ f.up = room.up
      /\ f.sent = 0 /\ f.acked = 0 /\ f.rejected = 0 /\ f.attEpoch = 0
      /\ f.timer = 0 /\ f.attempts = 0
  BY <1>1, AfreshReady DEF Same, Bounded, RoomKept, RefsKept
<1>3. Kick(room) = k
  BY DEF Kick
<1>6. h \in {"none", "loading", "loaded"}
  BY <1>2 DEF Room
<1> HIDE DEF f, h
<1>7. /\ k \in Room /\ k.kicked = TRUE /\ k.epoch = f.epoch /\ k.up = f.up
      /\ k.sent = f.sent /\ k.acked = f.acked /\ k.rejected = f.rejected
      /\ k.attEpoch = f.attEpoch /\ k.timer = f.timer /\ k.attempts = f.attempts
  BY <1>2, <1>6 DEF Room
<1> HIDE DEF k
<1>4. /\ d.kicked = TRUE /\ d.epoch = f.epoch /\ d.up = f.up
      /\ d.sent = f.sent /\ d.acked = f.acked /\ d.rejected = f.rejected
      /\ d.attEpoch = f.attEpoch /\ d.timer = f.timer /\ d.attempts = f.attempts
  BY <1>3, <1>7 DEF Room
<1>5. room \in Room /\ (room.up => room.epoch # NoEpoch)
  BY DEF RoomKept, RefsKept, Bounded
<1> QED BY <1>2, <1>4, <1>5, LeftKept DEF Wants

LEMMA KeptInOrder == RoomKept => RoomInv
BY DEF RoomKept, RefsKept, Bounded, RoomInv, EpochsInOrder, Room

LEMMA LossKept ==
  ASSUME RoomKept, AccessLost \/ OnKicked
  PROVE  RoomKept'
<1>1. Kick(room) \in Room
  BY KickGood, KeptInOrder
<1>2. [Kick(room) EXCEPT !.access = FALSE] \in Room
  BY <1>1 DEF Room
<1>3. room' = Kick(room) \/ room' = [Kick(room) EXCEPT !.access = FALSE]
  BY DEF AccessLost, OnKicked
<1>4. RefsKept(room')
  BY <1>1, <1>2, <1>3, KickKept
<1> QED BY <1>4 DEF RoomKept

LEMMA AccessUncertainKept ==
  ASSUME RoomKept, AccessUncertain
  PROVE  RoomKept'
<1> DEFINE f == ResetAttempts(Forget(AbortRun(room)))
           h == IF f.history = "loading" THEN "none" ELSE f.history
<1>1. AbortRun(room) \in Room /\ Same(room, AbortRun(room))
  BY AbortSame DEF RoomKept, RefsKept, Bounded, Same
<1>2. /\ f \in Room /\ f.epoch = room.epoch /\ f.up = room.up
      /\ f.sent = 0 /\ f.acked = 0 /\ f.rejected = 0 /\ f.attEpoch = 0
      /\ f.timer = 0 /\ f.attempts = 0
  BY <1>1, AfreshReady DEF Same, Bounded, RoomKept, RefsKept
<1>3. room' = [f EXCEPT !.access = FALSE, !.status = "inactive", !.history = h]
  BY DEF AccessUncertain
<1>4. h \in {"none", "loading", "loaded"}
  BY <1>2 DEF Room
<1> HIDE DEF f, h
<1>5. /\ room' \in Room /\ ~Wants(room') /\ room'.epoch = f.epoch /\ room'.up = f.up
      /\ room'.sent = f.sent /\ room'.acked = f.acked /\ room'.rejected = f.rejected
      /\ room'.attEpoch = f.attEpoch /\ room'.timer = f.timer /\ room'.attempts = f.attempts
  BY <1>2, <1>3, <1>4 DEF Room, Wants
<1>6. room \in Room /\ (room.up => room.epoch # NoEpoch)
  BY DEF RoomKept, RefsKept, Bounded
<1>7. RefsKept(room')
  BY <1>2, <1>5, <1>6, LeftKept
<1> QED BY <1>7 DEF RoomKept

\* Without access there was no attempt, so the first one is free.
LEMMA AccessGrantedKept ==
  ASSUME RoomKept, NEW ok \in BOOLEAN, AccessGranted(ok)
  PROVE  RoomKept'
<1> DEFINE c == [room EXCEPT !.access = TRUE,
                             !.history = IF @ = "none" THEN "loading" ELSE @,
                             !.ready = IF room.history = "none" THEN room.locked ELSE @]
<1>1. room.epoch \in Nat /\ MaxSubscribes \in Nat /\ MaxSubscribes > 0
  BY SubscriptionBounds DEF RoomKept, RefsKept, Bounded, Room
<1>2. /\ c \in Room /\ c.focused = room.focused /\ c.access = TRUE /\ c.up = room.up
      /\ c.kicked = room.kicked /\ c.epoch = room.epoch
      /\ c.sent = room.sent /\ c.acked = room.acked /\ c.rejected = room.rejected
      /\ c.attEpoch = room.attEpoch /\ c.timer = room.timer /\ c.attempts = room.attempts
  BY DEF RoomKept, RefsKept, Bounded, Room
<1>3. /\ room.sent = NoEpoch /\ room.acked = NoEpoch /\ room.rejected = NoEpoch
      /\ room.attEpoch = NoEpoch
  BY DEF AccessGranted, RoomKept, RefsKept, Tracked
<1>4. Attempting(c, link, ok)
  BY DEF AccessGranted
<1> HIDE DEF c
<1>5. Bounded(c) /\ Tracked(c)
  BY <1>2, <1>3 DEF RoomKept, RefsKept, Bounded, Tracked, NoEpoch
<1>6. Ready(c)
  BY <1>1, <1>2, <1>3, <1>5 DEF Ready, Wants, Bounded, NoEpoch
<1> QED BY <1>2, <1>4, <1>5, <1>6, AttemptingKept

LEMMA ConnectionLostKept ==
  ASSUME RoomKept, ConnectionLost
  PROVE  RoomKept'
<1> DEFINE a == AbortRun([room EXCEPT !.up = FALSE])
           f == ResetAttempts(Forget(AbortRun(room)))
<1>1. AbortRun(room) \in Room /\ Same(room, AbortRun(room)) /\ room \in Room
  BY AbortSame DEF RoomKept, RefsKept, Bounded, Same
<1>2. /\ f \in Room /\ f.epoch = room.epoch
      /\ f.sent = 0 /\ f.acked = 0 /\ f.rejected = 0 /\ f.attEpoch = 0
      /\ f.timer = 0 /\ f.attempts = 0
  BY <1>1, AfreshReady DEF Same, Bounded, RoomKept, RefsKept
<1>3. room' = a \/ room' = [f EXCEPT !.up = FALSE, !.status = "waiting"]
  BY DEF ConnectionLost, Disconnected
<1>4. /\ a \in Room /\ a.up = FALSE /\ a.focused = room.focused /\ a.access = room.access
      /\ a.epoch = room.epoch /\ a.sent = room.sent /\ a.acked = room.acked
      /\ a.rejected = room.rejected /\ a.attEpoch = room.attEpoch /\ a.timer = room.timer
      /\ a.attempts = room.attempts
  BY <1>1 DEF AbortRun, Room, NoEpoch
<1> HIDE DEF a, f
<1>5. CASE room' = a
  BY <1>4, <1>5 DEF RoomKept, RefsKept, Bounded, Tracked, RoomTended, Wants
<1>6. CASE room' = [f EXCEPT !.up = FALSE, !.status = "waiting"]
  <2>1. /\ room' \in Room /\ ~Wants(room') /\ room'.epoch = f.epoch /\ room'.up = FALSE
        /\ room'.sent = f.sent /\ room'.acked = f.acked /\ room'.rejected = f.rejected
        /\ room'.attEpoch = f.attEpoch /\ room'.timer = f.timer /\ room'.attempts = f.attempts
    BY <1>2, <1>6 DEF Room, Wants
  <2>2. room.up => room.epoch # NoEpoch
    BY DEF RoomKept, RefsKept, Bounded
  <2>3. RefsKept(room')
    BY <1>1, <1>2, <2>1, <2>2, LeftKept
  <2> QED BY <2>3 DEF RoomKept
<1> QED BY <1>3, <1>5, <1>6

\* A new socket has a new epoch, ahead of every attempt.
LEMMA ConnectionOpensKept ==
  ASSUME RoomKept, NEW ok \in BOOLEAN, ConnectionOpens(ok)
  PROVE  RoomKept'
<1> DEFINE a == AbortRun(room)
           c == [a EXCEPT !.up = TRUE, !.epoch = @ + 1]
<1>1. a \in Room /\ Same(room, a)
  BY AbortSame DEF RoomKept, RefsKept, Bounded, Same
<1>2. Attempting(c, NewLink, ok)
  BY DEF ConnectionOpens
<1> HIDE DEF a
<1>8. PICK n \in Nat : n = a.epoch + 1
  BY <1>1 DEF Room
<1>9. c = [a EXCEPT !.up = TRUE, !.epoch = n]
  BY <1>8
<1> HIDE DEF c
<1>3. /\ c \in Room /\ c.focused = a.focused /\ c.access = a.access /\ c.up = TRUE
      /\ c.epoch = n /\ c.sent = a.sent /\ c.acked = a.acked
      /\ c.rejected = a.rejected /\ c.attEpoch = a.attEpoch /\ c.timer = a.timer
      /\ c.attempts = a.attempts
  BY <1>1, <1>9 DEF Room
<1>4. Bounded(a) /\ Tracked(a)
  BY <1>1, SameKept DEF RoomKept, RefsKept
<1>5. a.epoch \in Nat /\ n > a.epoch /\ n > 0
  BY <1>1, <1>8 DEF Room
<1>6. Bounded(c) /\ Tracked(c)
  BY <1>3, <1>4, <1>5 DEF Bounded, Tracked, NoEpoch, Room
<1>7. Ready(c)
  BY <1>3, <1>4, <1>5 DEF Ready, Bounded, Room
<1> QED BY <1>2, <1>3, <1>6, <1>7, AttemptingKept

\* The timer belongs to the epoch of the attempts: it tries again, gives up,
\* or finds that nothing is left to do.
LEMMA RecoveryTimerKept ==
  ASSUME RoomKept, NEW ok \in BOOLEAN, RecoveryTimer(ok)
  PROVE  RoomKept'
<1> DEFINE c == [room EXCEPT !.timer = NoEpoch]
           Idle == \/ ~c.focused \/ ~c.access \/ c.kicked \/ ~c.up
                   \/ room.timer # c.epoch \/ c.attEpoch # c.epoch
                   \/ c.epoch \in {c.acked, c.rejected}
           d == [c EXCEPT !.sent = NoEpoch, !.status = "waiting"]
<1>1. room \in Room /\ Bounded(room) /\ Tracked(room) /\ RoomTended(room)
  BY DEF RoomKept, RefsKept, Bounded
<1>2. /\ c \in Room /\ c.focused = room.focused /\ c.access = room.access /\ c.up = room.up
      /\ c.kicked = room.kicked /\ c.epoch = room.epoch
      /\ c.sent = room.sent /\ c.acked = room.acked /\ c.rejected = room.rejected
      /\ c.attEpoch = room.attEpoch /\ c.timer = NoEpoch /\ c.attempts = room.attempts
  BY <1>1 DEF Room, NoEpoch
<1>8. room.epoch \in Nat /\ room.timer # NoEpoch
  BY <1>1 DEF Room, RecoveryTimer
<1>3. Bounded(c) /\ Tracked(c)
  <2> HIDE DEF c
  <2> QED BY <1>1, <1>2, <1>8 DEF Bounded, Tracked, NoEpoch
<1>4. \/ Idle /\ room' = c
      \/ ~Idle /\ c.attempts >= MaxSubscribes
           /\ room' = [c EXCEPT !.rejected = c.epoch, !.status = "rejected"]
      \/ ~Idle /\ ~(c.attempts >= MaxSubscribes) /\ Attempting(d, link, ok)
  BY DEF RecoveryTimer
<1> HIDE DEF c
<1>5. CASE Idle /\ room' = c
  <2>1. RoomTended(c)
    BY <1>1, <1>2, <1>5, <1>8 DEF RoomTended, Wants, Live, Tracked
  <2> QED BY <1>3, <1>5, <2>1 DEF RoomKept, RefsKept
<1>6. CASE ~Idle /\ room' = [c EXCEPT !.rejected = c.epoch, !.status = "rejected"]
  <2>1. /\ room' \in Room /\ room'.rejected = c.epoch /\ room'.epoch = c.epoch
        /\ room'.focused = c.focused /\ room'.access = c.access /\ room'.up = c.up
        /\ room'.sent = c.sent /\ room'.acked = c.acked /\ room'.attEpoch = c.attEpoch
        /\ room'.timer = c.timer /\ room'.attempts = c.attempts
    BY <1>2, <1>6 DEF Room
  <2>2. c.epoch \in Nat
    BY <1>2 DEF Room
  <2> QED BY <1>3, <1>6, <2>1, <2>2 DEF RoomKept, RefsKept, Bounded, Tracked, RoomTended
<1>7. CASE ~Idle /\ ~(c.attempts >= MaxSubscribes) /\ Attempting(d, link, ok)
  <2>1. /\ d \in Room /\ d.sent = NoEpoch /\ d.rejected = c.rejected /\ d.epoch = c.epoch
        /\ d.focused = c.focused /\ d.access = c.access /\ d.up = c.up
        /\ d.acked = c.acked /\ d.attEpoch = c.attEpoch
        /\ d.timer = c.timer /\ d.attempts = c.attempts
    BY <1>2 DEF Room, NoEpoch
  <2> HIDE DEF d
  <2>2. c.epoch \in Nat /\ c.attempts \in Nat /\ MaxSubscribes \in Nat
    BY <1>2, SubscriptionBounds DEF Room
  <2>3. Bounded(d) /\ Tracked(d)
    BY <1>3, <2>1, <2>2 DEF Bounded, Tracked, NoEpoch
  <2>4. Ready(d)
    BY <1>3, <1>7, <2>1, <2>2 DEF Ready, Wants, Bounded, NoEpoch
  <2> QED BY <1>7, <2>1, <2>3, <2>4, AttemptingKept
<1> QED BY <1>4, <1>5, <1>6, <1>7

LEMMA RetrySubscriptionKept ==
  ASSUME RoomKept, NEW ok \in BOOLEAN, RetrySubscription(ok)
  PROVE  RoomKept'
<1> DEFINE f == ResetAttempts(Forget(room))
           d == [f EXCEPT !.status = "waiting"]
<1>1. f \in Room /\ Bounded(f) /\ Tracked(f) /\ Ready(f)
  BY AfreshReady DEF RoomKept, RefsKept, Bounded
<1>2. Attempting(d, link, ok)
  BY DEF RetrySubscription
<1> HIDE DEF f
<1>3. Same(f, d) /\ d \in Room
  BY <1>1 DEF Same, Room
<1> HIDE DEF d
<1>4. Bounded(d) /\ Tracked(d) /\ Ready(d)
  BY <1>1, <1>3, SameKept
<1> QED BY <1>2, <1>3, <1>4, AttemptingKept

\* Reads that are retried, loaded, ended, or asked for.
ReadSteps ==
  \/ RetryCatchUp \/ RetryInitialLoad \/ TripEnds
  \/ \E ok \in BOOLEAN : InitialLoadEnds(ok) \/ RunEnds(ok)

LEMMA ReadStepsSame ==
  ASSUME room \in Room, ReadSteps
  PROVE  Same(room, room')
<1>1. room \in Room
  OBVIOUS
<1>2. CASE RetryCatchUp
  <2>1. Same(room, room')
    BY <1>1, <1>2 DEF RetryCatchUp, Same, Room, NoEpoch
  <2> QED BY <2>1
<1>3. CASE RetryInitialLoad
  <2>1. Same(room, room')
    BY <1>1, <1>3 DEF RetryInitialLoad, Same, Room
  <2> QED BY <2>1
<1>4. CASE TripEnds
  <2> DEFINE c == [room EXCEPT !.locked = TRUE, !.ready = TRUE]
             q == [c EXCEPT !.requested = c.epoch]
  <2>1. room' = Schedule(q) \/ room' = c
    BY <1>4 DEF TripEnds, RequestRead
  <2>2. c \in Room /\ q \in Room /\ Same(room, c) /\ Same(room, q)
    BY <1>1 DEF Same, Room
  <2> HIDE DEF c, q
  <2>3. Same(room, room')
    BY <2>1, <2>2, ScheduleSame, SameTrans
  <2> QED BY <2>3
<1>5. CASE \E ok \in BOOLEAN : InitialLoadEnds(ok)
  <2> DEFINE c == [room EXCEPT !.history = "loaded", !.ready = TRUE]
             d == [room EXCEPT !.history = "none", !.ready = room.locked]
  <2>1. room' = Schedule(c) \/ room' = d
    BY <1>5 DEF InitialLoadEnds
  <2>2. c \in Room /\ Same(room, c) /\ Same(room, d)
    BY <1>1 DEF Same, Room
  <2> HIDE DEF c, d
  <2>3. Same(room, room')
    BY <2>1, <2>2, ScheduleSame, SameTrans
  <2> QED BY <2>3
<1>6. CASE \E ok \in BOOLEAN : RunEnds(ok)
  <2> DEFINE c == AbortRun(room)
  <2>1. c \in Room /\ Same(room, c)
    BY <1>1, AbortSame DEF Same
  <2> HIDE DEF c
  <2>2. \E n \in {NoEpoch, c.epoch, c.intent} :
          room' = Schedule(c) \/ room' = Schedule([c EXCEPT !.intent = n])
    BY <1>6 DEF RunEnds, c
  <2>3. PICK n \in {NoEpoch, c.epoch, c.intent} :
          room' = Schedule(c) \/ room' = Schedule([c EXCEPT !.intent = n])
    BY <2>2
  <2> DEFINE d == [c EXCEPT !.intent = n]
  <2>4. d \in Room /\ Same(c, d)
    BY <2>1 DEF Same, Room, NoEpoch
  <2> HIDE DEF d
  <2>5. Same(room, d)
    BY <2>1, <2>4, SameTrans
  <2>6. Same(room, room')
    BY <2>1, <2>3, <2>4, <2>5, ScheduleSame, SameTrans DEF d
  <2> QED BY <2>6
<1> QED BY <1>2, <1>3, <1>4, <1>5, <1>6 DEF ReadSteps

LEMMA ReadStepsKept ==
  ASSUME RoomKept, ReadSteps
  PROVE  RoomKept'
<1>1. room \in Room
  BY DEF RoomKept, RefsKept, Bounded
<1> QED BY <1>1, ReadStepsSame, ReadsKept

LEMMA OnSubscribedKept ==
  ASSUME RoomKept, OnSubscribed
  PROVE  RoomKept'
<1> DEFINE g == [room EXCEPT !.timer = NoEpoch, !.rejected = NoEpoch, !.status = "subscribed"]
           q == [room EXCEPT !.timer = NoEpoch, !.acked = room.epoch, !.rejected = NoEpoch,
                             !.status = "subscribed", !.intent = NoEpoch,
                             !.requested = room.epoch]
<1>1. /\ room \in Room /\ room.epoch \in Nat /\ Bounded(room) /\ Tracked(room)
      /\ RoomTended(room) /\ RefsKept(room)
  BY DEF RoomKept, RefsKept, Bounded, Room
<1>2. \/ room' = room
      \/ room.access /\ Expecting(room) /\ Live(room) /\ room' = g
      \/ room.access /\ Expecting(room) /\ room' = Schedule(q)
  BY DEF OnSubscribed, Acknowledge
<1>3. CASE room' = room
  BY <1>1, <1>3 DEF RoomKept
<1>4. CASE room.access /\ Expecting(room) /\ Live(room) /\ room' = g
  <2>1. /\ g \in Room /\ g.up = room.up /\ g.epoch = room.epoch /\ g.focused = room.focused
        /\ g.access = room.access /\ g.sent = room.sent /\ g.acked = room.acked
        /\ g.rejected = 0 /\ g.attEpoch = room.attEpoch /\ g.timer = 0
        /\ g.attempts = room.attempts
    BY <1>1 DEF Room, NoEpoch
  <2> HIDE DEF g
  <2>2. RefsKept(g)
    BY <1>1, <1>4, <2>1 DEF RefsKept, Bounded, Tracked, RoomTended, Live, Expecting, NoEpoch
  <2> QED BY <1>4, <2>2 DEF RoomKept
<1>5. CASE room.access /\ Expecting(room) /\ room' = Schedule(q)
  <2>1. /\ q \in Room /\ q.up = room.up /\ q.epoch = room.epoch /\ q.focused = room.focused
        /\ q.access = room.access /\ q.sent = room.sent /\ q.acked = room.epoch
        /\ q.rejected = 0 /\ q.attEpoch = room.attEpoch /\ q.timer = 0
        /\ q.attempts = room.attempts
    BY <1>1 DEF Room, NoEpoch
  <2> HIDE DEF q
  <2>2. RefsKept(q)
    BY <1>1, <1>5, <2>1 DEF RefsKept, Bounded, Tracked, RoomTended, Live, Expecting, NoEpoch
  <2>3. RefsKept(Schedule(q))
    BY <2>1, <2>2, ScheduleSame, SameKept
  <2> QED BY <1>5, <2>3 DEF RoomKept
<1> QED BY <1>2, <1>3, <1>4, <1>5

\* The answer to a leave drops the acknowledgement, and an open screen tries
\* again unless this epoch was given up.
LEMMA OnUnsubscribedKept ==
  ASSUME RoomKept, NEW ok \in BOOLEAN, OnUnsubscribed(ok)
  PROVE  RoomKept'
<1> DEFINE a == AbortRun(room)
           c == [a EXCEPT !.timer = NoEpoch, !.acked = NoEpoch,
                          !.requested = NoEpoch, !.intent = NoEpoch]
           r == ResetAttempts(c)
           d == [r EXCEPT !.sent = NoEpoch, !.status = "waiting"]
<1>1. a \in Room /\ Same(room, a) /\ room.epoch \in Nat
  BY AbortSame DEF RoomKept, RefsKept, Bounded, Same, Room
<1>2. \/ room' = room
      \/ c.focused /\ c.rejected # c.epoch /\ Attempting(d, Rest, ok)
      \/ ~(c.focused /\ c.rejected # c.epoch) /\ room' = c
  BY DEF OnUnsubscribed
<1> HIDE DEF a
<1>3. /\ c \in Room /\ c.up = a.up /\ c.epoch = a.epoch /\ c.focused = a.focused
      /\ c.access = a.access /\ c.kicked = a.kicked /\ c.sent = a.sent /\ c.acked = 0
      /\ c.rejected = a.rejected /\ c.attEpoch = a.attEpoch /\ c.timer = 0
      /\ c.attempts = a.attempts
  BY <1>1 DEF Room, NoEpoch
<1> HIDE DEF c
<1>4. /\ d \in Room /\ d.up = c.up /\ d.epoch = c.epoch /\ d.focused = c.focused
      /\ d.access = c.access /\ d.kicked = c.kicked /\ d.sent = 0 /\ d.acked = c.acked
      /\ d.rejected = c.rejected /\ d.attEpoch = 0 /\ d.timer = 0 /\ d.attempts = 0
  BY <1>3 DEF Room, NoEpoch, ResetAttempts
<1>5. Bounded(a) /\ Tracked(a)
  BY <1>1, SameKept DEF RoomKept, RefsKept
<1>6. a.epoch \in Nat /\ MaxSubscribes \in Nat /\ MaxSubscribes > 0
  BY <1>1, SubscriptionBounds DEF Room
<1> HIDE DEF d
<1>7. CASE room' = room
  BY <1>7 DEF RoomKept
<1>8. CASE c.focused /\ c.rejected # c.epoch /\ Attempting(d, Rest, ok)
  <2>1. Bounded(d) /\ Tracked(d)
    BY <1>3, <1>4, <1>5, <1>6 DEF Bounded, Tracked, NoEpoch
  <2>2. Ready(d)
    BY <1>4, <2>1 DEF Ready, Wants, Bounded, NoEpoch
  <2> QED BY <1>4, <1>8, <2>1, <2>2, AttemptingKept
<1>9. CASE ~(c.focused /\ c.rejected # c.epoch) /\ room' = c
  <2>1. Bounded(c) /\ Tracked(c)
    BY <1>3, <1>5, <1>6 DEF Bounded, Tracked, NoEpoch
  <2>2. RoomTended(c)
    BY <1>9 DEF RoomTended, Wants
  <2> QED BY <1>9, <2>1, <2>2 DEF RoomKept, RefsKept
<1> QED BY <1>2, <1>7, <1>8, <1>9

LEMMA OnErrorKept ==
  ASSUME RoomKept, NEW e \in {"limit", "error"}, OnError(e)
  PROVE  RoomKept'
<1> DEFINE g == [room EXCEPT !.timer = NoEpoch, !.rejected = room.epoch, !.status = "rejected"]
           w == [room EXCEPT !.sent = NoEpoch, !.status = "waiting", !.timer = room.epoch]
<1>1. /\ room \in Room /\ room.epoch \in Nat /\ Bounded(room) /\ Tracked(room)
      /\ RefsKept(room)
  BY DEF RoomKept, RefsKept, Bounded, Room
<1>2. \/ room' = room
      \/ room.access /\ Expecting(room) /\ room' = g
      \/ room.access /\ Expecting(room) /\ room' = w
  <2> DEFINE Stays == \/ room.kicked \/ ~room.access \/ ~Expecting(room) \/ Live(room)
  <2>1. room' = IF Stays THEN room ELSE IF e = "limit" THEN g ELSE w
    BY DEF OnError
  <2>2. ~Stays => room.access /\ Expecting(room)
    OBVIOUS
  <2> HIDE DEF Stays, g, w
  <2> QED BY <2>1, <2>2
<1>3. /\ g \in Room /\ g.up = room.up /\ g.epoch = room.epoch /\ g.focused = room.focused
      /\ g.access = room.access /\ g.sent = room.sent /\ g.acked = room.acked
      /\ g.rejected = room.epoch /\ g.attEpoch = room.attEpoch /\ g.timer = 0
      /\ g.attempts = room.attempts
  BY <1>1 DEF Room, NoEpoch
<1>4. /\ w \in Room /\ w.up = room.up /\ w.epoch = room.epoch /\ w.focused = room.focused
      /\ w.access = room.access /\ w.sent = 0 /\ w.acked = room.acked
      /\ w.rejected = room.rejected /\ w.attEpoch = room.attEpoch /\ w.timer = room.epoch
      /\ w.attempts = room.attempts
  BY <1>1 DEF Room, NoEpoch
<1> HIDE DEF g, w
<1>5. CASE room' = room
  BY <1>1, <1>5 DEF RoomKept
<1>6. CASE room.access /\ Expecting(room) /\ room' = g
  <2>1. Bounded(g) /\ Tracked(g) /\ RoomTended(g)
    BY <1>1, <1>3, <1>6 DEF Bounded, Tracked, RoomTended, Expecting, NoEpoch
  <2> QED BY <1>6, <2>1 DEF RoomKept, RefsKept
<1>7. CASE room.access /\ Expecting(room) /\ room' = w
  <2>1. Bounded(w) /\ Tracked(w) /\ RoomTended(w)
    BY <1>1, <1>4, <1>7 DEF Bounded, Tracked, RoomTended, Expecting, NoEpoch
  <2> QED BY <1>7, <2>1 DEF RoomKept, RefsKept
<1> QED BY <1>2, <1>5, <1>6, <1>7

LEMMA KeptStep == RoomKept /\ [SubscriptionNext]_chatVars => RoomKept'
<1> SUFFICES ASSUME RoomKept, [SubscriptionNext]_chatVars PROVE RoomKept'
  OBVIOUS
<1>1. CASE \/ Blur \/ AccessUncertain \/ AccessLost \/ OnKicked \/ ConnectionLost \/ OnSubscribed
  BY <1>1, BlurKept, AccessUncertainKept, LossKept, ConnectionLostKept, OnSubscribedKept
<1>2. CASE \E ok \in BOOLEAN : \/ Focus(ok) \/ AccessGranted(ok) \/ ConnectionOpens(ok)
  BY <1>2, FocusKept, AccessGrantedKept, ConnectionOpensKept
<1>3. CASE \E ok \in BOOLEAN : \/ RecoveryTimer(ok) \/ RetrySubscription(ok) \/ OnUnsubscribed(ok)
  BY <1>3, RecoveryTimerKept, RetrySubscriptionKept, OnUnsubscribedKept
<1>4. CASE \/ RetryCatchUp \/ RetryInitialLoad \/ TripEnds
           \/ \E ok \in BOOLEAN : InitialLoadEnds(ok) \/ RunEnds(ok)
  BY <1>4, ReadStepsKept DEF ReadSteps
<1>5. CASE \E answer \in {"subscribed", "unsubscribed", "limit", "error"} : ServerHandles(answer)
  <2>1. room' = room
    BY <1>5, Zenon DEF ServerHandles
  <2> QED BY <2>1 DEF RoomKept
<1>6. CASE \E e \in {"limit", "error"} : OnError(e)
  BY <1>6, OnErrorKept
<1>7. CASE UNCHANGED chatVars
  BY <1>7 DEF chatVars, RoomKept
<1>8. \/ Blur \/ AccessUncertain \/ AccessLost \/ OnKicked \/ ConnectionLost \/ OnSubscribed
      \/ \E ok \in BOOLEAN : \/ Focus(ok) \/ AccessGranted(ok) \/ ConnectionOpens(ok)
      \/ \E ok \in BOOLEAN : \/ RecoveryTimer(ok) \/ RetrySubscription(ok) \/ OnUnsubscribed(ok)
      \/ RetryCatchUp \/ RetryInitialLoad \/ TripEnds
      \/ \E ok \in BOOLEAN : InitialLoadEnds(ok) \/ RunEnds(ok)
      \/ \E answer \in {"subscribed", "unsubscribed", "limit", "error"} : ServerHandles(answer)
      \/ \E e \in {"limit", "error"} : OnError(e)
      \/ UNCHANGED chatVars
  BY Zenon DEF SubscriptionNext
<1> QED BY <1>1, <1>2, <1>3, <1>4, <1>5, <1>6, <1>7, <1>8

\* On a connected, open screen something is always due to happen: the room
\* is live, or it was given up, or a timer will try again (attemptSubscribe,
\* the acknowledgement timeout, and every handler that clears its timer).
THEOREM RoomStaysAttended == SubscriptionSpec => []RoomAttended
<1>1. RoomKept => RoomAttended
  BY DEF RoomKept, RefsKept, RoomTended, Wants, RoomAttended
<1> QED BY <1>1, KeptInit, KeptStep, PTL DEF SubscriptionSpec

-----------------------------------------------------------------------------
(* What the screen says is so on the server, or about to be taken back.    *)
(* What has to be added: no answer that the room is subscribed is under    *)
(* way, but the server has the room or has taken it back behind that       *)
(* answer; and "subscribed" is said of an open screen with access only.    *)

Denied(D) == \E i \in 1..Len(D) : D[i] = "unsubscribed"

Backed(joined, D) ==
  \A i \in 1..Len(D) :
    D[i] = "subscribed" => joined \/ \E k \in i + 1..Len(D) : D[k] = "unsubscribed"

Owned(c) ==
  c.status = "subscribed" =>
    c.focused /\ c.access /\ ~c.kicked /\ c.up /\ c.rejected # c.epoch

ServerInv ==
  /\ link \in Link
  /\ ~room.kicked => Backed(link.joined, link.down)
  /\ Owned(room)
  /\ room.status = "subscribed" => link.joined \/ Denied(link.down)

Answers == {"subscribed", "unsubscribed", "limit", "error"}

\* The answers on their way, when the first is taken and when one is added.
LEMMA AnswerTaken ==
  ASSUME NEW D \in Seq(Answers), D # <<>>, NEW joined \in BOOLEAN
  PROVE  /\ Tail(D) \in Seq(Answers)
         /\ Backed(joined, D) => Backed(joined, Tail(D))
         /\ Backed(joined, D) /\ Head(D) = "subscribed" => joined \/ Denied(Tail(D))
         /\ Denied(D) /\ Head(D) # "unsubscribed" => Denied(Tail(D))
<1>1. /\ Tail(D) \in Seq(Answers) /\ Len(D) \in Nat /\ Len(D) > 0 /\ Len(Tail(D)) = Len(D) - 1
      /\ Head(D) = D[1] /\ \A i \in 1..Len(D) - 1 : Tail(D)[i] = D[i + 1]
  OBVIOUS
<1>2. ASSUME Backed(joined, D), NEW i \in 1..Len(Tail(D)), Tail(D)[i] = "subscribed", ~joined
      PROVE  \E k \in i + 1..Len(Tail(D)) : Tail(D)[k] = "unsubscribed"
  <2>1. i + 1 \in 1..Len(D) /\ D[i + 1] = "subscribed"
    BY <1>1, <1>2
  <2>2. PICK k \in i + 2..Len(D) : D[k] = "unsubscribed"
    BY <1>1, <1>2, <2>1 DEF Backed
  <2>3. k - 1 \in i + 1..Len(Tail(D)) /\ Tail(D)[k - 1] = D[k]
    BY <1>1, <2>2
  <2> QED BY <2>2, <2>3
<1>3. ASSUME Backed(joined, D), D[1] = "subscribed", ~joined
      PROVE  Denied(Tail(D))
  <2>1. PICK k \in 2..Len(D) : D[k] = "unsubscribed"
    BY <1>1, <1>3 DEF Backed
  <2>2. k - 1 \in 1..Len(Tail(D)) /\ Tail(D)[k - 1] = D[k]
    BY <1>1, <2>1
  <2> QED BY <2>1, <2>2 DEF Denied
<1>4. ASSUME Denied(D), D[1] # "unsubscribed"
      PROVE  Denied(Tail(D))
  <2>1. PICK k \in 1..Len(D) : D[k] = "unsubscribed"
    BY <1>4 DEF Denied
  <2>2. k - 1 \in 1..Len(Tail(D)) /\ Tail(D)[k - 1] = D[k]
    BY <1>1, <1>4, <2>1
  <2> QED BY <2>1, <2>2 DEF Denied
<1> QED BY <1>1, <1>2, <1>3, <1>4 DEF Backed

LEMMA AnswerAdded ==
  ASSUME NEW D \in Seq(Answers), NEW e \in Answers
  PROVE  /\ Append(D, e) \in Seq(Answers)
         /\ e = "unsubscribed" => Denied(Append(D, e)) /\ Backed(FALSE, Append(D, e))
         /\ Denied(D) => Denied(Append(D, e))
         /\ e # "subscribed" /\ Backed(FALSE, D) => Backed(FALSE, Append(D, e))
         /\ Backed(TRUE, D)
<1>1. PICK E : E = Append(D, e)
  OBVIOUS
<1>2. /\ E \in Seq(Answers) /\ Len(D) \in Nat /\ Len(E) = Len(D) + 1 /\ E[Len(D) + 1] = e
      /\ \A i \in 1..Len(D) : E[i] = D[i]
  BY <1>1
<1>3. ASSUME e = "unsubscribed" PROVE Denied(E) /\ Backed(FALSE, E)
  <2>1. Len(E) \in 1..Len(E) /\ E[Len(E)] = "unsubscribed"
    BY <1>2, <1>3
  <2>2. \A i \in 1..Len(E) : E[i] = "subscribed" => Len(E) \in i + 1..Len(E)
    BY <1>2, <2>1
  <2> QED BY <2>1, <2>2 DEF Denied, Backed
<1>4. Denied(D) => Denied(E)
  BY <1>2 DEF Denied
<1>5. ASSUME e # "subscribed", Backed(FALSE, D), NEW i \in 1..Len(E), E[i] = "subscribed"
      PROVE  \E k \in i + 1..Len(E) : E[k] = "unsubscribed"
  <2>1. i \in 1..Len(D) /\ D[i] = "subscribed"
    BY <1>2, <1>5
  <2>2. PICK k \in i + 1..Len(D) : D[k] = "unsubscribed"
    BY <1>5, <2>1 DEF Backed
  <2> QED BY <1>2, <2>1, <2>2
<1>6. Backed(TRUE, D)
  BY DEF Backed
<1> QED BY <1>1, <1>2, <1>3, <1>4, <1>5, <1>6 DEF Backed

LEMMA LinkShape ==
  /\ NoLink \in Link /\ NoLink.down = <<>> /\ NoLink.joined = FALSE
  /\ NewLink \in Link /\ NewLink.down = <<>> /\ NewLink.joined = FALSE
  /\ \A j \in BOOLEAN : Backed(j, <<>>)
<1>1. <<>> \in Seq({"subscribe", "unsubscribe"}) /\ <<>> \in Seq(Answers)
  OBVIOUS
<1>2. NoLink \in Link /\ NoLink.down = <<>> /\ NoLink.joined = FALSE
  BY <1>1 DEF NoLink, Link, Answers
<1>3. NewLink \in Link /\ NewLink.down = <<>> /\ NewLink.joined = FALSE
  BY <1>2 DEF NewLink, Link
<1>4. \A j \in BOOLEAN : Backed(j, <<>>)
  BY DEF Backed
<1> QED BY <1>2, <1>3, <1>4

\* A command on its way changes no answer.
LEMMA CommandShape ==
  ASSUME NEW l \in Link, NEW cmd \in {"subscribe", "unsubscribe"}
  PROVE  LET m == Command(l, cmd) IN m \in Link /\ m.down = l.down /\ m.joined = l.joined
<1>1. PICK U : U = Append(l.up, cmd)
  OBVIOUS
<1>2. U \in Seq({"subscribe", "unsubscribe"})
  <2>1. l.up \in Seq({"subscribe", "unsubscribe"})
    BY DEF Link
  <2> QED BY <1>1, <2>1
<1>3. Command(l, cmd) = l \/ Command(l, cmd) = [l EXCEPT !.up = U]
  BY <1>1 DEF Command
<1> QED BY <1>2, <1>3 DEF Link

LEMMA LeaveShape ==
  ASSUME NEW c, NEW l \in Link
  PROVE  LET m == Leave(c, l) IN m \in Link /\ m.down = l.down /\ m.joined = l.joined
BY CommandShape DEF Leave

\* What an attempt does to the link and to the status.
LEMMA AttemptingShape ==
  ASSUME NEW c \in Room, NEW l \in Link, NEW ok \in BOOLEAN, Attempting(c, l, ok),
         Backed(l.joined, l.down)
  PROVE  /\ link' \in Link /\ Backed(link'.joined, link'.down)
         /\ room'.kicked = c.kicked
         /\ c.status # "subscribed" \/ Subscribes(c) => room'.status # "subscribed"
<1>1. room'.kicked = c.kicked /\ OfEpoch(c) \in Room
  BY AttemptKeeps, OfEpochKeeps DEF Attempting
<1>2. CASE Subscribes(c)
  <2>1. room'.status # "subscribed"
    BY <1>1, <1>2 DEF Attempting, Attempt, Room
  <2>2. link' = Command(l, "subscribe") \/ link' = NoLink
    BY <1>2 DEF Attempting
  <2> QED BY <1>1, <2>1, <2>2, CommandShape, LinkShape
<1>3. CASE ~Subscribes(c)
  <2>1. OfEpoch(c).status = c.status
    BY DEF OfEpoch, Room
  <2>2. room'.status = c.status /\ link' = l
    BY <1>3, <2>1 DEF Attempting, Attempt
  <2> QED BY <1>1, <1>3, <2>2
<1> QED BY <1>2, <1>3

\* A step after which nothing is claimed.
LEMMA NothingClaimed ==
  ASSUME ServerInv, room'.status # "subscribed", link' \in Link,
         room'.kicked \/ Backed(link'.joined, link'.down)
  PROVE  ServerInv'
BY DEF ServerInv, Owned

\* A step that is an attempt, from a room of which nothing is claimed.
LEMMA AttemptClaims ==
  ASSUME ServerInv, NEW c \in Room, NEW l \in Link, NEW ok \in BOOLEAN, Attempting(c, l, ok),
         ~c.kicked => Backed(l.joined, l.down),
         c.status # "subscribed" \/ Subscribes(c)
  PROVE  ServerInv'
<1>1. CASE c.kicked
  <2>1. ~Subscribes(c)
    BY <1>1 DEF Subscribes, MayAttempt
  <2>2. room'.kicked /\ room'.status = c.status /\ link' = l
    <3>1. OfEpoch(c).status = c.status
      BY DEF OfEpoch, Room
    <3> QED BY <1>1, <2>1, <3>1, AttemptKeeps DEF Attempting, Attempt
  <2> QED BY <2>1, <2>2, NothingClaimed
<1>2. CASE ~c.kicked
  BY <1>2, AttemptingShape, NothingClaimed
<1> QED BY <1>1, <1>2

LEMMA OpenStepsClaim ==
  ASSUME ServerInv, room \in Room, NEW ok \in BOOLEAN,
         Focus(ok) \/ AccessGranted(ok) \/ RetrySubscription(ok)
  PROVE  ServerInv'
<1>1. link \in Link /\ (~room.kicked => Backed(link.joined, link.down))
  BY DEF ServerInv
<1>2. CASE Focus(ok)
  <2>1. PICK b : b = [room EXCEPT !.focused = TRUE]
    OBVIOUS
  <2>2. b \in Room /\ b.kicked = room.kicked
    BY <2>1 DEF Room
  <2>3. PICK f : f = ResetAttempts(Forget(b))
    OBVIOUS
  <2>4. f \in Room /\ f.kicked = room.kicked
    BY <2>2, <2>3, ForgetKeeps
  <2>5. PICK st \in {"subscribing", "waiting"} : st = IF f.up THEN "subscribing" ELSE "waiting"
    OBVIOUS
  <2>6. PICK d : d = [f EXCEPT !.status = st]
    OBVIOUS
  <2>7. d \in Room /\ d.kicked = room.kicked /\ d.status # "subscribed"
    BY <2>4, <2>5, <2>6 DEF Room
  <2>8. Attempting(d, link, ok)
    BY <1>2, <2>1, <2>3, <2>5, <2>6 DEF Focus
  <2> QED BY <1>1, <2>7, <2>8, AttemptClaims
<1>3. CASE AccessGranted(ok)
  <2>1. PICK hist \in {"none", "loading", "loaded"} :
          hist = IF room.history = "none" THEN "loading" ELSE room.history
    BY DEF Room
  <2>2. PICK ready \in BOOLEAN : ready = IF room.history = "none" THEN room.locked ELSE room.ready
    BY DEF Room
  <2>3. PICK d : d = [room EXCEPT !.access = TRUE, !.history = hist, !.ready = ready]
    OBVIOUS
  <2>4. d \in Room /\ d.kicked = room.kicked /\ d.status = room.status
    BY <2>3 DEF Room
  <2>5. Attempting(d, link, ok) /\ ~room.access
    BY <1>3, <2>1, <2>2, <2>3 DEF AccessGranted
  <2>6. d.status # "subscribed"
    BY <2>4, <2>5 DEF ServerInv, Owned
  <2> QED BY <1>1, <2>4, <2>5, <2>6, AttemptClaims
<1>4. CASE RetrySubscription(ok)
  <2>1. PICK f : f = ResetAttempts(Forget(room))
    OBVIOUS
  <2>2. f \in Room /\ f.kicked = room.kicked
    BY <2>1, ForgetKeeps
  <2>3. PICK d : d = [f EXCEPT !.status = "waiting"]
    OBVIOUS
  <2>4. d \in Room /\ d.kicked = room.kicked /\ d.status # "subscribed"
    BY <2>2, <2>3 DEF Room
  <2>5. Attempting(d, link, ok)
    BY <1>4, <2>1, <2>3 DEF RetrySubscription
  <2> QED BY <1>1, <2>4, <2>5, AttemptClaims
<1> QED BY <1>2, <1>3, <1>4

LEMMA LeavesClaim ==
  ASSUME ServerInv, room \in Room,
         Blur \/ AccessUncertain \/ AccessLost \/ OnKicked \/ ConnectionLost
  PROVE  ServerInv'
<1>1. link \in Link /\ (~room.kicked => Backed(link.joined, link.down))
  BY DEF ServerInv
<1>2. CASE Blur
  <2>1. PICK a : a = ResetAttempts(Forget(AbortRun(room)))
    OBVIOUS
  <2>2. a \in Room /\ a.kicked = room.kicked
    BY <2>1, ForgetKeeps
  <2>3. room' = [a EXCEPT !.focused = FALSE, !.status = "inactive"] /\ link' = Leave(room, link)
    BY <1>2, <2>1 DEF Blur
  <2>4. room'.status = "inactive" /\ room'.kicked = room.kicked
    BY <2>2, <2>3 DEF Room
  <2> QED BY <1>1, <2>3, <2>4, LeaveShape, NothingClaimed
<1>3. CASE AccessUncertain
  <2>1. PICK a : a = ResetAttempts(Forget(AbortRun(room)))
    OBVIOUS
  <2>2. a \in Room /\ a.kicked = room.kicked
    BY <2>1, ForgetKeeps
  <2>3. /\ room' = [a EXCEPT !.access = FALSE, !.status = "inactive",
                             !.history = IF @ = "loading" THEN "none" ELSE @]
        /\ link' = Leave(room, link)
    BY <1>3, <2>1 DEF AccessUncertain
  <2>4. room'.status = "inactive" /\ room'.kicked = room.kicked
    BY <2>2, <2>3 DEF Room
  <2> QED BY <1>1, <2>3, <2>4, LeaveShape, NothingClaimed
<1>4. CASE AccessLost \/ OnKicked
  <2>1. PICK a : a = ResetAttempts(Forget(AbortRun(room)))
    OBVIOUS
  <2>2. a \in Room
    BY <2>1, ForgetKeeps
  <2>3. PICK k : k = Kick(room)
    OBVIOUS
  <2>4. k.status = "inactive" /\ k.kicked = TRUE /\ k \in Room
    BY <2>1, <2>2, <2>3 DEF Kick, Room
  <2>5. room' = k \/ room' = [k EXCEPT !.access = FALSE]
    BY <1>4, <2>3 DEF AccessLost, OnKicked
  <2>6. room'.status = "inactive" /\ room'.kicked
    BY <2>4, <2>5 DEF Room
  <2>7. link' \in Link
    <3>1. [link EXCEPT !.joined = FALSE] \in Link
      BY <1>1 DEF Link
    <3> QED BY <1>1, <1>4, <3>1, LeaveShape DEF AccessLost, OnKicked
  <2> QED BY <2>6, <2>7, NothingClaimed
<1>5. CASE ConnectionLost
  <2>1. room' = Disconnected(room) /\ link' = NoLink
    BY <1>5 DEF ConnectionLost
  <2>2. PICK a : a = ResetAttempts(Forget(AbortRun(room)))
    OBVIOUS
  <2>3. a \in Room
    BY <2>2, ForgetKeeps
  <2>4. PICK b : b = [room EXCEPT !.up = FALSE]
    OBVIOUS
  <2>5. b \in Room /\ b.status = room.status
    BY <2>4 DEF Room
  <2>6. PICK d : d = AbortRun(b)
    OBVIOUS
  <2>7. d.status = room.status
    BY <2>5, <2>6 DEF AbortRun, Room
  <2>8. PICK w : w = [a EXCEPT !.up = FALSE, !.status = "waiting"]
    OBVIOUS
  <2>9. w.status = "waiting"
    BY <2>3, <2>8 DEF Room
  <2>10. \/ room' = d /\ ~(room.focused /\ ~room.kicked /\ room.access)
         \/ room' = w
    BY <2>1, <2>2, <2>4, <2>6, <2>8 DEF Disconnected
  <2>11. room'.status # "subscribed"
    BY <2>7, <2>9, <2>10 DEF ServerInv, Owned
  <2> QED BY <2>1, <2>11, LinkShape, NothingClaimed
<1> QED BY <1>2, <1>3, <1>4, <1>5

\* A new socket has acknowledged nothing, so that what was shown is withdrawn.
LEMMA OpensClaims ==
  ASSUME ServerInv, RoomKept, NEW ok \in BOOLEAN, ConnectionOpens(ok)
  PROVE  ServerInv'
<1>1. room \in Room /\ Bounded(room) /\ MaxSubscribes \in Nat \ {0}
  BY SubscriptionBounds DEF RoomKept, RefsKept, Bounded
<1>2. PICK n \in Nat : n = room.epoch + 1
  BY <1>1 DEF Room
<1>3. PICK a : a = AbortRun(room)
  OBVIOUS
<1>4. a \in Room /\ Same(room, a) /\ a.status = room.status
  BY <1>1, <1>3, AbortSame DEF Same, AbortRun, Room
<1>5. PICK c : c = [a EXCEPT !.up = TRUE, !.epoch = n]
  OBVIOUS
<1>6. Attempting(c, NewLink, ok)
  <2>1. c = [AbortRun(room) EXCEPT !.up = TRUE, !.epoch = @ + 1]
    <3>1. a.epoch = room.epoch
      BY <1>4 DEF Same
    <3> QED BY <1>2, <1>3, <1>5, <3>1
  <2> QED BY <2>1 DEF ConnectionOpens
<1>7. /\ c \in Room /\ c.status = room.status /\ c.kicked = room.kicked
      /\ c.focused = room.focused /\ c.access = room.access /\ c.up = TRUE /\ c.epoch = n
      /\ c.sent = room.sent /\ c.acked = room.acked /\ c.rejected = room.rejected
      /\ c.attEpoch = room.attEpoch
  BY <1>4, <1>5 DEF Same, Room
<1>8. c.epoch \notin {c.sent, c.acked, c.rejected} /\ c.attEpoch # c.epoch
  BY <1>1, <1>2, <1>7 DEF Bounded, Room
<1>9. room.status = "subscribed" => Subscribes(c)
  <2>1. room.status = "subscribed" => MayAttempt(c)
    BY <1>7, <1>8 DEF ServerInv, Owned, MayAttempt
  <2>2. OfEpoch(c).attempts = 0
    BY <1>7, <1>8 DEF OfEpoch, Room
  <2> QED BY <1>1, <2>1, <2>2 DEF Subscribes
<1> QED BY <1>6, <1>7, <1>9, LinkShape, AttemptClaims

LEMMA TimerClaims ==
  ASSUME ServerInv, room \in Room, NEW ok \in BOOLEAN, RecoveryTimer(ok)
  PROVE  ServerInv'
<1>1. link \in Link /\ (~room.kicked => Backed(link.joined, link.down))
  BY DEF ServerInv
<1>2. PICK c : c = [room EXCEPT !.timer = NoEpoch]
  OBVIOUS
<1>3. /\ c \in Room /\ c.status = room.status /\ c.focused = room.focused
      /\ c.access = room.access /\ c.kicked = room.kicked /\ c.up = room.up
      /\ c.rejected = room.rejected /\ c.epoch = room.epoch
  BY <1>2 DEF Room, NoEpoch
<1>4. PICK d : d = [c EXCEPT !.sent = NoEpoch, !.status = "waiting"]
  OBVIOUS
<1>5. d \in Room /\ d.status = "waiting" /\ d.kicked = room.kicked
  BY <1>3, <1>4 DEF Room, NoEpoch
<1>6. \/ room' = c /\ link' = link
      \/ room' = [c EXCEPT !.rejected = c.epoch, !.status = "rejected"] /\ link' = link
      \/ Attempting(d, link, ok)
  BY <1>2, <1>4 DEF RecoveryTimer
<1>7. CASE room' = c /\ link' = link
  BY <1>3, <1>7 DEF ServerInv, Owned
<1>8. CASE room' = [c EXCEPT !.rejected = c.epoch, !.status = "rejected"] /\ link' = link
  <2>1. room'.status # "subscribed" /\ room'.kicked = room.kicked
    BY <1>3, <1>8 DEF Room
  <2> QED BY <1>1, <1>8, <2>1, NothingClaimed
<1>9. CASE Attempting(d, link, ok)
  BY <1>1, <1>5, <1>9, AttemptClaims
<1> QED BY <1>6, <1>7, <1>8, <1>9

LEMMA ReadsClaim ==
  ASSUME ServerInv, room \in Room, ReadSteps
  PROVE  ServerInv'
<1>1. Same(room, room') /\ link' = link
  BY ReadStepsSame DEF ReadSteps, RetryCatchUp, RetryInitialLoad, TripEnds, InitialLoadEnds, RunEnds
<1>2. \A c \in Room : Schedule(c).status = c.status
  BY DEF Schedule, Room
<1>3. room'.status = room.status
  <2>1. CASE RetryCatchUp \/ RetryInitialLoad
    BY <2>1 DEF RetryCatchUp, RetryInitialLoad, Room
  <2>2. CASE TripEnds
    <3>1. PICK c : c = [room EXCEPT !.locked = TRUE, !.ready = TRUE]
      OBVIOUS
    <3>2. PICK q : q = [c EXCEPT !.requested = c.epoch]
      OBVIOUS
    <3>3. c \in Room /\ q \in Room /\ c.status = room.status /\ q.status = room.status
      BY <3>1, <3>2 DEF Room
    <3>4. room' = c \/ room' = Schedule(q)
      BY <2>2, <3>1, <3>2 DEF TripEnds, RequestRead
    <3> QED BY <1>2, <3>3, <3>4
  <2>3. CASE \E ok \in BOOLEAN : InitialLoadEnds(ok)
    <3>1. PICK c : c = [room EXCEPT !.history = "loaded", !.ready = TRUE]
      OBVIOUS
    <3>2. c \in Room /\ c.status = room.status
      BY <3>1 DEF Room
    <3>3. room' = Schedule(c) \/ room' = [room EXCEPT !.history = "none", !.ready = room.locked]
      BY <2>3, <3>1 DEF InitialLoadEnds
    <3> QED BY <1>2, <3>2, <3>3 DEF Room
  <2>4. CASE \E ok \in BOOLEAN : RunEnds(ok)
    <3>1. PICK c : c = AbortRun(room)
      OBVIOUS
    <3>2. c \in Room /\ c.status = room.status
      BY <3>1 DEF AbortRun, Room, NoEpoch
    <3>3. \E n \in {NoEpoch, c.epoch} :
            room' = Schedule(c) \/ room' = Schedule([c EXCEPT !.intent = n])
      BY <2>4, <3>1 DEF RunEnds
    <3>4. PICK n \in {NoEpoch, c.epoch} :
            room' = Schedule(c) \/ room' = Schedule([c EXCEPT !.intent = n])
      BY <3>3
    <3>5. PICK d : d = [c EXCEPT !.intent = n]
      OBVIOUS
    <3>6. d \in Room /\ d.status = room.status
      BY <3>2, <3>5 DEF Room, NoEpoch
    <3> QED BY <1>2, <3>2, <3>4, <3>5, <3>6
  <2> QED BY <2>1, <2>2, <2>3, <2>4 DEF ReadSteps
<1> QED BY <1>1, <1>3 DEF ServerInv, Owned, Same

\* The head of the answers is taken.
LEMMA RestShape ==
  ASSUME link \in Link, link.down # <<>>
  PROVE  Rest \in Link /\ Rest.down = Tail(link.down) /\ Rest.joined = link.joined
<1>1. PICK D : D = Tail(link.down)
  OBVIOUS
<1>2. D \in Seq(Answers)
  <2>1. link.down \in Seq(Answers)
    BY DEF Link, Answers
  <2> QED BY <1>1, <2>1, AnswerTaken
<1>3. Rest = [link EXCEPT !.down = D]
  BY <1>1 DEF Rest
<1> QED BY <1>1, <1>2, <1>3 DEF Link, Answers

LEMMA AnswersClaim ==
  ASSUME ServerInv, RoomKept,
         \/ OnSubscribed \/ \E ok \in BOOLEAN : OnUnsubscribed(ok)
         \/ \E e \in {"limit", "error"} : OnError(e)
  PROVE  ServerInv'
<1>1. /\ room \in Room /\ (room.up => room.epoch # NoEpoch) /\ link \in Link
      /\ link.joined \in BOOLEAN /\ link.down \in Seq(Answers)
  BY DEF RoomKept, RefsKept, Bounded, ServerInv, Link, Answers
<1>2. link.down # <<>>
  BY DEF OnSubscribed, OnUnsubscribed, OnError, Received
<1>3. /\ Rest \in Link /\ Rest.down = Tail(link.down) /\ Rest.joined = link.joined
      /\ ~room.kicked => Backed(Rest.joined, Rest.down)
  BY <1>1, <1>2, RestShape, AnswerTaken DEF ServerInv
<1>4. CASE OnSubscribed
  <2>1. link' = Rest /\ Head(link.down) = "subscribed"
    BY <1>4 DEF OnSubscribed, Received
  <2>2. ~room.kicked => Rest.joined \/ Denied(Rest.down)
    BY <1>1, <1>2, <1>3, <2>1, AnswerTaken DEF ServerInv
  <2>3. \/ room' = room
        \/ ~room.kicked /\ room.access /\ Expecting(room) /\ room' = Acknowledge(room)
    BY <1>4 DEF OnSubscribed
  <2>4. CASE room' = room
    BY <1>3, <2>1, <2>2, <2>4 DEF ServerInv, Owned
  <2>5. CASE ~room.kicked /\ room.access /\ Expecting(room) /\ room' = Acknowledge(room)
    <3>1. PICK g : g = [room EXCEPT !.timer = NoEpoch, !.rejected = NoEpoch, !.status = "subscribed"]
      OBVIOUS
    <3>2. PICK q : q = [room EXCEPT !.timer = NoEpoch, !.acked = room.epoch, !.rejected = NoEpoch,
                                    !.status = "subscribed", !.intent = NoEpoch,
                                    !.requested = room.epoch]
      OBVIOUS
    <3> DEFINE Shown(x) ==
           /\ x \in Room /\ x.focused = room.focused /\ x.access = room.access
           /\ x.kicked = room.kicked /\ x.up = room.up /\ x.epoch = room.epoch
           /\ x.rejected = NoEpoch
    <3>3. Shown(g) /\ Shown(q)
      <4>1. Shown(g)
        BY <1>1, <3>1 DEF Room, NoEpoch
      <4>2. Shown(q)
        BY <1>1, <3>2 DEF Room, NoEpoch
      <4> QED BY <4>1, <4>2
    <3>4. room' = g \/ room' = Schedule(q)
      BY <2>5, <3>1, <3>2 DEF Acknowledge
    <3>5. Same(g, room') \/ Same(q, room')
      BY <3>3, <3>4, ScheduleSame DEF Same
    <3>6. Owned(room') /\ ~room'.kicked
      BY <1>1, <2>5, <3>3, <3>5 DEF Owned, Same, Expecting
    <3> QED BY <1>3, <2>1, <2>2, <2>5, <3>6 DEF ServerInv
  <2> QED BY <2>3, <2>4, <2>5
<1>5. CASE \E ok \in BOOLEAN : OnUnsubscribed(ok)
  <2>1. PICK ok \in BOOLEAN : OnUnsubscribed(ok)
    BY <1>5
  <2>2. PICK a : a = AbortRun(room)
    OBVIOUS
  <2>3. /\ a \in Room /\ a.kicked = room.kicked /\ a.status = room.status
        /\ a.focused = room.focused /\ a.rejected = room.rejected /\ a.epoch = room.epoch
    BY <1>1, <2>2 DEF AbortRun, Room, NoEpoch
  <2>4. PICK c : c = [a EXCEPT !.timer = NoEpoch, !.acked = NoEpoch,
                               !.requested = NoEpoch, !.intent = NoEpoch]
    OBVIOUS
  <2>5. /\ c \in Room /\ c.kicked = room.kicked /\ c.status = room.status
        /\ c.focused = room.focused /\ c.rejected = room.rejected /\ c.epoch = room.epoch
    BY <2>3, <2>4 DEF Room, NoEpoch
  <2>6. PICK b : b = ResetAttempts(c)
    OBVIOUS
  <2>7. PICK d : d = [b EXCEPT !.sent = NoEpoch, !.status = "waiting"]
    OBVIOUS
  <2>8. b \in Room /\ b.kicked = room.kicked
    BY <2>5, <2>6, ForgetKeeps
  <2>9. d \in Room /\ d.kicked = room.kicked /\ d.status # "subscribed"
    BY <2>7, <2>8 DEF Room, NoEpoch
  <2>10. \/ room' = room /\ link' = Rest /\ (room.kicked \/ ~room.access)
         \/ Attempting(d, Rest, ok)
         \/ ~(c.focused /\ c.rejected # c.epoch) /\ room' = c /\ link' = Rest
    BY <2>1, <2>2, <2>4, <2>6, <2>7 DEF OnUnsubscribed
  <2>11. CASE Attempting(d, Rest, ok)
    BY <1>3, <2>9, <2>11, AttemptClaims
  <2>12. CASE /\ link' = Rest /\ room'.status # "subscribed" /\ room'.kicked = room.kicked
    BY <1>3, <2>12, NothingClaimed
  <2>13. \/ Attempting(d, Rest, ok)
         \/ link' = Rest /\ room'.status # "subscribed" /\ room'.kicked = room.kicked
    BY <2>5, <2>10 DEF ServerInv, Owned
  <2> QED BY <2>11, <2>12, <2>13
<1>6. CASE \E e \in {"limit", "error"} : OnError(e)
  <2>1. PICK e \in {"limit", "error"} : OnError(e)
    BY <1>6
  <2>2. link' = Rest /\ Head(link.down) # "unsubscribed"
    BY <2>1 DEF OnError, Received
  <2>3. \/ room' = room
        \/ room' = [room EXCEPT !.timer = NoEpoch, !.rejected = room.epoch, !.status = "rejected"]
        \/ room' = [room EXCEPT !.sent = NoEpoch, !.status = "waiting", !.timer = room.epoch]
    <3> DEFINE Stays == \/ room.kicked \/ ~room.access \/ ~Expecting(room) \/ Live(room)
               g == [room EXCEPT !.timer = NoEpoch, !.rejected = room.epoch, !.status = "rejected"]
               w == [room EXCEPT !.sent = NoEpoch, !.status = "waiting", !.timer = room.epoch]
    <3>1. room' = IF Stays THEN room ELSE IF e = "limit" THEN g ELSE w
      BY <2>1 DEF OnError
    <3> HIDE DEF Stays, g, w
    <3>2. room' \in {room, g, w}
      BY <3>1
    <3> QED BY <3>2 DEF g, w
  <2>4. CASE room' = room
    <3>1. Denied(link.down) => Denied(Rest.down)
      BY <1>1, <1>2, <1>3, <2>2, AnswerTaken
    <3> QED BY <1>3, <2>2, <2>4, <3>1 DEF ServerInv, Owned
  <2>5. CASE room'.status # "subscribed" /\ room'.kicked = room.kicked
    BY <1>3, <2>2, <2>5, NothingClaimed
  <2>6. room' = room \/ (room'.status # "subscribed" /\ room'.kicked = room.kicked)
    BY <1>1, <2>3 DEF Room
  <2> QED BY <2>4, <2>5, <2>6
<1> QED BY <1>4, <1>5, <1>6

LEMMA ServerClaims ==
  ASSUME ServerInv, NEW answer \in Answers, ServerHandles(answer)
  PROVE  ServerInv'
<1>1. /\ link \in Link /\ link.joined \in BOOLEAN /\ link.down \in Seq(Answers)
      /\ link.up \in Seq({"subscribe", "unsubscribe"}) /\ link.up # <<>>
      /\ room' = room
  BY Zenon DEF ServerInv, Link, Answers, ServerHandles
<1>2. PICK U : U = Tail(link.up)
  OBVIOUS
<1>3. U \in Seq({"subscribe", "unsubscribe"})
  BY <1>1, <1>2
<1>4. PICK D : D = Append(link.down, answer)
  OBVIOUS
<1>5. /\ D \in Seq(Answers)
      /\ answer = "unsubscribed" => Denied(D) /\ Backed(FALSE, D)
      /\ Denied(link.down) => Denied(D)
      /\ answer # "subscribed" /\ Backed(FALSE, link.down) => Backed(FALSE, D)
      /\ Backed(TRUE, D)
  BY <1>1, <1>4, AnswerAdded
<1>6. \E joined \in BOOLEAN :
        /\ link' = [link EXCEPT !.up = U, !.joined = joined, !.down = D]
        /\ \/ answer = "unsubscribed" /\ joined = FALSE
           \/ link.joined /\ joined = TRUE
           \/ ~link.joined /\ joined = (answer = "subscribed")
  <2>1. PICK l : l = [link EXCEPT !.up = U]
    OBVIOUS
  <2>2. l \in Link /\ l.down = link.down /\ l.joined = link.joined
    BY <1>1, <1>3, <2>1 DEF Link
  <2>3. \/ answer = "unsubscribed" /\ link' = Reply([l EXCEPT !.joined = FALSE], answer)
        \/ link.joined /\ link' = Reply(l, answer)
        \/ ~link.joined /\ link' = Reply([l EXCEPT !.joined = answer = "subscribed"], answer)
    <3>1. Head(link.up) \in {"subscribe", "unsubscribe"}
      BY <1>1
    <3> QED BY <1>1, <1>2, <2>1, <3>1, Zenon DEF ServerHandles
  <2>4. \A j \in BOOLEAN : Reply([l EXCEPT !.joined = j], answer)
                           = [link EXCEPT !.up = U, !.joined = j, !.down = D]
    BY <1>1, <1>4, <2>1, <2>2 DEF Reply, Link
  <2>5. Reply(l, answer) = [link EXCEPT !.up = U, !.joined = link.joined, !.down = D]
    BY <1>1, <1>4, <2>1, <2>2 DEF Reply, Link
  <2> QED BY <1>1, <2>3, <2>4, <2>5
<1>7. PICK joined \in BOOLEAN :
        /\ link' = [link EXCEPT !.up = U, !.joined = joined, !.down = D]
        /\ \/ answer = "unsubscribed" /\ joined = FALSE
           \/ link.joined /\ joined = TRUE
           \/ ~link.joined /\ joined = (answer = "subscribed")
  BY <1>6
<1>8. link' \in Link /\ link'.joined = joined /\ link'.down = D
  BY <1>1, <1>3, <1>5, <1>7 DEF Link, Answers
<1>9. ~room.kicked => Backed(joined, D)
  <2>1. CASE joined = TRUE
    BY <1>5, <2>1
  <2>2. CASE joined = FALSE
    BY <1>1, <1>5, <1>7, <2>2 DEF ServerInv
  <2> QED BY <2>1, <2>2
<1>10. link.joined \/ Denied(link.down) => joined \/ Denied(D)
  BY <1>5, <1>7
<1> QED BY <1>1, <1>8, <1>9, <1>10 DEF ServerInv, Owned

LEMMA ServerInit == SubscriptionInit => ServerInv
<1> SUFFICES ASSUME SubscriptionInit PROVE ServerInv
  OBVIOUS
<1>1. link = NoLink /\ room.status = "inactive"
  BY DEF SubscriptionInit
<1> QED BY <1>1, LinkShape DEF ServerInv, Owned

LEMMA ServerStep == RoomKept /\ ServerInv /\ [SubscriptionNext]_chatVars => ServerInv'
<1> SUFFICES ASSUME RoomKept, ServerInv, [SubscriptionNext]_chatVars PROVE ServerInv'
  OBVIOUS
<1>1. room \in Room
  BY DEF RoomKept, RefsKept, Bounded
<1>2. CASE Blur \/ AccessUncertain \/ AccessLost \/ OnKicked \/ ConnectionLost
  BY <1>1, <1>2, LeavesClaim
<1>3. CASE \E ok \in BOOLEAN : Focus(ok) \/ AccessGranted(ok) \/ RetrySubscription(ok)
  BY <1>1, <1>3, OpenStepsClaim
<1>4. CASE \E ok \in BOOLEAN : ConnectionOpens(ok)
  BY <1>4, OpensClaims
<1>5. CASE \E ok \in BOOLEAN : RecoveryTimer(ok)
  BY <1>1, <1>5, TimerClaims
<1>6. CASE ReadSteps
  BY <1>1, <1>6, ReadsClaim
<1>7. CASE \/ OnSubscribed \/ \E ok \in BOOLEAN : OnUnsubscribed(ok)
           \/ \E e \in {"limit", "error"} : OnError(e)
  BY <1>7, AnswersClaim
<1>8. CASE \E answer \in Answers : ServerHandles(answer)
  BY <1>8, ServerClaims
<1>9. CASE UNCHANGED chatVars
  BY <1>9 DEF chatVars, ServerInv
<1>10. \/ Blur \/ AccessUncertain \/ AccessLost \/ OnKicked \/ ConnectionLost
       \/ \E ok \in BOOLEAN : Focus(ok) \/ AccessGranted(ok) \/ RetrySubscription(ok)
       \/ \E ok \in BOOLEAN : ConnectionOpens(ok)
       \/ \E ok \in BOOLEAN : RecoveryTimer(ok)
       \/ ReadSteps
       \/ OnSubscribed \/ \E ok \in BOOLEAN : OnUnsubscribed(ok)
       \/ \E e \in {"limit", "error"} : OnError(e)
       \/ \E answer \in Answers : ServerHandles(answer)
       \/ UNCHANGED chatVars
  BY Zenon DEF SubscriptionNext, ReadSteps, Answers
<1> QED BY <1>2, <1>3, <1>4, <1>5, <1>6, <1>7, <1>8, <1>9, <1>10

\* What the hook tells itself and the user about its subscription: something
\* is always due while the room is not live, and "subscribed" is shown only
\* while the server has the room, or its answer that it has not is on the way
\* (the realtime handler, onLeave, kickRoom, the connection effect).
THEOREM SubscriptionStaysSound == SubscriptionSpec => []SubscriptionSound
<1>1. RoomKept => RoomAttended
  BY DEF RoomKept, RefsKept, RoomTended, Wants, RoomAttended
<1>2. ServerInv => SubscribedIsTrue
  BY DEF ServerInv, Denied, SubscribedIsTrue
<1>3. RoomKept /\ ServerInv => SubscriptionSound
  BY <1>1, <1>2 DEF SubscriptionSound
<1> QED BY <1>3, KeptInit, KeptStep, ServerInit, ServerStep, PTL DEF SubscriptionSpec

\* Attempts are limited, and no timer, request or acknowledgement is of an epoch
\* that has not been opened (the refs of useTripChat, and the link).
THEOREM SubscriptionTyped == SubscriptionSpec => []SubscriptionTypeOK
<1>1. RoomKept => /\ room \in Room /\ room.attempts <= MaxSubscribes
                  /\ {room.sent, room.acked, room.rejected, room.attEpoch, room.timer} \subseteq 0..room.epoch
  BY DEF RoomKept, RefsKept, Bounded, Room
<1>2. RoomKept /\ ServerInv => SubscriptionTypeOK
  BY <1>1 DEF ServerInv, SubscriptionTypeOK
<1> QED BY <1>2, KeptInit, KeptStep, ServerInit, ServerStep, PTL DEF SubscriptionSpec


(***************************************************************************)
(* The upload.  Its inductive invariant says of the photos that those the  *)
(* server may have stored come before the batch, what is being sent and    *)
(* the cursor; of the prepared files, that each is in the batch, waits for *)
(* the next one, is being sent or is being discarded, and in which pc each *)
(* of these can be; of the picked sources, which deletions are awaited; of *)
(* the run, the maintenance and the close, whose turn it is; and what has  *)
(* been given up once the phase is terminal.  Every operator that maps one *)
(* state to the next is shown to keep it from a session in which nothing   *)
(* is awaited (Calm); what an action leaves to it is such a session.       *)
(***************************************************************************)

Cursors == 1..MaxPicked + 1

PhotoStates == {"queued", "processing", "ready", "uploading", "uploaded", "unknown", "failed", "rejected"}
AtPhoto == {"preprocess", "adopt", "drop", "spoil", "large", "reject"}
Awaits == AtPhoto \cup {"idle", "upload", "recorded", "candidate", "release", "close"}

Uploads ==
  [slow : BOOLEAN, st : [Photos -> PhotoStates], cursor : Cursors,
   batch : SUBSET Photos, cand : SUBSET Photos, flight : SUBSET Photos,
   phase : Terminal \cup {"selected", "preprocessing", "uploading", "paused", "throttled"},
   intent : {"running", "pause", "stop", "cancel"}, run : {"none", "waiting", "active"},
   cancel : {"none", "asked", "done"}, pc : Awaits, who : {"none", "run", "task", "cancel"},
   goal : Terminal \cup {"none", "paused"}, outcome : Outcomes \cup {"none"},
   owed : BOOLEAN, aborted : BOOLEAN, lease : BOOLEAN,
   temps : SUBSET Photos, trash : SUBSET Photos, owned : SUBSET Photos,
   unlinking : SUBSET Photos, stored : SUBSET Photos]

\* Photos are sent in the order they were picked: what the server may have
\* stored lies before all that may still be sent.
InOrder(u) ==
  /\ \A s \in u.stored : /\ s < u.cursor /\ u.st[s] \in {"uploading", "uploaded", "unknown"}
                         /\ \A b \in u.batch : s < b
                         /\ u.pc = "upload" => \A f \in u.flight : s < f
  /\ \A b \in u.batch \cup u.flight : b < u.cursor
  /\ u.cand \subseteq {u.cursor}
  /\ u.pc \in AtPhoto => u.cursor \in Photos \ Unreadable

\* Where a prepared file is, and when.
FilesHeld(u) ==
  /\ u.batch \cup u.cand \cup u.flight \subseteq u.temps
  /\ u.temps \subseteq u.batch \cup u.cand \cup u.flight \cup u.trash
  /\ u.trash \cap (u.batch \cup u.cand) = {}
  /\ u.flight # {} => u.pc \in {"upload", "recorded"}
  /\ u.cand # {} => u.pc \in {"upload", "recorded"}
  /\ u.trash # {} => u.pc \in {"drop", "large", "recorded", "candidate", "release"}
  /\ u.batch # {} => u.pc \notin {"upload", "recorded", "release", "close"}
  /\ u.pc = "recorded" => u.trash = u.flight
  /\ u.pc = "candidate" /\ u.outcome = "uploaded" => u.batch = {}

\* The deletions of sources that are awaited.
SourcesHeld(u) ==
  /\ u.pc # "close" =>
       u.unlinking \subseteq Unreadable \cup (IF u.pc = "reject" THEN {u.cursor} ELSE {})
                                        \cup (IF u.pc = "recorded" THEN u.flight ELSE {})
  /\ u.pc = "close" => u.owned = {}

\* The work of a terminal phase is still to be done.
Closing(u) == u.owed \/ u.pc = "close" \/ (u.pc = "release" /\ u.goal \in Terminal)

\* Whose turn it is: the run, the maintenance of a pause or a stop, a close.
Turns(u) ==
  /\ u.pc = "idle" <=> u.who = "none"
  /\ u.who = "run" <=> u.run = "active"
  /\ u.who \in {"task", "cancel"} => u.pc \in {"release", "close"}
  /\ u.run = "waiting" => u.who = "task" /\ u.goal = "none" /\ u.pc = "release"
  /\ u.who = "task" => u.phase \in Terminal \/ (u.pc = "release" /\ u.goal = "none")
  /\ u.who = "cancel" \/ u.cancel = "asked" => u.intent = "cancel"
  /\ u.lease => u.who = "run"
  /\ u.owed => u.who = "task" /\ u.run = "none" /\ u.phase = "stopped"
  /\ u.pc = "release" => /\ u.goal = "paused" => u.who = "run"
                         /\ u.goal = "none" => u.who = "task"
  /\ u.pc = "close" => u.goal \in Terminal
  /\ u.pc = "drop" => ~Runs(u)

\* What a terminal phase, and a pause, have given up.
Ends(u) ==
  /\ u.phase \in Terminal =>
        u.run = "none" /\ u.batch = {} /\ (Closing(u) \/ (u.owned = {} /\ u.unlinking = {}))
  /\ u.phase = "paused" /\ u.who # "run" => u.batch = {}
  /\ ~u.slow => /\ u.intent = "stop" /\ u.run = "none" => u.phase \in Terminal
                /\ u.pc = "release" /\ u.goal = "paused" => u.intent = "pause"

Orderly(u) == InOrder(u) /\ FilesHeld(u) /\ SourcesHeld(u) /\ Turns(u) /\ Ends(u)

UploadInv == up \in Uploads /\ Orderly(up)

\* A finite set of numbers has a least element: those below an element become
\* fewer and fewer.
LEMMA LeastExists ==
  ASSUME NEW S \in SUBSET Nat, IsFiniteSet(S), S # {}
  PROVE  \E i \in S : \A j \in S : i <= j
<1> DEFINE Below(i) == {j \in S : j < i}
           Parts == {Below(i) : i \in S}
<1>1. FiniteSubsetsOf(S) = SUBSET S
  BY FS_FiniteSubsetsOfFinite
<1>2. Parts \subseteq SUBSET S /\ Parts # {}
  <2>1. \A i \in S : Below(i) \in SUBSET S
    OBVIOUS
  <2> HIDE DEF Below
  <2> QED BY <2>1
<1>3. PICK part \in Parts : \A other \in Parts : <<other, part>> \notin StrictSubsetOrdering(S)
  <2> HIDE DEF Parts
  <2>1. IsWellFoundedOn(StrictSubsetOrdering(S), SUBSET S)
    BY <1>1, FS_StrictSubsetOrderingWellFounded
  <2> QED BY <1>2, <2>1, WFMin, Zenon
<1>4. PICK i \in S : part = Below(i)
  OBVIOUS
<1>5. ASSUME NEW j \in S, j < i PROVE FALSE
  <2>1. i \in Nat /\ j \in Nat /\ \A k \in S : k \in Nat
    OBVIOUS
  <2>2. \A k \in S : k < j => k < i
    BY <1>5, <2>1
  <2>3. Below(j) \subseteq part /\ j \in part /\ j \notin Below(j)
    <3>1. j \in Below(i) /\ j \notin Below(j)
      BY <1>5, <2>1
    <3>2. \A k \in Below(j) : k \in Below(i)
      BY <2>2
    <3> QED BY <1>4, <3>1, <3>2, Zenon
  <2>4. Below(j) \in SUBSET S /\ part \in SUBSET S /\ Below(j) \in Parts
    BY <1>4
  <2> HIDE DEF Below, Parts
  <2>5. <<Below(j), part>> \in StrictSubsetOrdering(S)
    BY <2>3, <2>4 DEF StrictSubsetOrdering
  <2> QED BY <1>3, <2>4, <2>5
<1>6. \A j \in S : i <= j
  <2>1. i \in Nat /\ \A j \in S : j \in Nat
    OBVIOUS
  <2> QED BY <1>5, <2>1
<1> QED BY <1>6

\* The least of a set of places.
LEMMA LeastOf ==
  ASSUME NEW S \in SUBSET Cursors, S # {}
  PROVE  Least(S) \in S /\ \A j \in S : Least(S) <= j
<1>1. IsFiniteSet(Cursors) /\ S \in SUBSET Nat
  <2>1. MaxPicked + 1 \in Int
    BY UploadBounds
  <2> QED BY <2>1, FS_Interval, UploadBounds DEF Cursors
<1>2. IsFiniteSet(S)
  BY <1>1, FS_Subset
<1>3. \E i \in S : \A j \in S : i <= j
  BY <1>1, <1>2, LeastExists
<1> QED BY <1>3, Zenon DEF Least

-----------------------------------------------------------------------------
(* What the operators make of a session.                                   *)

LEMMA Marked ==
  ASSUME NEW u \in Uploads, NEW S \in SUBSET Photos, NEW state \in PhotoStates
  PROVE  \E x \in [Photos -> PhotoStates] :
           /\ Mark(u, S, state) = [u EXCEPT !.st = x]
           /\ \A i \in Photos : x[i] = IF i \in S THEN state ELSE u.st[i]
<1>1. PICK x : x = [i \in Photos |-> IF i \in S THEN state ELSE u.st[i]]
  OBVIOUS
<1>2. u.st \in [Photos -> PhotoStates]
  BY DEF Uploads
<1>3. x \in [Photos -> PhotoStates] /\ \A i \in Photos : x[i] = IF i \in S THEN state ELSE u.st[i]
  BY <1>1, <1>2
<1>4. Mark(u, S, state) = [u EXCEPT !.st = x]
  BY <1>1 DEF Mark
<1> QED BY <1>3, <1>4

\* v is u with its batch released.
IsRelease(v, u, w, goal) ==
  \E x \in [Photos -> PhotoStates], c \in Cursors :
     /\ v = [u EXCEPT !.st = x, !.batch = {}, !.trash = u.batch, !.cursor = c,
                      !.pc = "release", !.who = w, !.goal = goal]
     /\ \A i \in Photos : x[i] = IF i \in u.batch THEN "queued" ELSE u.st[i]
     /\ c \in u.batch \cup {u.cursor} /\ \A b \in u.batch \cup {u.cursor} : c <= b

LEMMA ReleaseShape ==
  ASSUME NEW u \in Uploads, NEW w, NEW goal
  PROVE  IsRelease(Release(u, w, goal), u, w, goal)
<1>1. u.batch \in SUBSET Photos /\ u.cursor \in Cursors /\ "queued" \in PhotoStates
  BY DEF Uploads, PhotoStates
<1>2. PICK x \in [Photos -> PhotoStates] :
        /\ Mark(u, u.batch, "queued") = [u EXCEPT !.st = x]
        /\ \A i \in Photos : x[i] = IF i \in u.batch THEN "queued" ELSE u.st[i]
  BY <1>1, Marked
<1>3. PICK c : c = Least(u.batch \cup {u.cursor})
  OBVIOUS
<1>4. u.batch \cup {u.cursor} \in SUBSET Cursors
  BY <1>1, UploadBounds DEF Photos, Cursors
<1>5. c \in u.batch \cup {u.cursor} /\ \A b \in u.batch \cup {u.cursor} : c <= b
  BY <1>3, <1>4, LeastOf
<1>6. PICK m : m = [u EXCEPT !.st = x]
  OBVIOUS
<1>7. m \in Uploads /\ m.cursor = u.cursor
  BY <1>6 DEF Uploads
<1>8. Release(u, w, goal) = [m EXCEPT !.batch = {}, !.trash = u.batch, !.cursor = c,
                                     !.pc = "release", !.who = w, !.goal = goal]
  BY <1>2, <1>3, <1>6, <1>7 DEF Release
<1>9. Release(u, w, goal) = [u EXCEPT !.st = x, !.batch = {}, !.trash = u.batch,
                                     !.cursor = c, !.pc = "release", !.who = w, !.goal = goal]
  BY <1>6, <1>8 DEF Uploads
<1> QED BY <1>2, <1>4, <1>5, <1>9 DEF IsRelease

\* Nothing is under way but a batch, and a photo that starts the next one.
InHand(u) ==
  /\ u \in Uploads
  /\ \A s \in u.stored : /\ s < u.cursor /\ u.st[s] \in {"uploading", "uploaded", "unknown"}
                         /\ \A b \in u.batch : s < b
  /\ \A b \in u.batch : b < u.cursor
  /\ u.cand \subseteq {u.cursor} /\ u.flight = {} /\ u.trash = {} /\ u.temps = u.batch \cup u.cand
  /\ u.unlinking \subseteq Unreadable

Calm(u) == InHand(u) /\ u.cand = {}

\* A release by w that ends in goal is due.
ReleaseFits(u, w, goal) ==
  /\ u.run # "waiting" /\ (u.owed => w = "task" /\ u.run = "none" /\ u.phase = "stopped")
  /\ w = "run" <=> u.run = "active"
  /\ w = "cancel" \/ u.cancel = "asked" => u.intent = "cancel"
  /\ u.lease => w = "run"
  /\ goal = "paused" => w = "run" /\ (~u.slow => u.intent = "pause")
  /\ goal = "none" => w = "task"
  /\ w = "task" => u.phase \in Terminal \/ goal = "none"
  /\ u.phase \in Terminal => u.run = "none" /\ goal \in Terminal
  /\ ~u.slow /\ u.intent = "stop" /\ u.run = "none" => u.phase \in Terminal

LEMMA ReleaseGood ==
  ASSUME NEW u, Calm(u), NEW w \in {"run", "task", "cancel"},
         NEW goal \in Terminal \cup {"none", "paused"}, ReleaseFits(u, w, goal)
  PROVE  /\ Release(u, w, goal) \in Uploads /\ Orderly(Release(u, w, goal))
         /\ Release(u, w, goal).pc = "release"
<1>1. u \in Uploads
  BY DEF Calm, InHand
<1>3. PICK v : v = Release(u, w, goal)
  OBVIOUS
<1>2. PICK x \in [Photos -> PhotoStates], c \in Cursors :
     /\ v = [u EXCEPT !.st = x, !.batch = {}, !.trash = u.batch, !.cursor = c,
                      !.pc = "release", !.who = w, !.goal = goal]
     /\ \A i \in Photos : x[i] = IF i \in u.batch THEN "queued" ELSE u.st[i]
     /\ c \in u.batch \cup {u.cursor} /\ \A b \in u.batch \cup {u.cursor} : c <= b
  <2>1. IsRelease(v, u, w, goal)
    BY <1>1, <1>3, ReleaseShape
  <2> QED BY <2>1 DEF IsRelease
<1>4. v \in Uploads
  <2>1. /\ u.batch \in SUBSET Photos /\ {} \in SUBSET Photos /\ "release" \in Awaits
        /\ w \in {"none", "run", "task", "cancel"}
    BY <1>1 DEF Uploads, Awaits
  <2> QED BY <1>1, <1>2, <2>1 DEF Uploads
<1>5. /\ v.slow = u.slow /\ v.st = x /\ v.cursor = c /\ v.batch = {} /\ v.cand = u.cand
      /\ v.flight = u.flight /\ v.phase = u.phase /\ v.intent = u.intent /\ v.run = u.run
      /\ v.cancel = u.cancel /\ v.pc = "release" /\ v.who = w /\ v.goal = goal
      /\ v.owed = u.owed /\ v.aborted = u.aborted /\ v.lease = u.lease /\ v.temps = u.temps
      /\ v.trash = u.batch /\ v.owned = u.owned /\ v.unlinking = u.unlinking /\ v.stored = u.stored
  BY <1>1, <1>2 DEF Uploads
<1>6. InOrder(v)
  <2>1. ASSUME NEW s \in v.stored PROVE s < v.cursor /\ v.st[s] = u.st[s]
    BY <1>1, <1>2, <1>5, <2>1 DEF Calm, InHand, Uploads, Photos, Cursors
  <2> QED BY <1>5, <2>1 DEF InOrder, Calm, InHand, AtPhoto
<1>7. FilesHeld(v)
  BY <1>5 DEF FilesHeld, Calm, InHand
<1>8. SourcesHeld(v)
  BY <1>5 DEF SourcesHeld, Calm, InHand
<1>9. Turns(v)
  BY <1>5 DEF Turns, ReleaseFits
<1>10. Ends(v)
  BY <1>5 DEF Ends, Closing, ReleaseFits
<1> QED BY <1>3, <1>4, <1>5, <1>6, <1>7, <1>8, <1>9, <1>10 DEF Orderly

\* A run has the floor.
AsRun(u) ==
  /\ u.who = "run" /\ u.run = "active" /\ ~u.owed /\ u.phase \notin Terminal
  /\ u.cancel = "asked" => u.intent = "cancel"

\* A run that was paused, stopped or cancelled releases its batch.
LEMMA FinishGood ==
  ASSUME NEW u, Calm(u), AsRun(u), ~Runs(u)
  PROVE  FinishForIntent(u) \in Uploads /\ Orderly(FinishForIntent(u))
<1>1. u \in Uploads /\ u.intent \in {"running", "pause", "stop", "cancel"}
  BY DEF Calm, InHand, Uploads
<1>2. PICK n : n = Intent(u)
  OBVIOUS
<1>3. n \in {"pause", "stop", "cancel"} /\ (u.intent = "cancel" => n = "cancel")
  BY <1>1, <1>2 DEF Intent, Runs
<1>4. PICK b : b = [u EXCEPT !.intent = n]
  OBVIOUS
<1>5. /\ b \in Uploads /\ b.intent = n
      /\ b.slow = u.slow /\ b.st = u.st /\ b.cursor = u.cursor /\ b.batch = u.batch
      /\ b.cand = u.cand /\ b.flight = u.flight /\ b.phase = u.phase /\ b.run = u.run
      /\ b.cancel = u.cancel /\ b.owed = u.owed /\ b.lease = u.lease
      /\ b.temps = u.temps /\ b.trash = u.trash /\ b.unlinking = u.unlinking /\ b.stored = u.stored
  BY <1>1, <1>3, <1>4 DEF Uploads
<1>6. Calm(b)
  BY <1>5 DEF Calm, InHand
<1>7. PICK goal \in {"paused", "stopped", "cancelled"} :
        goal = CASE n = "pause" -> "paused" [] n = "stop" -> "stopped" [] n = "cancel" -> "cancelled"
  BY <1>3
<1>8. goal \in Terminal \cup {"none", "paused"} /\ (goal = "paused" => n = "pause")
  BY <1>3, <1>7 DEF Terminal
<1>9. ReleaseFits(b, "run", goal)
  BY <1>3, <1>5, <1>7, <1>8 DEF ReleaseFits, AsRun, Terminal
<1>10. FinishForIntent(u) = Release(b, "run", goal)
  BY <1>2, <1>4, <1>7 DEF FinishForIntent
<1> QED BY <1>6, <1>8, <1>9, <1>10, ReleaseGood

\* All sources are being deleted, whoever asked for it.
LEMMA CloseGood ==
  ASSUME NEW u, Calm(u), u.batch = {}, NEW goal \in Terminal,
         u.who \in {"run", "task", "cancel"}, ReleaseFits(u, u.who, goal)
  PROVE  LET c == [CloseSources(u) EXCEPT !.goal = goal] IN c \in Uploads /\ Orderly(c)
<1>1. u \in Uploads /\ u.owned \in SUBSET Photos /\ u.unlinking \in SUBSET Photos
  BY DEF Calm, InHand, Uploads
<1>2. PICK l \in SUBSET Photos : l = u.unlinking \cup u.owned
  BY <1>1
<1>3. PICK c : c = [CloseSources(u) EXCEPT !.goal = goal]
  OBVIOUS
<1>4. c = [u EXCEPT !.unlinking = l, !.owned = {}, !.pc = "close", !.goal = goal]
  BY <1>1, <1>2, <1>3 DEF CloseSources, Uploads
<1>5. c \in Uploads
  <2>1. {} \in SUBSET Photos /\ "close" \in Awaits
    BY DEF Awaits
  <2> QED BY <1>1, <1>2, <1>4, <2>1 DEF Uploads
<1>6. /\ c.slow = u.slow /\ c.st = u.st /\ c.cursor = u.cursor /\ c.batch = {} /\ c.cand = u.cand
      /\ c.flight = u.flight /\ c.phase = u.phase /\ c.intent = u.intent /\ c.run = u.run
      /\ c.cancel = u.cancel /\ c.pc = "close" /\ c.who = u.who /\ c.goal = goal
      /\ c.owed = u.owed /\ c.aborted = u.aborted /\ c.lease = u.lease /\ c.temps = u.temps
      /\ c.trash = u.trash /\ c.owned = {} /\ c.unlinking = l /\ c.stored = u.stored
  BY <1>1, <1>4 DEF Uploads
<1>7. InOrder(c)
  BY <1>6 DEF InOrder, Calm, InHand, AtPhoto
<1>8. FilesHeld(c)
  BY <1>6 DEF FilesHeld, Calm, InHand
<1>9. SourcesHeld(c)
  BY <1>6 DEF SourcesHeld
<1>10. Turns(c)
  <2>1. goal # "none"
    BY DEF Terminal
  <2> QED BY <1>6, <2>1 DEF Turns, ReleaseFits
<1>11. Ends(c)
  BY <1>6 DEF Ends, Closing, ReleaseFits
<1> QED BY <1>3, <1>5, <1>7, <1>8, <1>9, <1>10, <1>11 DEF Orderly

\* The photos of the batch are sent, one that does not fit them waits.
LEMMA SendsBatch ==
  ASSUME NEW u, InHand(u), AsRun(u)
  PROVE  UploadCurrentBatch(u) \in Uploads /\ Orderly(UploadCurrentBatch(u))
<1>1. u \in Uploads /\ u.batch \in SUBSET Photos /\ "uploading" \in PhotoStates
  BY DEF InHand, Uploads, PhotoStates
<1>2. PICK x \in [Photos -> PhotoStates] :
        /\ Mark(u, u.batch, "uploading") = [u EXCEPT !.st = x]
        /\ \A i \in Photos : x[i] = IF i \in u.batch THEN "uploading" ELSE u.st[i]
  BY <1>1, Marked
<1>3. PICK v : v = UploadCurrentBatch(u)
  OBVIOUS
<1>4. v = [u EXCEPT !.st = x, !.flight = u.batch, !.batch = {}, !.phase = "uploading", !.pc = "upload"]
  BY <1>1, <1>2, <1>3 DEF UploadCurrentBatch, Uploads
<1>5. v \in Uploads
  <2>1. {} \in SUBSET Photos /\ "upload" \in Awaits
    BY DEF Awaits
  <2> QED BY <1>1, <1>2, <1>4, <2>1 DEF Uploads
<1>6. /\ v.slow = u.slow /\ v.st = x /\ v.cursor = u.cursor /\ v.batch = {} /\ v.cand = u.cand
      /\ v.flight = u.batch /\ v.phase = "uploading" /\ v.intent = u.intent /\ v.run = u.run
      /\ v.cancel = u.cancel /\ v.pc = "upload" /\ v.who = u.who
      /\ v.owed = u.owed /\ v.aborted = u.aborted /\ v.lease = u.lease /\ v.temps = u.temps
      /\ v.trash = u.trash /\ v.owned = u.owned /\ v.unlinking = u.unlinking /\ v.stored = u.stored
  BY <1>1, <1>4 DEF Uploads
<1>7. InOrder(v)
  <2>1. \A s \in v.stored : v.st[s] \in {"uploading", "uploaded", "unknown"}
    BY <1>1, <1>2, <1>6 DEF InHand, Uploads
  <2> QED BY <1>6, <2>1 DEF InOrder, InHand, AtPhoto
<1>8. FilesHeld(v)
  BY <1>6 DEF FilesHeld, InHand
<1>9. SourcesHeld(v)
  BY <1>6 DEF SourcesHeld, InHand
<1>10. Turns(v)
  BY <1>6 DEF Turns, AsRun
<1>11. Ends(v)
  BY <1>6 DEF Ends, AsRun, Terminal
<1> QED BY <1>3, <1>5, <1>7, <1>8, <1>9, <1>10, <1>11 DEF Orderly

\* The loop of run ends the run, begins a photo, sends the batch or closes.
LEMMA LoopGood ==
  ASSUME NEW u, Calm(u), AsRun(u), NEW space
  PROVE  RunLoop(u, space) \in Uploads /\ Orderly(RunLoop(u, space))
<1>1. u \in Uploads /\ u.cursor \in Cursors /\ MaxPicked \in Nat
  BY UploadBounds DEF Calm, InHand, Uploads
<1>2. PICK next : next = Least({i \in Photos \ Unreadable : i >= u.cursor} \cup {MaxPicked + 1})
  OBVIOUS
<1>3. next \in Cursors /\ next >= u.cursor /\ (next \in Photos => next \notin Unreadable)
  <2>1. PICK S : S = {i \in Photos \ Unreadable : i >= u.cursor} \cup {MaxPicked + 1}
    OBVIOUS
  <2>2. S \in SUBSET Cursors /\ S # {} /\ \A i \in S : i >= u.cursor
    BY <1>1, <2>1 DEF Photos, Cursors
  <2>3. next \in S
    BY <1>2, <2>1, <2>2, LeastOf
  <2>4. MaxPicked + 1 \notin Photos
    BY <1>1 DEF Photos
  <2> QED BY <2>1, <2>2, <2>3, <2>4
<1>4. PICK v : v = [u EXCEPT !.cursor = next]
  OBVIOUS
<1>5. /\ v \in Uploads /\ v.cursor = next
      /\ v.slow = u.slow /\ v.st = u.st /\ v.batch = u.batch /\ v.cand = u.cand /\ v.flight = u.flight
      /\ v.phase = u.phase /\ v.intent = u.intent /\ v.run = u.run /\ v.cancel = u.cancel
      /\ v.who = u.who /\ v.owed = u.owed /\ v.aborted = u.aborted /\ v.lease = u.lease /\ v.temps = u.temps
      /\ v.trash = u.trash /\ v.owned = u.owned /\ v.unlinking = u.unlinking /\ v.stored = u.stored
  BY <1>1, <1>3, <1>4 DEF Uploads
<1>6. Calm(v) /\ AsRun(v) /\ Runs(v) = Runs(u)
  <2>1. \A i \in Photos : i < u.cursor => i < next
    BY <1>1, <1>3 DEF Photos, Cursors
  <2>2. v.batch \subseteq Photos /\ v.stored \subseteq Photos
    BY <1>5 DEF Uploads
  <2> QED BY <1>5, <2>1, <2>2 DEF Calm, InHand, AsRun, Runs, Intent
<1>7. RunLoop(u, space) =
        IF ~Runs(u) THEN FinishForIntent(v)
        ELSE IF next \in Photos
        THEN IF space THEN [Mark(v, {next}, "processing") EXCEPT !.phase = "preprocessing",
                                                                !.pc = "preprocess"]
             ELSE Release([v EXCEPT !.phase = "preprocessing"], "run", "partial")
        ELSE IF v.batch # {} THEN UploadCurrentBatch(v)
        ELSE [CloseSources(v) EXCEPT
                !.goal = IF \E i \in Photos : v.st[i] \in {"rejected", "failed"}
                         THEN "partial" ELSE "complete"]
  BY <1>2, <1>4 DEF RunLoop
<1>8. CASE ~Runs(u)
  BY <1>6, <1>7, <1>8, FinishGood
<1>9. CASE Runs(u) /\ next \in Photos /\ space
  <2>1. PICK x \in [Photos -> PhotoStates] :
          /\ Mark(v, {next}, "processing") = [v EXCEPT !.st = x]
          /\ \A i \in Photos : x[i] = IF i \in {next} THEN "processing" ELSE v.st[i]
    <3>1. v \in Uploads /\ {next} \in SUBSET Photos /\ "processing" \in PhotoStates
      BY <1>5, <1>9 DEF PhotoStates
    <3> QED BY <3>1, Marked
  <2>2. PICK p : p = RunLoop(u, space)
    OBVIOUS
  <2>3. p = [v EXCEPT !.st = x, !.phase = "preprocessing", !.pc = "preprocess"]
    BY <1>5, <1>7, <1>9, <2>1, <2>2 DEF Uploads
  <2>4. p \in Uploads
    <3>1. "preprocess" \in Awaits
      BY DEF Awaits, AtPhoto
    <3> QED BY <1>5, <2>1, <2>3, <3>1 DEF Uploads
  <2>5. /\ p.slow = v.slow /\ p.st = x /\ p.cursor = next /\ p.batch = v.batch /\ p.cand = v.cand
        /\ p.flight = v.flight /\ p.phase = "preprocessing" /\ p.intent = v.intent /\ p.run = v.run
        /\ p.cancel = v.cancel /\ p.pc = "preprocess" /\ p.who = v.who
        /\ p.owed = v.owed /\ p.aborted = v.aborted /\ p.lease = v.lease /\ p.temps = v.temps
        /\ p.trash = v.trash /\ p.owned = v.owned /\ p.unlinking = v.unlinking /\ p.stored = v.stored
    BY <1>5, <2>1, <2>3 DEF Uploads
  <2>6. InOrder(p)
    <3>1. \A s \in v.stored : s \in Photos /\ s # next
      BY <1>3, <1>5, <1>6 DEF Calm, InHand, Uploads, Cursors
    <3>2. \A s \in p.stored : p.st[s] = v.st[s]
      BY <2>1, <2>5, <3>1
    <3> QED BY <1>3, <1>5, <1>6, <1>9, <2>5, <3>2 DEF InOrder, Calm, InHand, AtPhoto
  <2>7. FilesHeld(p)
    BY <1>6, <2>5 DEF FilesHeld, Calm, InHand
  <2>8. SourcesHeld(p)
    BY <1>6, <2>5 DEF SourcesHeld, Calm, InHand
  <2>9. Turns(p)
    BY <1>6, <2>5 DEF Turns, AsRun
  <2>10. Ends(p)
    BY <1>6, <2>5 DEF Ends, AsRun, Terminal
  <2> QED BY <2>2, <2>4, <2>6, <2>7, <2>8, <2>9, <2>10 DEF Orderly
<1>10. CASE Runs(u) /\ next \in Photos /\ ~space
  <2>1. PICK w : w = [v EXCEPT !.phase = "preprocessing"]
    OBVIOUS
  <2>2. /\ w \in Uploads /\ w.phase = "preprocessing" /\ w.cursor = v.cursor
        /\ w.slow = v.slow /\ w.st = v.st /\ w.batch = v.batch /\ w.cand = v.cand /\ w.flight = v.flight
        /\ w.intent = v.intent /\ w.run = v.run /\ w.cancel = v.cancel
        /\ w.who = v.who /\ w.owed = v.owed /\ w.lease = v.lease /\ w.temps = v.temps
        /\ w.trash = v.trash /\ w.unlinking = v.unlinking /\ w.stored = v.stored
    BY <1>5, <2>1 DEF Uploads
  <2>3. Calm(w) /\ ReleaseFits(w, "run", "partial")
    BY <1>6, <2>2 DEF Calm, InHand, ReleaseFits, AsRun, Terminal
  <2>4. "partial" \in Terminal \cup {"none", "paused"}
    BY DEF Terminal
  <2> QED BY <1>7, <1>10, <2>1, <2>3, <2>4, ReleaseGood
<1>11. CASE Runs(u) /\ next \notin Photos /\ v.batch # {}
  BY <1>6, <1>7, <1>11, SendsBatch DEF Calm
<1>12. CASE Runs(u) /\ next \notin Photos /\ v.batch = {}
  <2>1. PICK goal \in Terminal : goal = IF \E i \in Photos : v.st[i] \in {"rejected", "failed"}
                                       THEN "partial" ELSE "complete"
    BY DEF Terminal
  <2>2. ReleaseFits(v, v.who, goal) /\ v.who = "run"
    BY <1>6 DEF ReleaseFits, AsRun, Terminal
  <2>3. RunLoop(u, space) = [CloseSources(v) EXCEPT !.goal = goal]
    BY <1>7, <1>12, <2>1
  <2> QED BY <1>6, <1>12, <2>2, <2>3, CloseGood
<1> QED BY <1>8, <1>9, <1>10, <1>11, <1>12

\* A run begins with the batch it was left with.
LEMMA BeginGood ==
  ASSUME NEW u, Calm(u), ~u.owed, u.phase \notin Terminal,
         u.cancel = "asked" => u.intent = "cancel", NEW space, NEW leased
  PROVE  BeginRun(u, space, leased) \in Uploads /\ Orderly(BeginRun(u, space, leased))
<1>1. u \in Uploads
  BY DEF Calm, InHand
<1>2. PICK v : v = [u EXCEPT !.run = "active", !.who = "run"]
  OBVIOUS
<1>3. /\ v \in Uploads /\ v.run = "active" /\ v.who = "run"
      /\ v.st = u.st /\ v.cursor = u.cursor /\ v.batch = u.batch /\ v.cand = u.cand
      /\ v.flight = u.flight /\ v.phase = u.phase /\ v.intent = u.intent /\ v.cancel = u.cancel
      /\ v.owed = u.owed /\ v.aborted = u.aborted /\ v.temps = u.temps /\ v.trash = u.trash
      /\ v.unlinking = u.unlinking /\ v.stored = u.stored
  BY <1>1, <1>2 DEF Uploads
<1>4. Calm(v) /\ AsRun(v) /\ (Runs(v) <=> Runs(u))
  BY <1>3 DEF Calm, InHand, AsRun, Runs, Intent
<1>5. PICK c : c = [v EXCEPT !.intent = "cancel"]
  OBVIOUS
<1>6. Calm(c) /\ AsRun(c) /\ ~Runs(c)
  <2>1. /\ c \in Uploads /\ c.run = v.run /\ c.who = v.who /\ c.intent = "cancel"
        /\ c.st = v.st /\ c.cursor = v.cursor /\ c.batch = v.batch /\ c.cand = v.cand
        /\ c.flight = v.flight /\ c.phase = v.phase /\ c.cancel = v.cancel
        /\ c.owed = v.owed /\ c.aborted = v.aborted /\ c.temps = v.temps /\ c.trash = v.trash
        /\ c.unlinking = v.unlinking /\ c.stored = v.stored
    BY <1>3, <1>5 DEF Uploads
  <2> QED BY <1>4, <2>1 DEF Calm, InHand, AsRun, Runs, Intent
<1>7. PICK w : w = [v EXCEPT !.lease = TRUE, !.phase = "preprocessing"]
  OBVIOUS
<1>8. Calm(w) /\ AsRun(w)
  <2>1. /\ w \in Uploads /\ w.run = v.run /\ w.who = v.who /\ w.phase = "preprocessing"
        /\ w.st = v.st /\ w.cursor = v.cursor /\ w.batch = v.batch /\ w.cand = v.cand
        /\ w.flight = v.flight /\ w.intent = v.intent /\ w.cancel = v.cancel
        /\ w.owed = v.owed /\ w.aborted = v.aborted /\ w.temps = v.temps /\ w.trash = v.trash
        /\ w.unlinking = v.unlinking /\ w.stored = v.stored
    BY <1>3, <1>7 DEF Uploads
  <2> QED BY <1>4, <2>1 DEF Calm, InHand, AsRun, Terminal
<1>9. BeginRun(u, space, leased) =
        IF ~Runs(u) THEN FinishForIntent(v)
        ELSE IF ~leased THEN FinishForIntent(c)
        ELSE IF w.batch # {} THEN UploadCurrentBatch(w) ELSE RunLoop(w, space)
  BY <1>2, <1>5, <1>7 DEF BeginRun
<1> QED BY <1>4, <1>6, <1>8, <1>9, FinishGood, SendsBatch, LoopGood DEF Calm

\* Nothing is awaited any more.
EndFits(u) ==
  /\ u.who \in {"run", "task", "cancel"} /\ (u.who = "run" <=> u.run = "active")
  /\ u.run = "waiting" => u.who = "task" /\ ~u.owed /\ u.phase \notin Terminal
  /\ u.who = "cancel" \/ u.cancel = "asked" => u.intent = "cancel"
  /\ u.owed => u.who = "task" /\ u.run = "none" /\ u.phase \in Terminal
  /\ u.phase \in Terminal => u.batch = {} /\ (u.owed \/ (u.owned = {} /\ u.unlinking = {}))
  /\ u.phase = "paused" => u.batch = {}
  /\ ~u.slow /\ u.intent = "stop" /\ u.run # "waiting" => u.phase \in Terminal

\* The end of a run or of maintenance goes on with what is owed to the session.
LEMMA EndGood ==
  ASSUME NEW u, Calm(u), EndFits(u), NEW space, NEW leased
  PROVE  LET e == EndOfRun(u)
             a == AfterEnd(e, space, leased)
         IN a \in Uploads /\ Orderly(a) /\ (u.who = "run" => e = a)
<1>1. u \in Uploads
  BY DEF Calm, InHand
<1>2. PICK r \in {"none", "waiting"} : r = IF u.who = "run" THEN "none" ELSE u.run
  BY <1>1 DEF EndFits, Uploads
<1>3. PICK b \in BOOLEAN : b = (u.who # "run" /\ u.aborted)
  BY <1>1 DEF Uploads
<1>4. PICK d \in {"none", "asked", "done"} : d = IF u.who = "cancel" THEN "done" ELSE u.cancel
  BY <1>1 DEF Uploads
<1>5. PICK v : v = [u EXCEPT !.pc = "idle", !.who = "none", !.goal = "none", !.run = r,
                             !.aborted = b, !.lease = FALSE, !.cancel = d]
  OBVIOUS
<1>6. v \in Uploads
  <2>1. /\ "idle" \in Awaits /\ FALSE \in BOOLEAN /\ r \in {"none", "waiting", "active"}
        /\ "none" \in {"none", "run", "task", "cancel"}
        /\ "none" \in Terminal \cup {"none", "paused"}
    BY <1>2 DEF Awaits
  <2>2. PICK h : h = [u EXCEPT !.pc = "idle", !.who = "none", !.goal = "none", !.run = r, !.cancel = d]
    OBVIOUS
  <2>3. h \in Uploads
    <3>1. PICK k : k = [u EXCEPT !.pc = "idle", !.goal = "none"]
      OBVIOUS
    <3>2. k \in Uploads
      BY <1>1, <2>1, <3>1 DEF Uploads
    <3>3. PICK l : l = [k EXCEPT !.who = "none", !.run = r]
      OBVIOUS
    <3>4. l \in Uploads
      BY <2>1, <3>2, <3>3 DEF Uploads
    <3>5. h = [l EXCEPT !.cancel = d]
      BY <1>1, <2>2, <3>1, <3>3 DEF Uploads
    <3> QED BY <1>4, <3>4, <3>5 DEF Uploads
  <2>4. v = [h EXCEPT !.aborted = b, !.lease = FALSE]
    BY <1>1, <1>5, <2>2 DEF Uploads
  <2> QED BY <1>3, <2>1, <2>3, <2>4 DEF Uploads
<1>7. /\ v.slow = u.slow /\ v.st = u.st /\ v.cursor = u.cursor /\ v.batch = u.batch /\ v.cand = u.cand
      /\ v.flight = u.flight /\ v.phase = u.phase /\ v.intent = u.intent /\ v.run = r
      /\ v.cancel = d /\ v.pc = "idle" /\ v.who = "none" /\ v.goal = "none"
      /\ v.owed = u.owed /\ v.aborted = b /\ v.lease = FALSE /\ v.temps = u.temps
      /\ v.trash = u.trash /\ v.owned = u.owned /\ v.unlinking = u.unlinking /\ v.stored = u.stored
  BY <1>1, <1>5 DEF Uploads
<1>8. Calm(v)
  BY <1>6, <1>7 DEF Calm, InHand
<1>9. EndOfRun(u) =
        IF v.owed THEN Release([v EXCEPT !.owed = FALSE], "task", "stopped")
        ELSE IF v.run = "none" /\ v.cancel = "asked" THEN Release(v, "cancel", "cancelled")
        ELSE v
  BY <1>2, <1>3, <1>4, <1>5 DEF EndOfRun
<1>10. "stopped" \in Terminal /\ "cancelled" \in Terminal
  BY DEF Terminal
<1>11. CASE u.owed
  <2>1. PICK q : q = [v EXCEPT !.owed = FALSE]
    OBVIOUS
  <2>2. /\ q \in Uploads /\ q.owed = FALSE /\ q.slow = v.slow /\ q.st = v.st /\ q.cursor = v.cursor
        /\ q.batch = v.batch /\ q.cand = v.cand /\ q.flight = v.flight /\ q.phase = v.phase
        /\ q.intent = v.intent /\ q.run = v.run /\ q.cancel = v.cancel /\ q.lease = v.lease
        /\ q.temps = v.temps /\ q.trash = v.trash /\ q.unlinking = v.unlinking /\ q.stored = v.stored
    BY <1>6, <2>1 DEF Uploads
  <2>3. Calm(q)
    BY <1>8, <2>2 DEF Calm, InHand
  <2>4. ReleaseFits(q, "task", "stopped")
    BY <1>2, <1>4, <1>7, <1>10, <1>11, <2>2 DEF ReleaseFits, EndFits
  <2>5. PICK e : e = Release(q, "task", "stopped")
    OBVIOUS
  <2>6. e \in Uploads /\ Orderly(e) /\ e.pc = "release"
    BY <1>10, <2>3, <2>4, <2>5, ReleaseGood
  <2>7. EndOfRun(u) = e
    BY <1>7, <1>9, <1>11, <2>1, <2>5
  <2> QED BY <2>6, <2>7 DEF AfterEnd
<1>12. CASE ~u.owed /\ r = "none" /\ d = "asked"
  <2>1. ReleaseFits(v, "cancel", "cancelled")
    BY <1>4, <1>7, <1>10, <1>12 DEF ReleaseFits, EndFits
  <2>2. PICK e : e = Release(v, "cancel", "cancelled")
    OBVIOUS
  <2>3. e \in Uploads /\ Orderly(e) /\ e.pc = "release"
    BY <1>8, <1>10, <2>1, <2>2, ReleaseGood
  <2>4. EndOfRun(u) = e
    BY <1>7, <1>9, <1>12, <2>2
  <2> QED BY <2>3, <2>4 DEF AfterEnd
<1>13. CASE ~u.owed /\ r = "none" /\ d # "asked"
  <2>1. InOrder(v)
    BY <1>7, <1>8 DEF InOrder, Calm, InHand, AtPhoto
  <2>2. FilesHeld(v)
    BY <1>7, <1>8 DEF FilesHeld, Calm, InHand
  <2>3. SourcesHeld(v)
    BY <1>7, <1>8 DEF SourcesHeld, Calm, InHand
  <2>4. Turns(v)
    BY <1>7, <1>13 DEF Turns
  <2>5. Ends(v)
    BY <1>2, <1>7, <1>13 DEF Ends, EndFits
  <2>6. EndOfRun(u) = v
    BY <1>7, <1>9, <1>13
  <2> QED BY <1>6, <1>7, <1>13, <2>1, <2>2, <2>3, <2>4, <2>5, <2>6 DEF Orderly, AfterEnd
<1>14. CASE r = "waiting"
  <2>1. u.who = "task" /\ ~u.owed /\ u.phase \notin Terminal
    BY <1>2, <1>14 DEF EndFits
  <2>2. EndOfRun(u) = v /\ AfterEnd(v, space, leased) = BeginRun(v, space, leased)
    BY <1>7, <1>9, <1>14, <2>1 DEF AfterEnd
  <2>3. ~v.owed /\ v.phase \notin Terminal /\ (v.cancel = "asked" => v.intent = "cancel")
    BY <1>4, <1>7, <2>1 DEF EndFits
  <2> QED BY <1>8, <2>1, <2>2, <2>3, BeginGood
<1> QED BY <1>11, <1>12, <1>13, <1>14

\* A photo is refused: its source goes before anything else is awaited.
LEMMA RejectGood ==
  ASSUME NEW u, Calm(u), AsRun(u), u.cursor \in Photos \ Unreadable
  PROVE  Reject(u) \in Uploads /\ Orderly(Reject(u))
<1>1. u \in Uploads /\ {u.cursor} \in SUBSET Photos /\ "rejected" \in PhotoStates
  BY DEF Calm, InHand, PhotoStates
<1>2. PICK x \in [Photos -> PhotoStates] :
        /\ Mark(u, {u.cursor}, "rejected") = [u EXCEPT !.st = x]
        /\ \A i \in Photos : x[i] = IF i = u.cursor THEN "rejected" ELSE u.st[i]
  <2>1. PICK S \in SUBSET Photos : S = {u.cursor}
    BY <1>1
  <2>2. PICK x \in [Photos -> PhotoStates] :
          /\ Mark(u, S, "rejected") = [u EXCEPT !.st = x]
          /\ \A i \in Photos : x[i] = IF i \in S THEN "rejected" ELSE u.st[i]
    BY <1>1, Marked
  <2> QED BY <2>1, <2>2
<1>3. PICK l \in SUBSET Photos : l = u.unlinking \cup (u.owned \cap {u.cursor})
  BY <1>1 DEF Uploads
<1>4. PICK o \in SUBSET Photos : o = u.owned \ {u.cursor}
  BY <1>1 DEF Uploads
<1>5. PICK v : v = Reject(u)
  OBVIOUS
<1>6. v = [u EXCEPT !.st = x, !.unlinking = l, !.owned = o, !.pc = "reject"]
  BY <1>1, <1>2, <1>3, <1>4, <1>5 DEF Reject, Uploads
<1>7. v \in Uploads
  <2>1. "reject" \in Awaits
    BY DEF Awaits, AtPhoto
  <2> QED BY <1>1, <1>6, <2>1 DEF Uploads
<1>8. /\ v.slow = u.slow /\ v.st = x /\ v.cursor = u.cursor /\ v.batch = u.batch
      /\ v.cand = u.cand /\ v.flight = u.flight /\ v.phase = u.phase /\ v.intent = u.intent
      /\ v.run = u.run /\ v.cancel = u.cancel /\ v.pc = "reject" /\ v.who = u.who
      /\ v.goal = u.goal /\ v.outcome = u.outcome /\ v.owed = u.owed
      /\ v.aborted = u.aborted /\ v.lease = u.lease /\ v.temps = u.temps
      /\ v.trash = u.trash /\ v.owned = o /\ v.unlinking = l /\ v.stored = u.stored
  BY <1>1, <1>6 DEF Uploads
<1>9. InOrder(v)
  <2>1. \A i \in u.stored : i \in Photos /\ i # u.cursor
    BY <1>1 DEF Calm, InHand, Uploads, Photos
  <2>2. \A i \in u.stored : v.st[i] = u.st[i]
    BY <1>2, <1>8, <2>1
  <2> QED BY <1>8, <2>2 DEF InOrder, Calm, InHand
<1>10. FilesHeld(v)
  BY <1>8 DEF FilesHeld, Calm, InHand
<1>11. SourcesHeld(v)
  BY <1>3, <1>8 DEF SourcesHeld, Calm, InHand
<1>12. Turns(v)
  BY <1>8 DEF Turns, AsRun
<1>13. Ends(v)
  BY <1>8 DEF Ends, AsRun
<1> QED BY <1>5, <1>7, <1>9, <1>10, <1>11, <1>12, <1>13 DEF Orderly

\* A photo that was interrupted is offered again.
LEMMA InterruptedGood ==
  ASSUME NEW u, Calm(u), AsRun(u), ~Runs(u), u.cursor \in Photos
  PROVE  Interrupted(u) \in Uploads /\ Orderly(Interrupted(u))
<1>1. u \in Uploads /\ {u.cursor} \in SUBSET Photos /\ "queued" \in PhotoStates
  BY DEF Calm, InHand, PhotoStates
<1>2. PICK x \in [Photos -> PhotoStates] :
        /\ Mark(u, {u.cursor}, "queued") = [u EXCEPT !.st = x]
        /\ \A i \in Photos : x[i] = IF i = u.cursor THEN "queued" ELSE u.st[i]
  <2>1. PICK S \in SUBSET Photos : S = {u.cursor}
    BY <1>1
  <2>2. PICK x \in [Photos -> PhotoStates] :
          /\ Mark(u, S, "queued") = [u EXCEPT !.st = x]
          /\ \A i \in Photos : x[i] = IF i \in S THEN "queued" ELSE u.st[i]
    BY <1>1, Marked
  <2> QED BY <2>1, <2>2
<1>3. PICK v : v = [u EXCEPT !.st = x]
  OBVIOUS
<1>4. /\ v \in Uploads
      /\ v.slow = u.slow /\ v.st = x /\ v.cursor = u.cursor /\ v.batch = u.batch
      /\ v.cand = u.cand /\ v.flight = u.flight /\ v.phase = u.phase /\ v.intent = u.intent
      /\ v.run = u.run /\ v.cancel = u.cancel /\ v.pc = u.pc /\ v.who = u.who
      /\ v.goal = u.goal /\ v.outcome = u.outcome /\ v.owed = u.owed
      /\ v.aborted = u.aborted /\ v.lease = u.lease /\ v.temps = u.temps
      /\ v.trash = u.trash /\ v.owned = u.owned /\ v.unlinking = u.unlinking
      /\ v.stored = u.stored
  BY <1>1, <1>3 DEF Uploads
<1>5. \A i \in u.stored : v.st[i] = u.st[i]
  <2>1. \A i \in u.stored : i \in Photos /\ i # u.cursor
    BY <1>1 DEF Calm, InHand, Uploads, Photos
  <2> QED BY <1>2, <1>4, <2>1
<1>6. Calm(v) /\ AsRun(v) /\ ~Runs(v)
  BY <1>4, <1>5 DEF Calm, InHand, AsRun, Runs, Intent
<1>7. Interrupted(u) = FinishForIntent(v)
  BY <1>2, <1>3 DEF Interrupted
<1> QED BY <1>6, <1>7, FinishGood

\* What follows a request, once a photo that waited for it is out of the way.
LEMMA OutcomeGood ==
  ASSUME NEW u, InHand(u), AsRun(u), NEW outcome \in Outcomes \cup {"none"}, NEW space,
         u.cand # {} => Runs(u) /\ outcome = "uploaded", outcome = "uploaded" => u.batch = {}
  PROVE  LET v == FinishBatchOutcome(u, outcome, space) IN v \in Uploads /\ Orderly(v)
<1>1. /\ u \in Uploads /\ u.who = "run"
      /\ \A goal \in {"tripGone", "cancelled", "partial"} :
           goal \in Terminal \cup {"none", "paused"} /\ ReleaseFits(u, "run", goal)
  BY DEF InHand, AsRun, ReleaseFits, Terminal
<1>2. CASE outcome = "tripGone" /\ Intent(u) # "cancel"
  <2>1. Calm(u)
    BY <1>2 DEF Calm
  <2> QED BY <1>1, <1>2, <2>1, ReleaseGood DEF FinishBatchOutcome
<1>3. CASE ~(outcome = "tripGone" /\ Intent(u) # "cancel") /\ ~Runs(u)
  <2>1. Calm(u)
    BY <1>3 DEF Calm
  <2> QED BY <1>3, <2>1, FinishGood DEF FinishBatchOutcome
<1>4. CASE Runs(u) /\ outcome = "uploaded"
  <2>1. PICK c \in Cursors : c = IF u.cand = {} THEN u.cursor ELSE u.cursor + 1
    <3>1. u.cursor \in Cursors /\ u.cand \subseteq Photos /\ (u.cand # {} => u.cursor \in u.cand)
      BY <1>1 DEF InHand, Uploads
    <3> QED BY <3>1, UploadBounds DEF Photos, Cursors
  <2>2. PICK v : v = [u EXCEPT !.batch = u.cand, !.cand = {}, !.cursor = c]
    OBVIOUS
  <2>3. v \in Uploads
    <3>1. {} \in SUBSET Photos
      OBVIOUS
    <3> QED BY <1>1, <2>2, <3>1 DEF Uploads
  <2>4. /\ v.slow = u.slow /\ v.st = u.st /\ v.cursor = c /\ v.batch = u.cand
        /\ v.cand = {} /\ v.flight = u.flight /\ v.phase = u.phase /\ v.intent = u.intent
        /\ v.run = u.run /\ v.cancel = u.cancel /\ v.pc = u.pc /\ v.who = u.who
        /\ v.goal = u.goal /\ v.outcome = u.outcome /\ v.owed = u.owed
        /\ v.aborted = u.aborted /\ v.lease = u.lease /\ v.temps = u.temps
        /\ v.trash = u.trash /\ v.owned = u.owned /\ v.unlinking = u.unlinking
        /\ v.stored = u.stored
    BY <1>1, <2>2 DEF Uploads
  <2>5. Calm(v)
    <3>1. u.cursor \in Nat /\ \A i \in Photos : i \in Nat
      BY <1>1, UploadBounds DEF Uploads, Photos, Cursors
    <3>2. c >= u.cursor /\ \A i \in u.cand : i = u.cursor /\ i < c
      BY <2>1, <3>1 DEF InHand
    <3>3. \A i \in u.stored : i < c /\ \A j \in u.cand : i < j
      BY <1>1, <2>1, <3>1, <3>2 DEF InHand, Uploads
    <3> QED BY <1>4, <2>3, <2>4, <3>2, <3>3 DEF Calm, InHand
  <2>6. AsRun(v)
    BY <2>4 DEF AsRun
  <2>7. FinishBatchOutcome(u, outcome, space) = RunLoop(v, space)
    BY <1>1, <1>4, <2>1, <2>2 DEF FinishBatchOutcome
  <2> QED BY <2>5, <2>6, <2>7, LoopGood
<1>5. CASE Runs(u) /\ outcome = "throttled"
  <2>1. PICK v : v = [u EXCEPT !.phase = "throttled"]
    OBVIOUS
  <2>2. /\ v \in Uploads
        /\ v.slow = u.slow /\ v.st = u.st /\ v.cursor = u.cursor /\ v.batch = u.batch
        /\ v.cand = u.cand /\ v.flight = u.flight /\ v.phase = "throttled"
        /\ v.intent = u.intent /\ v.run = u.run /\ v.cancel = u.cancel /\ v.pc = u.pc
        /\ v.who = u.who /\ v.goal = u.goal /\ v.outcome = u.outcome /\ v.owed = u.owed
        /\ v.aborted = u.aborted /\ v.lease = u.lease /\ v.temps = u.temps
        /\ v.trash = u.trash /\ v.owned = u.owned /\ v.unlinking = u.unlinking
        /\ v.stored = u.stored
    BY <1>1, <2>1 DEF Uploads
  <2>3. Calm(v) /\ EndFits(v)
    <3>1. Calm(v)
      BY <1>5, <2>2 DEF Calm, InHand
    <3>2. v.phase \notin Terminal /\ v.intent = "running"
      BY <1>1, <1>5, <2>2 DEF Terminal, Runs, Intent
    <3> QED BY <2>2, <3>1, <3>2 DEF EndFits, AsRun
  <2>4. PICK e : e = EndOfRun(v)
    OBVIOUS
  <2>6. AfterEnd(EndOfRun(v), space, space) \in Uploads /\ Orderly(AfterEnd(EndOfRun(v), space, space))
    BY <2>3, EndGood
  <2>8. EndOfRun(v) = AfterEnd(EndOfRun(v), space, space)
    BY <1>1, <2>2, <2>3, EndGood
  <2>7. FinishBatchOutcome(u, outcome, space) = e
    BY <1>5, <2>1, <2>4 DEF FinishBatchOutcome
  <2> QED BY <2>4, <2>6, <2>7, <2>8
<1>6. CASE Runs(u) /\ outcome \notin {"tripGone", "uploaded", "throttled"}
  <2>1. PICK goal \in {"cancelled", "partial"} :
          goal = IF outcome = "cancelled" THEN "cancelled" ELSE "partial"
    OBVIOUS
  <2>2. FinishBatchOutcome(u, outcome, space) = Release(u, "run", goal)
    BY <1>6, <2>1 DEF FinishBatchOutcome
  <2>3. Calm(u)
    BY <1>6 DEF Calm
  <2> QED BY <1>1, <2>1, <2>2, <2>3, ReleaseGood
<1>7. Runs(u) => Intent(u) # "cancel"
  BY DEF Runs
<1> QED BY <1>2, <1>3, <1>4, <1>5, <1>6, <1>7

\* A photo that did not fit the batch is released before the outcome counts.
LEMMA AfterUploadGood ==
  ASSUME NEW u, InHand(u), AsRun(u), NEW outcome \in Outcomes \cup {"none"}, NEW space,
         outcome = "uploaded" => u.batch = {}
  PROVE  LET v == AfterUpload(u, outcome, space) IN v \in Uploads /\ Orderly(v)
<1>1. u \in Uploads /\ u.cand \in SUBSET Photos /\ "queued" \in PhotoStates
  BY DEF InHand, Uploads, PhotoStates
<1>2. CASE u.cand # {} /\ (~Runs(u) \/ outcome # "uploaded")
  <2>1. PICK x \in [Photos -> PhotoStates] :
          /\ Mark(u, u.cand, "queued") = [u EXCEPT !.st = x]
          /\ \A i \in Photos : x[i] = IF i \in u.cand THEN "queued" ELSE u.st[i]
    <3>1. PICK S \in SUBSET Photos : S = u.cand
      BY <1>1
    <3>2. PICK x \in [Photos -> PhotoStates] :
            /\ Mark(u, S, "queued") = [u EXCEPT !.st = x]
            /\ \A i \in Photos : x[i] = IF i \in S THEN "queued" ELSE u.st[i]
      <4>1. u \in Uploads /\ "queued" \in PhotoStates
        BY <1>1
      <4> QED BY <4>1, Marked
    <3> QED BY <3>1, <3>2
  <2>2. PICK v : v = AfterUpload(u, outcome, space)
    OBVIOUS
  <2>3. v = [u EXCEPT !.st = x, !.trash = u.cand, !.cand = {}, !.pc = "candidate",
                      !.outcome = outcome]
    BY <1>1, <1>2, <2>1, <2>2 DEF AfterUpload, Uploads
  <2>4. v \in Uploads
    <3>1. {} \in SUBSET Photos /\ "candidate" \in Awaits
      BY DEF Awaits
    <3> QED BY <1>1, <2>1, <2>3, <3>1 DEF Uploads
  <2>5. /\ v.slow = u.slow /\ v.st = x /\ v.cursor = u.cursor /\ v.batch = u.batch
        /\ v.cand = {} /\ v.flight = u.flight /\ v.phase = u.phase /\ v.intent = u.intent
        /\ v.run = u.run /\ v.cancel = u.cancel /\ v.pc = "candidate" /\ v.who = u.who
        /\ v.goal = u.goal /\ v.outcome = outcome /\ v.owed = u.owed
        /\ v.aborted = u.aborted /\ v.lease = u.lease /\ v.temps = u.temps
        /\ v.trash = u.cand /\ v.owned = u.owned /\ v.unlinking = u.unlinking
        /\ v.stored = u.stored
    BY <1>1, <2>3 DEF Uploads
  <2>6. InOrder(v)
    <3>1. \A i \in u.stored : i \in Photos /\ i \notin u.cand
      BY <1>1 DEF InHand, Uploads, Photos
    <3>2. \A i \in u.stored : v.st[i] = u.st[i]
      BY <2>1, <2>5, <3>1
    <3> QED BY <2>5, <3>2 DEF InOrder, InHand, AtPhoto
  <2>7. FilesHeld(v)
    <3>1. \A i \in u.batch : i \in Photos /\ i \notin u.cand
      BY <1>1 DEF InHand, Uploads, Photos
    <3> QED BY <2>5, <3>1 DEF FilesHeld, InHand
  <2>8. SourcesHeld(v)
    BY <2>5 DEF SourcesHeld, InHand
  <2>9. Turns(v)
    BY <2>5 DEF Turns, AsRun
  <2>10. Ends(v)
    BY <2>5 DEF Ends, AsRun
  <2> QED BY <2>2, <2>4, <2>6, <2>7, <2>8, <2>9, <2>10 DEF Orderly
<1>3. CASE ~(u.cand # {} /\ (~Runs(u) \/ outcome # "uploaded"))
  <2>1. AfterUpload(u, outcome, space) = FinishBatchOutcome(u, outcome, space)
    BY <1>3 DEF AfterUpload
  <2> QED BY <1>3, <2>1, OutcomeGood
<1> QED BY <1>2, <1>3

\* What was awaited has settled: v is u without the files that were discarded.
Cleaned(u, v) ==
  /\ v \in Uploads /\ v.temps = u.temps \ u.trash /\ v.trash = {} /\ v.flight = {}
  /\ v.st = u.st /\ v.cursor = u.cursor /\ v.batch = u.batch /\ v.cand = u.cand
  /\ v.stored = u.stored /\ v.unlinking = u.unlinking

LEMMA CleanedInHand ==
  ASSUME NEW u \in Uploads, Orderly(u), u.pc # "upload", u.pc = "close" => u.unlinking = {},
         u.pc = "reject" => u.cursor \notin u.unlinking,
         u.pc = "recorded" => u.flight \cap u.unlinking = {},
         NEW v, Cleaned(u, v)
  PROVE  InHand(v) /\ (u.pc # "recorded" => Calm(v))
<1>1. v.temps = v.batch \cup v.cand
  BY DEF Orderly, FilesHeld, Cleaned
<1>2. v.unlinking \subseteq Unreadable
  BY DEF Orderly, SourcesHeld, Cleaned
<1>3. InHand(v)
  BY <1>1, <1>2 DEF Orderly, InOrder, Cleaned, InHand
<1> QED BY <1>3 DEF Orderly, FilesHeld, Cleaned, Calm

LEMMA RunHasFloor ==
  ASSUME NEW u \in Uploads, Orderly(u), u.pc \notin {"idle", "release", "close"}
  PROVE  AsRun(u)
<1>1. u.who = "run"
  BY DEF Orderly, Turns, Uploads
<1> QED BY <1>1 DEF Orderly, Turns, Ends, AsRun

-----------------------------------------------------------------------------
(* The actions.                                                            *)

LEMMA UploadPreprocessSettles ==
  ASSUME UploadInv, NEW ok \in BOOLEAN, PreprocessSettles(ok)
  PROVE  UploadInv'
<1>1. PICK u : u = up
  OBVIOUS
<1>2. PICK v : v = up'
  OBVIOUS
<1>3. u \in Uploads /\ Orderly(u) /\ u.pc = "preprocess" /\ AsRun(u)
  BY <1>1, RunHasFloor DEF UploadInv, PreprocessSettles
<1>4. Calm(u) /\ u.cursor \in Photos \ Unreadable
  <2>1. Cleaned(u, u) /\ u.cursor \in Photos \ Unreadable
    BY <1>3 DEF Cleaned, Orderly, FilesHeld, InOrder, AtPhoto
  <2> QED BY <1>3, <2>1, CleanedInHand
<1>5. CASE ok
  <2>1. PICK p \in {"adopt", "drop"} : p = IF Runs(u) THEN "adopt" ELSE "drop"
    OBVIOUS
  <2>2. v = [u EXCEPT !.pc = p]
    BY <1>1, <1>2, <1>5, <2>1 DEF PreprocessSettles
  <2>3. /\ v \in Uploads
        /\ v.slow = u.slow /\ v.st = u.st /\ v.cursor = u.cursor /\ v.batch = u.batch
        /\ v.cand = u.cand /\ v.flight = u.flight /\ v.phase = u.phase
        /\ v.intent = u.intent /\ v.run = u.run /\ v.cancel = u.cancel /\ v.pc = p
        /\ v.who = u.who /\ v.goal = u.goal /\ v.outcome = u.outcome /\ v.owed = u.owed
        /\ v.aborted = u.aborted /\ v.lease = u.lease /\ v.temps = u.temps
        /\ v.trash = u.trash /\ v.owned = u.owned /\ v.unlinking = u.unlinking
        /\ v.stored = u.stored
    <3>1. p \in Awaits
      BY DEF Awaits, AtPhoto
    <3> QED BY <1>3, <2>2, <3>1 DEF Uploads
  <2>4. InOrder(v)
    BY <1>4, <2>3 DEF InOrder, Calm, InHand
  <2>5. FilesHeld(v)
    BY <1>4, <2>3 DEF FilesHeld, Calm, InHand
  <2>6. SourcesHeld(v)
    BY <1>4, <2>3 DEF SourcesHeld, Calm, InHand
  <2>7. Turns(v)
    BY <1>3, <2>1, <2>3 DEF Turns, AsRun, Runs, Intent
  <2>8. Ends(v)
    BY <1>3, <2>3 DEF Ends, AsRun
  <2> QED BY <1>2, <2>3, <2>4, <2>5, <2>6, <2>7, <2>8 DEF UploadInv, Orderly
<1>6. CASE ~ok
  <2>1. v = IF Runs(u) THEN Reject(u) ELSE Interrupted(u)
    BY <1>1, <1>2, <1>6 DEF PreprocessSettles
  <2>2. v \in Uploads /\ Orderly(v)
    BY <1>3, <1>4, <2>1, RejectGood, InterruptedGood
  <2> QED BY <1>2, <2>2 DEF UploadInv
<1> QED BY <1>5, <1>6

LEMMA UploadAdoptFails ==
  ASSUME UploadInv, AdoptFails
  PROVE  UploadInv'
<1>1. PICK u : u = up
  OBVIOUS
<1>2. PICK v : v = up'
  OBVIOUS
<1>3. u \in Uploads /\ Orderly(u) /\ u.pc = "adopt" /\ v = [u EXCEPT !.pc = "spoil"]
  BY <1>1, <1>2 DEF UploadInv, AdoptFails
<1>4. /\ v \in Uploads
      /\ v.slow = u.slow /\ v.st = u.st /\ v.cursor = u.cursor /\ v.batch = u.batch
      /\ v.cand = u.cand /\ v.flight = u.flight /\ v.phase = u.phase /\ v.intent = u.intent
      /\ v.run = u.run /\ v.cancel = u.cancel /\ v.pc = "spoil" /\ v.who = u.who
      /\ v.goal = u.goal /\ v.outcome = u.outcome /\ v.owed = u.owed
      /\ v.aborted = u.aborted /\ v.lease = u.lease /\ v.temps = u.temps
      /\ v.trash = u.trash /\ v.owned = u.owned /\ v.unlinking = u.unlinking
      /\ v.stored = u.stored
  <2>1. "spoil" \in Awaits
    BY DEF Awaits, AtPhoto
  <2> QED BY <1>3, <2>1 DEF Uploads
<1>5. InOrder(v)
  BY <1>3, <1>4 DEF Orderly, InOrder, AtPhoto
<1>6. FilesHeld(v)
  BY <1>3, <1>4 DEF Orderly, FilesHeld
<1>7. SourcesHeld(v)
  BY <1>3, <1>4 DEF Orderly, SourcesHeld
<1>8. Turns(v)
  BY <1>3, <1>4 DEF Orderly, Turns
<1>9. Ends(v)
  BY <1>3, <1>4 DEF Orderly, Ends, Closing
<1> QED BY <1>2, <1>4, <1>5, <1>6, <1>7, <1>8, <1>9 DEF UploadInv, Orderly

LEMMA UploadAdoptSettles ==
  ASSUME UploadInv, NEW large \in BOOLEAN, NEW space, AdoptSettles(large, space)
  PROVE  UploadInv'
<1>1. PICK o : o = up
  OBVIOUS
<1>2. PICK v : v = up'
  OBVIOUS
<1>3. o \in Uploads /\ Orderly(o) /\ o.pc = "adopt" /\ AsRun(o)
  BY <1>1, RunHasFloor DEF UploadInv, AdoptSettles
<1>4. Calm(o) /\ o.cursor \in Photos \ Unreadable
  <2>1. Cleaned(o, o) /\ o.cursor \in Photos \ Unreadable
    BY <1>3 DEF Cleaned, Orderly, FilesHeld, InOrder, AtPhoto
  <2> QED BY <1>3, <2>1, CleanedInHand
<1>5. PICK i \in Photos \ Unreadable : i = o.cursor
  BY <1>4
<1>6. /\ i \in Nat /\ \A j \in o.batch \cup o.stored : j \in Photos /\ j \in Nat /\ j < i /\ j # i
  BY <1>3, <1>4, <1>5, UploadBounds DEF Calm, InHand, Uploads, Photos
<1>7. PICK u : u = [o EXCEPT !.temps = @ \cup {i}]
  OBVIOUS
<1>8. PICK temps \in SUBSET Photos : temps = o.temps \cup {i}
  BY <1>3, <1>5 DEF Uploads
<1>9. /\ u \in Uploads
      /\ u.slow = o.slow /\ u.st = o.st /\ u.cursor = o.cursor /\ u.batch = o.batch
      /\ u.cand = o.cand /\ u.flight = o.flight /\ u.phase = o.phase /\ u.intent = o.intent
      /\ u.run = o.run /\ u.cancel = o.cancel /\ u.pc = o.pc /\ u.who = o.who
      /\ u.goal = o.goal /\ u.outcome = o.outcome /\ u.owed = o.owed
      /\ u.aborted = o.aborted /\ u.lease = o.lease /\ u.temps = temps /\ u.trash = o.trash
      /\ u.owned = o.owned /\ u.unlinking = o.unlinking /\ u.stored = o.stored
  BY <1>3, <1>7, <1>8 DEF Uploads
<1>10. PICK S \in SUBSET Photos : S = {i}
  OBVIOUS
<1>11. PICK x \in [Photos -> PhotoStates] :
         /\ Mark(u, S, "ready") = [u EXCEPT !.st = x]
         /\ \A j \in Photos : x[j] = IF j \in S THEN "ready" ELSE u.st[j]
  <2>1. u \in Uploads /\ "ready" \in PhotoStates
    BY <1>9 DEF PhotoStates
  <2> QED BY <2>1, Marked
<1>12. PICK ready : ready = [u EXCEPT !.st = x]
  OBVIOUS
<1>13. /\ ready \in Uploads
       /\ ready.slow = o.slow /\ ready.st = x /\ ready.cursor = o.cursor
       /\ ready.batch = o.batch /\ ready.cand = o.cand /\ ready.flight = o.flight
       /\ ready.phase = o.phase /\ ready.intent = o.intent /\ ready.run = o.run
       /\ ready.cancel = o.cancel /\ ready.pc = o.pc /\ ready.who = o.who
       /\ ready.goal = o.goal /\ ready.outcome = o.outcome /\ ready.owed = o.owed
       /\ ready.aborted = o.aborted /\ ready.lease = o.lease /\ ready.temps = temps
       /\ ready.trash = o.trash /\ ready.owned = o.owned /\ ready.unlinking = o.unlinking
       /\ ready.stored = o.stored
  BY <1>9, <1>12 DEF Uploads
<1>14. v = IF ~Runs(u) THEN [u EXCEPT !.trash = S, !.pc = "drop"]
           ELSE IF large THEN [u EXCEPT !.trash = S, !.pc = "large"]
           ELSE IF Cardinality(u.batch) >= BatchFiles
           THEN UploadCurrentBatch([ready EXCEPT !.cand = S])
           ELSE RunLoop([ready EXCEPT !.batch = @ \cup S, !.cursor = @ + 1], space)
  BY <1>1, <1>2, <1>5, <1>7, <1>10, <1>11, <1>12 DEF AdoptSettles
<1>15. CASE ~Runs(u) \/ large
  <2>1. PICK p \in {"drop", "large"} : p = IF ~Runs(u) THEN "drop" ELSE "large"
    OBVIOUS
  <2>2. v = [u EXCEPT !.trash = S, !.pc = p]
    BY <1>14, <1>15, <2>1
  <2>3. /\ v \in Uploads
        /\ v.slow = o.slow /\ v.st = o.st /\ v.cursor = o.cursor /\ v.batch = o.batch
        /\ v.cand = o.cand /\ v.flight = o.flight /\ v.phase = o.phase
        /\ v.intent = o.intent /\ v.run = o.run /\ v.cancel = o.cancel /\ v.pc = p
        /\ v.who = o.who /\ v.goal = o.goal /\ v.outcome = o.outcome /\ v.owed = o.owed
        /\ v.aborted = o.aborted /\ v.lease = o.lease /\ v.temps = temps /\ v.trash = S
        /\ v.owned = o.owned /\ v.unlinking = o.unlinking /\ v.stored = o.stored
    <3>1. p \in Awaits
      BY DEF Awaits, AtPhoto
    <3> QED BY <1>9, <2>2, <3>1 DEF Uploads
  <2>4. InOrder(v)
    BY <1>4, <2>3 DEF InOrder, Calm, InHand
  <2>5. FilesHeld(v)
    <3>1. v.temps = v.batch \cup v.trash /\ v.trash \cap v.batch = {}
      BY <1>4, <1>6, <1>8, <1>10, <2>3 DEF Calm, InHand
    <3> QED BY <1>4, <2>3, <3>1 DEF FilesHeld, Calm, InHand
  <2>6. SourcesHeld(v)
    BY <1>4, <2>3 DEF SourcesHeld, Calm, InHand
  <2>7. Turns(v)
    BY <1>3, <1>9, <2>1, <2>3 DEF Turns, AsRun, Runs, Intent
  <2>8. Ends(v)
    BY <1>3, <2>3 DEF Ends, AsRun
  <2> QED BY <1>2, <2>3, <2>4, <2>5, <2>6, <2>7, <2>8 DEF UploadInv, Orderly
<1>16. \A j \in o.stored : x[j] = o.st[j]
  BY <1>6, <1>9, <1>10, <1>11
<1>17. CASE Runs(u) /\ ~large /\ Cardinality(u.batch) >= BatchFiles
  <2>1. PICK w : w = [ready EXCEPT !.cand = S]
    OBVIOUS
  <2>2. /\ w \in Uploads
        /\ w.slow = o.slow /\ w.st = x /\ w.cursor = o.cursor /\ w.batch = o.batch
        /\ w.cand = S /\ w.flight = o.flight /\ w.phase = o.phase /\ w.intent = o.intent
        /\ w.run = o.run /\ w.cancel = o.cancel /\ w.pc = o.pc /\ w.who = o.who
        /\ w.goal = o.goal /\ w.outcome = o.outcome /\ w.owed = o.owed
        /\ w.aborted = o.aborted /\ w.lease = o.lease /\ w.temps = temps
        /\ w.trash = o.trash /\ w.owned = o.owned /\ w.unlinking = o.unlinking
        /\ w.stored = o.stored
    BY <1>13, <2>1 DEF Uploads
  <2>3. InHand(w)
    BY <1>4, <1>5, <1>8, <1>10, <1>16, <2>2 DEF Calm, InHand
  <2>4. AsRun(w)
    BY <1>3, <2>2 DEF AsRun
  <2>5. v = UploadCurrentBatch(w)
    BY <1>14, <1>17, <2>1
  <2> QED BY <1>2, <2>3, <2>4, <2>5, SendsBatch DEF UploadInv
<1>18. CASE Runs(u) /\ ~large /\ ~(Cardinality(u.batch) >= BatchFiles)
  <2>1. PICK batch \in SUBSET Photos : batch = o.batch \cup S
    BY <1>3 DEF Uploads
  <2>2. PICK next \in Cursors : next = i + 1
    BY <1>5, UploadBounds DEF Photos, Cursors
  <2>3. PICK w : w = [ready EXCEPT !.batch = batch, !.cursor = next]
    OBVIOUS
  <2>4. /\ w \in Uploads
        /\ w.slow = o.slow /\ w.st = x /\ w.cursor = next /\ w.batch = batch
        /\ w.cand = o.cand /\ w.flight = o.flight /\ w.phase = o.phase
        /\ w.intent = o.intent /\ w.run = o.run /\ w.cancel = o.cancel /\ w.pc = o.pc
        /\ w.who = o.who /\ w.goal = o.goal /\ w.outcome = o.outcome /\ w.owed = o.owed
        /\ w.aborted = o.aborted /\ w.lease = o.lease /\ w.temps = temps
        /\ w.trash = o.trash /\ w.owned = o.owned /\ w.unlinking = o.unlinking
        /\ w.stored = o.stored
    BY <1>13, <2>3 DEF Uploads
  <2>5. Calm(w)
    <3>1. w.temps = w.batch \cup w.cand
      BY <1>4, <1>8, <1>10, <2>1, <2>4 DEF Calm, InHand
    <3>2. \A j \in w.batch \cup w.stored : j < w.cursor
      BY <1>6, <1>10, <2>1, <2>2, <2>4
    <3>3. \A j \in w.stored : \A b \in w.batch : j < b
      BY <1>4, <1>6, <1>10, <2>1, <2>4 DEF Calm, InHand
    <3> QED BY <1>4, <1>16, <2>4, <3>1, <3>2, <3>3 DEF Calm, InHand
  <2>6. AsRun(w)
    BY <1>3, <2>4 DEF AsRun
  <2>7. v = RunLoop(w, space)
    BY <1>5, <1>13, <1>14, <1>18, <2>1, <2>2, <2>3
  <2> QED BY <1>2, <2>5, <2>6, <2>7, LoopGood DEF UploadInv
<1> QED BY <1>15, <1>17, <1>18

LEMMA UploadDiscarded ==
  ASSUME UploadInv, Discarded
  PROVE  UploadInv'
<1>1. PICK o : o = up
  OBVIOUS
<1>2. PICK v : v = up'
  OBVIOUS
<1>3. o \in Uploads /\ Orderly(o) /\ o.pc \in {"drop", "spoil", "large"} /\ AsRun(o)
  BY <1>1, RunHasFloor DEF UploadInv, Discarded
<1>4. PICK temps \in SUBSET Photos : temps = o.temps \ o.trash
  BY <1>3 DEF Uploads
<1>5. PICK u : u = [o EXCEPT !.temps = temps, !.trash = {}]
  OBVIOUS
<1>6. /\ u \in Uploads
      /\ u.slow = o.slow /\ u.st = o.st /\ u.cursor = o.cursor /\ u.batch = o.batch
      /\ u.cand = o.cand /\ u.flight = o.flight /\ u.phase = o.phase /\ u.intent = o.intent
      /\ u.run = o.run /\ u.cancel = o.cancel /\ u.pc = o.pc /\ u.who = o.who
      /\ u.goal = o.goal /\ u.outcome = o.outcome /\ u.owed = o.owed
      /\ u.aborted = o.aborted /\ u.lease = o.lease /\ u.temps = temps /\ u.trash = {}
      /\ u.owned = o.owned /\ u.unlinking = o.unlinking /\ u.stored = o.stored
  <2>1. {} \in SUBSET Photos
    OBVIOUS
  <2> QED BY <1>3, <1>5, <2>1 DEF Uploads
<1>7. Calm(u) /\ AsRun(u) /\ u.cursor \in Photos \ Unreadable /\ (u.pc = "drop" => ~Runs(u))
  <2>1. Cleaned(o, u)
    BY <1>3, <1>4, <1>6 DEF Cleaned, Orderly, FilesHeld
  <2>2. Calm(u)
    BY <1>3, <2>1, CleanedInHand
  <2> QED BY <1>3, <1>6, <2>2 DEF AsRun, Orderly, InOrder, Turns, AtPhoto, Runs, Intent
<1>8. v = IF u.pc = "drop" \/ (u.pc = "spoil" /\ ~Runs(u)) THEN Interrupted(u) ELSE Reject(u)
  BY <1>1, <1>2, <1>3, <1>4, <1>5 DEF Discarded, Uploads
<1> QED BY <1>2, <1>7, <1>8, RejectGood, InterruptedGood DEF UploadInv

LEMMA UploadRejected ==
  ASSUME UploadInv, NEW space, Rejected(space)
  PROVE  UploadInv'
<1>1. PICK o : o = up
  OBVIOUS
<1>2. PICK v : v = up'
  OBVIOUS
<1>3. /\ o \in Uploads /\ Orderly(o) /\ o.pc = "reject" /\ o.cursor \notin o.unlinking /\ AsRun(o)
      /\ v = RunLoop([o EXCEPT !.cursor = @ + 1], space)
  BY <1>1, <1>2, RunHasFloor DEF UploadInv, Rejected
<1>4. Calm(o) /\ o.cursor \in Photos
  <2>1. Cleaned(o, o) /\ o.cursor \in Photos
    BY <1>3 DEF Cleaned, Orderly, FilesHeld, InOrder, AtPhoto
  <2> QED BY <1>3, <2>1, CleanedInHand
<1>5. PICK next \in Cursors : next = o.cursor + 1
  BY <1>4, UploadBounds DEF Photos, Cursors
<1>6. PICK w : w = [o EXCEPT !.cursor = next]
  OBVIOUS
<1>7. /\ w \in Uploads
      /\ w.slow = o.slow /\ w.st = o.st /\ w.cursor = next /\ w.batch = o.batch
      /\ w.cand = o.cand /\ w.flight = o.flight /\ w.phase = o.phase /\ w.intent = o.intent
      /\ w.run = o.run /\ w.cancel = o.cancel /\ w.pc = o.pc /\ w.who = o.who
      /\ w.goal = o.goal /\ w.outcome = o.outcome /\ w.owed = o.owed
      /\ w.aborted = o.aborted /\ w.lease = o.lease /\ w.temps = o.temps
      /\ w.trash = o.trash /\ w.owned = o.owned /\ w.unlinking = o.unlinking
      /\ w.stored = o.stored
  BY <1>3, <1>6 DEF Uploads
<1>8. Calm(w) /\ AsRun(w)
  <2>1. \A j \in o.batch \cup o.stored : j < next
    BY <1>3, <1>4, <1>5, UploadBounds DEF Calm, InHand, Uploads, Photos
  <2> QED BY <1>3, <1>4, <1>7, <2>1 DEF Calm, InHand, AsRun
<1>9. v = RunLoop(w, space)
  BY <1>3, <1>5, <1>6
<1> QED BY <1>2, <1>8, <1>9, LoopGood DEF UploadInv

\* An answer moves what was sent out of the request.
LEMMA UploadRequestSettles ==
  ASSUME UploadInv, NEW outcome \in Outcomes, NEW stored \in BOOLEAN, NEW space,
         RequestSettles(outcome, stored, space)
  PROVE  UploadInv'
<1>1. PICK o : o = up
  OBVIOUS
<1>2. PICK v : v = up'
  OBVIOUS
<1>3. /\ o \in Uploads /\ Orderly(o) /\ o.pc = "upload" /\ AsRun(o)
      /\ stored => outcome \in {"uploaded", "unknown", "cancelled"}
      /\ outcome = "uploaded" => stored
  BY <1>1, RunHasFloor DEF UploadInv, RequestSettles
<1>4. PICK got \in SUBSET Photos : got = IF stored THEN o.stored \cup o.flight ELSE o.stored
  BY <1>3 DEF Uploads
<1>5. PICK u : u = [o EXCEPT !.stored = got]
  OBVIOUS
<1>6. /\ u \in Uploads
      /\ u.slow = o.slow /\ u.st = o.st /\ u.cursor = o.cursor /\ u.batch = o.batch
      /\ u.cand = o.cand /\ u.flight = o.flight /\ u.phase = o.phase /\ u.intent = o.intent
      /\ u.run = o.run /\ u.cancel = o.cancel /\ u.pc = o.pc /\ u.who = o.who
      /\ u.goal = o.goal /\ u.outcome = o.outcome /\ u.owed = o.owed
      /\ u.aborted = o.aborted /\ u.lease = o.lease /\ u.temps = o.temps
      /\ u.trash = o.trash /\ u.owned = o.owned /\ u.unlinking = o.unlinking
      /\ u.stored = got
  BY <1>3, <1>5 DEF Uploads
<1>7. /\ o.trash = {} /\ o.batch = {} /\ o.temps = o.cand \cup o.flight /\ o.cand \subseteq {o.cursor}
      /\ o.unlinking \subseteq Unreadable
      /\ \A f \in o.flight : f \in Photos /\ f \in Nat /\ f < o.cursor /\ f # o.cursor
      /\ \A i \in o.stored : /\ i \in Photos /\ i \notin o.flight /\ i < o.cursor
                             /\ o.st[i] \in {"uploading", "uploaded", "unknown"}
                             /\ \A f \in o.flight : i < f
  <2>1. /\ o.trash = {} /\ o.batch = {} /\ o.temps = o.cand \cup o.flight
        /\ o.cand \subseteq {o.cursor} /\ o.unlinking \subseteq Unreadable
    BY <1>3 DEF Orderly, InOrder, FilesHeld, SourcesHeld
  <2>2. o.cursor \in Nat /\ o.flight \subseteq Photos /\ o.stored \subseteq Photos
        /\ \A i \in Photos : i \in Nat
    BY <1>3, UploadBounds DEF Uploads, Cursors, Photos
  <2>3. \A f \in o.flight : f \in Photos /\ f \in Nat /\ f < o.cursor /\ f # o.cursor
    BY <1>3, <2>2 DEF Orderly, InOrder
  <2>4. \A i \in o.stored : /\ i \in Photos /\ i \notin o.flight /\ i < o.cursor
                            /\ o.st[i] \in {"uploading", "uploaded", "unknown"}
                            /\ \A f \in o.flight : i < f
    BY <1>3, <2>2 DEF Orderly, InOrder
  <2> QED BY <2>1, <2>3, <2>4
<1>8. CASE Kept(outcome)
  <2>1. outcome = "throttled" /\ ~stored
    BY <1>3, <1>8 DEF Kept
  <2>2. PICK S \in SUBSET Photos : S = o.flight
    BY <1>3 DEF Uploads
  <2>3. PICK x \in [Photos -> PhotoStates] :
          /\ Mark(u, S, "ready") = [u EXCEPT !.st = x]
          /\ \A i \in Photos : x[i] = IF i \in S THEN "ready" ELSE u.st[i]
    <3>1. u \in Uploads /\ "ready" \in PhotoStates
      BY <1>6 DEF PhotoStates
    <3> QED BY <3>1, Marked
  <2>4. PICK w : w = [u EXCEPT !.st = x, !.batch = S, !.flight = {}]
    OBVIOUS
  <2>5. /\ w \in Uploads
        /\ w.slow = o.slow /\ w.st = x /\ w.cursor = o.cursor /\ w.batch = S
        /\ w.cand = o.cand /\ w.flight = {} /\ w.phase = o.phase /\ w.intent = o.intent
        /\ w.run = o.run /\ w.cancel = o.cancel /\ w.pc = o.pc /\ w.who = o.who
        /\ w.goal = o.goal /\ w.outcome = o.outcome /\ w.owed = o.owed
        /\ w.aborted = o.aborted /\ w.lease = o.lease /\ w.temps = o.temps
        /\ w.trash = o.trash /\ w.owned = o.owned /\ w.unlinking = o.unlinking
        /\ w.stored = got
    <3>1. {} \in SUBSET Photos
      OBVIOUS
    <3> QED BY <1>6, <2>4, <3>1 DEF Uploads
  <2>6. InHand(w)
    <3>1. \A i \in o.stored : x[i] = o.st[i]
      BY <1>6, <1>7, <2>2, <2>3
    <3> QED BY <1>4, <1>7, <2>1, <2>2, <2>5, <3>1 DEF InHand
  <2>7. AsRun(w)
    BY <1>3, <2>5 DEF AsRun
  <2>8. v = AfterUpload(w, outcome, space)
    <3>1. u = [o EXCEPT !.stored = IF stored THEN @ \cup o.flight ELSE @]
      BY <1>4, <1>5
    <3>2. v = AfterUpload([Mark(u, u.flight, "ready") EXCEPT !.batch = u.flight, !.flight = {}],
                          outcome, space)
      BY <1>1, <1>2, <1>8, <3>1 DEF RequestSettles
    <3>3. [Mark(u, u.flight, "ready") EXCEPT !.batch = u.flight, !.flight = {}] = w
      BY <1>6, <2>2, <2>3, <2>4
    <3> QED BY <3>2, <3>3
  <2>9. outcome \in Outcomes \cup {"none"}
    OBVIOUS
  <2> QED BY <1>2, <2>1, <2>6, <2>7, <2>8, <2>9, AfterUploadGood DEF UploadInv
<1>9. CASE ~Kept(outcome)
  <2>1. PICK s \in PhotoStates :
          s = CASE outcome = "uploaded" -> "uploaded"
                [] outcome \in {"unknown", "cancelled"} -> "unknown"
                [] outcome \in {"failed", "tripGone"} -> "failed"
    BY <1>9 DEF Kept, Outcomes, PhotoStates
  <2>2. PICK S \in SUBSET Photos : S = o.flight
    BY <1>3 DEF Uploads
  <2>3. PICK x \in [Photos -> PhotoStates] :
          /\ Mark(u, S, s) = [u EXCEPT !.st = x]
          /\ \A i \in Photos : x[i] = IF i \in S THEN s ELSE u.st[i]
    <3>1. u \in Uploads
      BY <1>6
    <3> QED BY <3>1, Marked
  <2>4. PICK l \in SUBSET Photos : l = o.unlinking \cup (o.owned \cap S)
    BY <1>3 DEF Uploads
  <2>5. PICK own \in SUBSET Photos : own = o.owned \ S
    BY <1>3 DEF Uploads
  <2>6. v = [u EXCEPT !.st = x, !.trash = S, !.unlinking = l, !.owned = own, !.pc = "recorded",
                      !.outcome = outcome]
    <3>1. u = [o EXCEPT !.stored = IF stored THEN @ \cup o.flight ELSE @]
      BY <1>4, <1>5
    <3>2. v = [Mark(u, u.flight, CASE outcome = "uploaded" -> "uploaded"
                                   [] outcome \in {"unknown", "cancelled"} -> "unknown"
                                   [] outcome \in {"failed", "tripGone"} -> "failed")
                 EXCEPT !.trash = u.flight, !.unlinking = @ \cup (u.owned \cap u.flight),
                        !.owned = @ \ u.flight, !.pc = "recorded", !.outcome = outcome]
      BY <1>1, <1>2, <1>9, <3>1 DEF RequestSettles
    <3>3. v = [[u EXCEPT !.st = x] EXCEPT !.trash = S, !.unlinking = @ \cup (u.owned \cap S),
                        !.owned = @ \ S, !.pc = "recorded", !.outcome = outcome]
      BY <1>6, <2>1, <2>2, <2>3, <3>2
    <3> QED BY <1>6, <2>4, <2>5, <3>3 DEF Uploads
  <2>7. v \in Uploads
    <3>1. "recorded" \in Awaits /\ outcome \in Outcomes \cup {"none"}
      BY DEF Awaits
    <3> QED BY <1>6, <2>6, <3>1 DEF Uploads
  <2>8. /\ v.slow = o.slow /\ v.st = x /\ v.cursor = o.cursor /\ v.batch = o.batch
        /\ v.cand = o.cand /\ v.flight = o.flight /\ v.phase = o.phase
        /\ v.intent = o.intent /\ v.run = o.run /\ v.cancel = o.cancel /\ v.pc = "recorded"
        /\ v.who = o.who /\ v.goal = o.goal /\ v.outcome = outcome /\ v.owed = o.owed
        /\ v.aborted = o.aborted /\ v.lease = o.lease /\ v.temps = o.temps /\ v.trash = S
        /\ v.owned = own /\ v.unlinking = l /\ v.stored = got
    BY <1>6, <2>6 DEF Uploads
  <2>9. InOrder(v)
    <3>1. stored => s \in {"uploaded", "unknown"}
      BY <1>3, <2>1
    <3>2. \A i \in got : x[i] \in {"uploading", "uploaded", "unknown"} /\ i < o.cursor
      BY <1>4, <1>6, <1>7, <2>2, <2>3, <3>1
    <3> QED BY <1>7, <2>2, <2>8, <3>2 DEF InOrder, AtPhoto
  <2>10. FilesHeld(v)
    BY <1>7, <2>2, <2>8 DEF FilesHeld
  <2>11. SourcesHeld(v)
    BY <1>7, <2>2, <2>4, <2>8 DEF SourcesHeld
  <2>12. Turns(v)
    BY <1>3, <2>8 DEF Turns, AsRun
  <2>13. Ends(v)
    BY <1>3, <2>8 DEF Ends, AsRun
  <2> QED BY <1>2, <2>7, <2>9, <2>10, <2>11, <2>12, <2>13 DEF UploadInv, Orderly
<1> QED BY <1>8, <1>9

LEMMA UploadBatchCleaned ==
  ASSUME UploadInv, NEW space, BatchCleaned(space) \/ CandidateReleased(space)
  PROVE  UploadInv'
<1>1. PICK o : o = up
  OBVIOUS
<1>2. PICK v : v = up'
  OBVIOUS
<1>3. /\ o \in Uploads /\ Orderly(o) /\ o.pc \in {"recorded", "candidate"} /\ AsRun(o)
      /\ o.pc = "recorded" => o.flight \cap o.unlinking = {}
  BY <1>1, RunHasFloor DEF UploadInv, BatchCleaned, CandidateReleased
<1>4. PICK temps \in SUBSET Photos : temps = o.temps \ o.trash
  BY <1>3 DEF Uploads
<1>5. PICK w : w = [o EXCEPT !.temps = temps, !.trash = {}, !.flight = {}, !.outcome = "none"]
  OBVIOUS
<1>6. /\ w \in Uploads
      /\ w.slow = o.slow /\ w.st = o.st /\ w.cursor = o.cursor /\ w.batch = o.batch
      /\ w.cand = o.cand /\ w.flight = {} /\ w.phase = o.phase /\ w.intent = o.intent
      /\ w.run = o.run /\ w.cancel = o.cancel /\ w.pc = o.pc /\ w.who = o.who
      /\ w.goal = o.goal /\ w.outcome = "none" /\ w.owed = o.owed /\ w.aborted = o.aborted
      /\ w.lease = o.lease /\ w.temps = temps /\ w.trash = {} /\ w.owned = o.owned
      /\ w.unlinking = o.unlinking /\ w.stored = o.stored
  <2>1. {} \in SUBSET Photos /\ "none" \in Outcomes \cup {"none"}
    OBVIOUS
  <2> QED BY <1>3, <1>4, <1>5, <2>1 DEF Uploads
<1>7. InHand(w) /\ (o.pc = "candidate" => Calm(w)) /\ AsRun(w)
  <2>1. Cleaned(o, w)
    BY <1>4, <1>6 DEF Cleaned
  <2> QED BY <1>3, <1>6, <2>1, CleanedInHand DEF AsRun
<1>8. PICK outcome \in Outcomes \cup {"none"} : outcome = o.outcome
  BY <1>3 DEF Uploads
<1>9. CASE BatchCleaned(space)
  <2>1. o.pc = "recorded" /\ w.batch = {}
    BY <1>1, <1>3, <1>6, <1>9 DEF BatchCleaned, Orderly, FilesHeld
  <2>2. v = AfterUpload(w, outcome, space)
    BY <1>1, <1>2, <1>3, <1>4, <1>5, <1>8, <1>9 DEF BatchCleaned, Uploads
  <2> QED BY <1>2, <1>7, <2>1, <2>2, AfterUploadGood DEF UploadInv
<1>10. CASE CandidateReleased(space)
  <2>1. o.pc = "candidate" /\ w.cand = {} /\ (outcome = "uploaded" => w.batch = {})
    BY <1>1, <1>3, <1>6, <1>8, <1>10 DEF CandidateReleased, Orderly, FilesHeld
  <2>2. w = [o EXCEPT !.temps = @ \ o.trash, !.trash = {}, !.outcome = "none"]
    <3>1. o.flight = {}
      BY <1>3, <2>1 DEF Orderly, FilesHeld
    <3> QED BY <1>3, <1>4, <1>5, <3>1 DEF Uploads
  <2>3. v = FinishBatchOutcome(w, outcome, space)
    BY <1>1, <1>2, <1>8, <1>10, <2>2 DEF CandidateReleased
  <2> QED BY <1>2, <1>7, <2>1, <2>3, OutcomeGood DEF UploadInv
<1> QED BY <1>9, <1>10

LEMMA UploadReleased ==
  ASSUME UploadInv, NEW space, NEW leased, Released(space, leased)
  PROVE  UploadInv'
<1>1. PICK o : o = up
  OBVIOUS
<1>2. PICK v : v = up'
  OBVIOUS
<1>3. o \in Uploads /\ Orderly(o) /\ o.pc = "release" /\ o.who \in {"run", "task", "cancel"}
  BY <1>1 DEF UploadInv, Released, Orderly, Turns, Uploads
<1>4. PICK temps \in SUBSET Photos : temps = o.temps \ o.trash
  BY <1>3 DEF Uploads
<1>5. PICK u : u = [o EXCEPT !.temps = temps, !.trash = {}]
  OBVIOUS
<1>6. /\ u \in Uploads
      /\ u.slow = o.slow /\ u.st = o.st /\ u.cursor = o.cursor /\ u.batch = o.batch
      /\ u.cand = o.cand /\ u.flight = o.flight /\ u.phase = o.phase /\ u.intent = o.intent
      /\ u.run = o.run /\ u.cancel = o.cancel /\ u.pc = o.pc /\ u.who = o.who
      /\ u.goal = o.goal /\ u.outcome = o.outcome /\ u.owed = o.owed
      /\ u.aborted = o.aborted /\ u.lease = o.lease /\ u.temps = temps /\ u.trash = {}
      /\ u.owned = o.owned /\ u.unlinking = o.unlinking /\ u.stored = o.stored
  <2>1. {} \in SUBSET Photos
    OBVIOUS
  <2> QED BY <1>3, <1>5, <2>1 DEF Uploads
<1>7. Calm(u) /\ o.batch = {}
  <2>1. Cleaned(o, u) /\ o.batch = {}
    BY <1>3, <1>4, <1>6 DEF Cleaned, Orderly, FilesHeld
  <2> QED BY <1>3, <2>1, CleanedInHand
<1>8. v = AfterEnd(CASE u.goal = "paused" -> EndOfRun([u EXCEPT !.phase = "paused"])
                     [] u.goal = "none" -> EndOfRun(u)
                     [] OTHER -> CloseSources(u), space, leased)
  BY <1>1, <1>2, <1>3, <1>4, <1>5 DEF Released, Uploads
<1>9. "paused" \notin Terminal /\ "none" \notin Terminal
  BY DEF Terminal
<1>10. CASE u.goal = "paused"
  <2>1. PICK w : w = [u EXCEPT !.phase = "paused"]
    OBVIOUS
  <2>2. /\ w \in Uploads
        /\ w.slow = u.slow /\ w.st = u.st /\ w.cursor = u.cursor /\ w.batch = u.batch
        /\ w.cand = u.cand /\ w.flight = u.flight /\ w.phase = "paused"
        /\ w.intent = u.intent /\ w.run = u.run /\ w.cancel = u.cancel /\ w.pc = u.pc
        /\ w.who = u.who /\ w.goal = u.goal /\ w.outcome = u.outcome /\ w.owed = u.owed
        /\ w.aborted = u.aborted /\ w.lease = u.lease /\ w.temps = u.temps
        /\ w.trash = u.trash /\ w.owned = u.owned /\ w.unlinking = u.unlinking
        /\ w.stored = u.stored
    BY <1>6, <2>1 DEF Uploads
  <2>3. Calm(w)
    BY <1>7, <2>2 DEF Calm, InHand
  <2>4. EndFits(w)
    BY <1>3, <1>6, <1>7, <1>9, <1>10, <2>2 DEF EndFits, Orderly, Turns, Ends
  <2>5. v = AfterEnd(EndOfRun(w), space, leased)
    BY <1>8, <1>10, <2>1
  <2> QED BY <1>2, <2>3, <2>4, <2>5, EndGood DEF UploadInv
<1>11. CASE u.goal = "none"
  <2>1. EndFits(u)
    BY <1>3, <1>6, <1>7, <1>9, <1>11 DEF EndFits, Orderly, Turns, Ends, Closing, Uploads
  <2>2. v = AfterEnd(EndOfRun(u), space, leased)
    BY <1>8, <1>11
  <2> QED BY <1>2, <1>7, <2>1, <2>2, EndGood DEF UploadInv
<1>12. CASE u.goal \notin {"paused", "none"}
  <2>1. PICK goal \in Terminal : goal = u.goal
    BY <1>6, <1>12 DEF Uploads
  <2>2. ReleaseFits(u, u.who, goal)
    BY <1>3, <1>6, <1>7, <1>9, <2>1 DEF ReleaseFits, Orderly, Turns, Ends
  <2>3. PICK c : c = CloseSources(u)
    OBVIOUS
  <2>4. c = [CloseSources(u) EXCEPT !.goal = goal] /\ c.pc = "close"
    BY <1>6, <2>1, <2>3 DEF CloseSources, Uploads
  <2>5. c \in Uploads /\ Orderly(c)
    BY <1>3, <1>6, <1>7, <2>2, <2>4, CloseGood
  <2>6. v = c
    BY <1>8, <1>12, <2>3, <2>4 DEF AfterEnd
  <2> QED BY <1>2, <2>5, <2>6 DEF UploadInv
<1> QED BY <1>10, <1>11, <1>12

LEMMA UploadSourcesCleaned ==
  ASSUME UploadInv, NEW space, NEW leased, SourcesCleaned(space, leased)
  PROVE  UploadInv'
<1>1. PICK o : o = up
  OBVIOUS
<1>2. PICK v : v = up'
  OBVIOUS
<1>3. /\ o \in Uploads /\ Orderly(o) /\ o.pc = "close" /\ o.unlinking = {}
      /\ v = AfterEnd(EndOfRun([o EXCEPT !.phase = o.goal]), space, leased)
  BY <1>1, <1>2 DEF UploadInv, SourcesCleaned
<1>4. PICK goal \in Terminal : goal = o.goal
  BY <1>3 DEF Orderly, Turns
<1>5. PICK w : w = [o EXCEPT !.phase = goal]
  OBVIOUS
<1>6. /\ w \in Uploads
      /\ w.slow = o.slow /\ w.st = o.st /\ w.cursor = o.cursor /\ w.batch = o.batch
      /\ w.cand = o.cand /\ w.flight = o.flight /\ w.phase = goal /\ w.intent = o.intent
      /\ w.run = o.run /\ w.cancel = o.cancel /\ w.pc = o.pc /\ w.who = o.who
      /\ w.goal = o.goal /\ w.outcome = o.outcome /\ w.owed = o.owed
      /\ w.aborted = o.aborted /\ w.lease = o.lease /\ w.temps = o.temps
      /\ w.trash = o.trash /\ w.owned = o.owned /\ w.unlinking = o.unlinking
      /\ w.stored = o.stored
  BY <1>3, <1>5 DEF Uploads
<1>7. Calm(w)
  <2>1. Cleaned(o, w)
    BY <1>3, <1>6 DEF Cleaned, Orderly, FilesHeld
  <2> QED BY <1>3, <2>1, CleanedInHand
<1>8. EndFits(w)
  <2>1. o.batch = {} /\ o.owned = {} /\ o.who \in {"run", "task", "cancel"} /\ o.run # "waiting"
    BY <1>3 DEF Orderly, FilesHeld, SourcesHeld, Turns, Uploads
  <2> QED BY <1>3, <1>6, <2>1 DEF EndFits, Orderly, Turns, Terminal
<1>9. v = AfterEnd(EndOfRun(w), space, leased)
  BY <1>3, <1>4, <1>5
<1> QED BY <1>2, <1>7, <1>8, <1>9, EndGood DEF UploadInv

LEMMA UploadUnlinked ==
  ASSUME UploadInv, NEW i, Unlinked(i)
  PROVE  UploadInv'
<1>1. PICK o : o = up
  OBVIOUS
<1>2. PICK v : v = up'
  OBVIOUS
<1>3. o \in Uploads /\ Orderly(o) /\ v = [o EXCEPT !.unlinking = @ \ {i}]
  BY <1>1, <1>2 DEF UploadInv, Unlinked
<1>4. PICK l \in SUBSET Photos : l = o.unlinking \ {i}
  BY <1>3 DEF Uploads
<1>5. /\ v \in Uploads
      /\ v.slow = o.slow /\ v.st = o.st /\ v.cursor = o.cursor /\ v.batch = o.batch
      /\ v.cand = o.cand /\ v.flight = o.flight /\ v.phase = o.phase /\ v.intent = o.intent
      /\ v.run = o.run /\ v.cancel = o.cancel /\ v.pc = o.pc /\ v.who = o.who
      /\ v.goal = o.goal /\ v.outcome = o.outcome /\ v.owed = o.owed
      /\ v.aborted = o.aborted /\ v.lease = o.lease /\ v.temps = o.temps
      /\ v.trash = o.trash /\ v.owned = o.owned /\ v.unlinking = l /\ v.stored = o.stored
  BY <1>3, <1>4 DEF Uploads
<1>6. InOrder(v) /\ FilesHeld(v)
  BY <1>3, <1>5 DEF Orderly, InOrder, FilesHeld
<1>7. SourcesHeld(v)
  BY <1>3, <1>4, <1>5 DEF Orderly, SourcesHeld
<1>8. Turns(v)
  BY <1>3, <1>5 DEF Orderly, Turns, Runs, Intent
<1>9. Ends(v)
  BY <1>3, <1>4, <1>5 DEF Orderly, Ends, Closing
<1> QED BY <1>2, <1>5, <1>6, <1>7, <1>8, <1>9 DEF UploadInv, Orderly

\* An idle session has at most a batch in hand, and nobody the floor.
LEMMA IdleCalm ==
  ASSUME NEW u \in Uploads, Orderly(u), u.pc = "idle"
  PROVE  Calm(u) /\ u.who = "none" /\ ~u.owed /\ u.run = "none"
<1>1. Cleaned(u, u)
  BY DEF Cleaned, Orderly, FilesHeld
<1>2. Calm(u)
  BY <1>1, CleanedInHand
<1> QED BY <1>2 DEF Orderly, Turns, Uploads

LEMMA UploadStart ==
  ASSUME UploadInv, NEW space, NEW leased, Start(space, leased)
  PROVE  UploadInv'
<1>1. PICK o : o = up
  OBVIOUS
<1>2. PICK v : v = up'
  OBVIOUS
<1>3. /\ o \in Uploads /\ Orderly(o) /\ o.run = "none" /\ o.phase \in {"selected", "paused", "throttled"}
      /\ o.intent \in {"running", "pause"}
  BY <1>1 DEF UploadInv, Start
<1>4. PICK u : u = [o EXCEPT !.intent = "running"]
  OBVIOUS
<1>5. /\ u \in Uploads
      /\ u.slow = o.slow /\ u.st = o.st /\ u.cursor = o.cursor /\ u.batch = o.batch
      /\ u.cand = o.cand /\ u.flight = o.flight /\ u.phase = o.phase
      /\ u.intent = "running" /\ u.run = o.run /\ u.cancel = o.cancel /\ u.pc = o.pc
      /\ u.who = o.who /\ u.goal = o.goal /\ u.outcome = o.outcome /\ u.owed = o.owed
      /\ u.aborted = o.aborted /\ u.lease = o.lease /\ u.temps = o.temps
      /\ u.trash = o.trash /\ u.owned = o.owned /\ u.unlinking = o.unlinking
      /\ u.stored = o.stored
  BY <1>3, <1>4 DEF Uploads
<1>6. v = IF u.pc = "idle" THEN BeginRun(u, space, leased) ELSE [u EXCEPT !.run = "waiting"]
  BY <1>1, <1>2, <1>4 DEF Start
<1>7. u.phase \notin Terminal /\ u.cancel # "asked" /\ u.who # "cancel"
  BY <1>3, <1>5 DEF Orderly, Turns, Terminal
<1>8. CASE u.pc = "idle"
  <2>1. Calm(o) /\ ~u.owed
    BY <1>3, <1>5, <1>8, IdleCalm
  <2>2. Calm(u)
    BY <1>5, <2>1 DEF Calm, InHand
  <2> QED BY <1>2, <1>6, <1>7, <1>8, <2>1, <2>2, BeginGood DEF UploadInv
<1>9. CASE u.pc # "idle"
  <2>1. v = [u EXCEPT !.run = "waiting"]
    BY <1>6, <1>9
  <2>2. /\ v \in Uploads
        /\ v.slow = u.slow /\ v.st = u.st /\ v.cursor = u.cursor /\ v.batch = u.batch
        /\ v.cand = u.cand /\ v.flight = u.flight /\ v.phase = u.phase
        /\ v.intent = u.intent /\ v.run = "waiting" /\ v.cancel = u.cancel /\ v.pc = u.pc
        /\ v.who = u.who /\ v.goal = u.goal /\ v.outcome = u.outcome /\ v.owed = u.owed
        /\ v.aborted = u.aborted /\ v.lease = u.lease /\ v.temps = u.temps
        /\ v.trash = u.trash /\ v.owned = u.owned /\ v.unlinking = u.unlinking
        /\ v.stored = u.stored
    BY <1>5, <2>1 DEF Uploads
  <2>3. u.who = "task" /\ u.pc = "release" /\ u.goal = "none" /\ ~u.owed
    BY <1>3, <1>5, <1>7, <1>9 DEF Orderly, Turns, Uploads, Terminal
  <2>4. InOrder(v) /\ FilesHeld(v) /\ SourcesHeld(v)
    BY <1>3, <1>5, <2>2 DEF Orderly, InOrder, FilesHeld, SourcesHeld
  <2>5. Turns(v)
    BY <1>3, <1>5, <2>2, <2>3 DEF Orderly, Turns
  <2>6. Ends(v)
    BY <1>3, <1>5, <1>7, <2>2, <2>3 DEF Orderly, Ends
  <2> QED BY <1>2, <2>2, <2>4, <2>5, <2>6 DEF UploadInv, Orderly
<1> QED BY <1>8, <1>9

LEMMA UploadRequestPause ==
  ASSUME UploadInv, RequestPause
  PROVE  UploadInv'
<1>1. PICK o : o = up
  OBVIOUS
<1>2. PICK v : v = up'
  OBVIOUS
<1>3. /\ o \in Uploads /\ Orderly(o) /\ o.phase \notin Terminal /\ o.intent \in {"running", "pause"}
  BY <1>1 DEF UploadInv, RequestPause
<1>4. PICK u : u = [o EXCEPT !.intent = "pause"]
  OBVIOUS
<1>5. /\ u \in Uploads
      /\ u.slow = o.slow /\ u.st = o.st /\ u.cursor = o.cursor /\ u.batch = o.batch
      /\ u.cand = o.cand /\ u.flight = o.flight /\ u.phase = o.phase /\ u.intent = "pause"
      /\ u.run = o.run /\ u.cancel = o.cancel /\ u.pc = o.pc /\ u.who = o.who
      /\ u.goal = o.goal /\ u.outcome = o.outcome /\ u.owed = o.owed
      /\ u.aborted = o.aborted /\ u.lease = o.lease /\ u.temps = o.temps
      /\ u.trash = o.trash /\ u.owned = o.owned /\ u.unlinking = o.unlinking
      /\ u.stored = o.stored
  BY <1>3, <1>4 DEF Uploads
<1>6. v = IF u.run # "none" THEN u
          ELSE IF u.batch = {} THEN [u EXCEPT !.phase = "paused"]
          ELSE Release([u EXCEPT !.phase = "paused"], "task", "none")
  BY <1>1, <1>2, <1>4 DEF RequestPause
<1>7. ~u.owed /\ u.cancel # "asked" /\ u.who # "cancel" /\ "paused" \notin Terminal
  BY <1>3, <1>5 DEF Orderly, Turns, Terminal
<1>8. PICK phase : phase = IF u.run # "none" THEN u.phase ELSE "paused"
  OBVIOUS
<1>9. PICK w : w = [u EXCEPT !.phase = phase]
  OBVIOUS
<1>10. /\ w \in Uploads
       /\ w.slow = u.slow /\ w.st = u.st /\ w.cursor = u.cursor /\ w.batch = u.batch
       /\ w.cand = u.cand /\ w.flight = u.flight /\ w.phase = phase /\ w.intent = u.intent
       /\ w.run = u.run /\ w.cancel = u.cancel /\ w.pc = u.pc /\ w.who = u.who
       /\ w.goal = u.goal /\ w.outcome = u.outcome /\ w.owed = u.owed
       /\ w.aborted = u.aborted /\ w.lease = u.lease /\ w.temps = u.temps
       /\ w.trash = u.trash /\ w.owned = u.owned /\ w.unlinking = u.unlinking
       /\ w.stored = u.stored
  <2>1. phase \in Terminal \cup {"selected", "preprocessing", "uploading", "paused", "throttled"}
    BY <1>5, <1>8 DEF Uploads
  <2> QED BY <1>5, <1>9, <2>1 DEF Uploads
<1>11. CASE u.run # "none" \/ u.batch = {}
  <2>1. v = w
    <3>1. CASE u.run # "none"
      BY <1>5, <1>6, <1>8, <1>9, <3>1 DEF Uploads
    <3>2. CASE u.run = "none"
      BY <1>6, <1>8, <1>9, <1>11, <3>2
    <3> QED BY <3>1, <3>2
  <2>2. InOrder(w) /\ FilesHeld(w) /\ SourcesHeld(w)
    BY <1>3, <1>5, <1>10 DEF Orderly, InOrder, FilesHeld, SourcesHeld
  <2>3. Turns(w)
    BY <1>3, <1>5, <1>7, <1>8, <1>10 DEF Orderly, Turns, Runs, Intent
  <2>4. Ends(w)
    BY <1>3, <1>5, <1>7, <1>8, <1>10, <1>11 DEF Orderly, Turns, Ends
  <2> QED BY <1>2, <1>10, <2>1, <2>2, <2>3, <2>4 DEF UploadInv, Orderly
<1>12. CASE u.run = "none" /\ u.batch # {}
  <2>1. o.pc = "idle"
    BY <1>3, <1>5, <1>12 DEF Orderly, FilesHeld, Turns, Uploads
  <2>2. Calm(o)
    BY <1>3, <2>1, IdleCalm
  <2>3. Calm(w)
    BY <1>5, <1>10, <2>2 DEF Calm, InHand
  <2>4. ReleaseFits(w, "task", "none")
    BY <1>3, <1>5, <1>7, <1>8, <1>10, <1>12, <2>1 DEF ReleaseFits, Orderly, Turns
  <2>5. v = Release(w, "task", "none")
    BY <1>6, <1>8, <1>9, <1>12
  <2> QED BY <1>2, <2>3, <2>4, <2>5, ReleaseGood DEF UploadInv
<1> QED BY <1>11, <1>12

LEMMA UploadRequestStop ==
  ASSUME UploadInv, RequestStop
  PROVE  UploadInv'
<1>1. PICK o : o = up
  OBVIOUS
<1>2. PICK v : v = up'
  OBVIOUS
<1>3. /\ o \in Uploads /\ Orderly(o) /\ o.phase \notin Terminal /\ o.intent \in {"running", "pause"}
      /\ o.pc = "release" => o.slow
  BY <1>1 DEF UploadInv, RequestStop, GoesOn, Uploads
<1>4. PICK u : u = [o EXCEPT !.intent = "stop"]
  OBVIOUS
<1>5. /\ u \in Uploads
      /\ u.slow = o.slow /\ u.st = o.st /\ u.cursor = o.cursor /\ u.batch = o.batch
      /\ u.cand = o.cand /\ u.flight = o.flight /\ u.phase = o.phase /\ u.intent = "stop"
      /\ u.run = o.run /\ u.cancel = o.cancel /\ u.pc = o.pc /\ u.who = o.who
      /\ u.goal = o.goal /\ u.outcome = o.outcome /\ u.owed = o.owed
      /\ u.aborted = o.aborted /\ u.lease = o.lease /\ u.temps = o.temps
      /\ u.trash = o.trash /\ u.owned = o.owned /\ u.unlinking = o.unlinking
      /\ u.stored = o.stored
  BY <1>3, <1>4 DEF Uploads
<1>6. v = IF u.run # "none" THEN u
          ELSE IF u.pc # "idle" THEN [u EXCEPT !.phase = "stopped", !.owed = TRUE]
          ELSE Release([u EXCEPT !.phase = "stopped"], "task", "stopped")
  BY <1>1, <1>2, <1>4 DEF RequestStop
<1>7. ~u.owed /\ u.cancel # "asked" /\ u.who # "cancel" /\ "stopped" \in Terminal
  BY <1>3, <1>5 DEF Orderly, Turns, Terminal
<1>8. CASE u.run # "none"
  <2>1. v = u
    BY <1>6, <1>8
  <2>2. InOrder(u) /\ FilesHeld(u) /\ SourcesHeld(u)
    BY <1>3, <1>5 DEF Orderly, InOrder, FilesHeld, SourcesHeld
  <2>3. Turns(u)
    BY <1>3, <1>5, <1>7 DEF Orderly, Turns, Runs, Intent
  <2>4. Ends(u)
    BY <1>3, <1>5, <1>8 DEF Orderly, Ends
  <2> QED BY <1>2, <1>5, <2>1, <2>2, <2>3, <2>4 DEF UploadInv, Orderly
<1>9. CASE u.run = "none" /\ u.pc # "idle"
  <2>1. v = [u EXCEPT !.phase = "stopped", !.owed = TRUE]
    BY <1>6, <1>9
  <2>2. /\ v \in Uploads
        /\ v.slow = u.slow /\ v.st = u.st /\ v.cursor = u.cursor /\ v.batch = u.batch
        /\ v.cand = u.cand /\ v.flight = u.flight /\ v.phase = "stopped"
        /\ v.intent = u.intent /\ v.run = u.run /\ v.cancel = u.cancel /\ v.pc = u.pc
        /\ v.who = u.who /\ v.goal = u.goal /\ v.outcome = u.outcome /\ v.owed = TRUE
        /\ v.aborted = u.aborted /\ v.lease = u.lease /\ v.temps = u.temps
        /\ v.trash = u.trash /\ v.owned = u.owned /\ v.unlinking = u.unlinking
        /\ v.stored = u.stored
    BY <1>5, <1>7, <2>1 DEF Uploads
  <2>3. u.who = "task" /\ u.pc = "release" /\ u.goal = "none" /\ u.batch = {}
    <3>1. u.who = "task"
      BY <1>3, <1>5, <1>7, <1>9 DEF Orderly, Turns, Uploads
    <3>2. u.pc = "release" /\ u.goal = "none"
      BY <1>3, <1>5, <3>1 DEF Orderly, Turns
    <3> QED BY <1>3, <1>5, <3>1, <3>2 DEF Orderly, FilesHeld
  <2>4. InOrder(v) /\ FilesHeld(v) /\ SourcesHeld(v)
    BY <1>3, <1>5, <2>2 DEF Orderly, InOrder, FilesHeld, SourcesHeld
  <2>5. Turns(v)
    BY <1>3, <1>5, <1>7, <1>9, <2>2, <2>3 DEF Orderly, Turns
  <2>6. Ends(v)
    BY <1>3, <1>5, <1>7, <1>9, <2>2, <2>3 DEF Orderly, Ends, Closing
  <2> QED BY <1>2, <2>2, <2>4, <2>5, <2>6 DEF UploadInv, Orderly
<1>10. CASE u.run = "none" /\ u.pc = "idle"
  <2>1. PICK w : w = [u EXCEPT !.phase = "stopped"]
    OBVIOUS
  <2>2. /\ w \in Uploads
        /\ w.slow = u.slow /\ w.st = u.st /\ w.cursor = u.cursor /\ w.batch = u.batch
        /\ w.cand = u.cand /\ w.flight = u.flight /\ w.phase = "stopped"
        /\ w.intent = u.intent /\ w.run = u.run /\ w.cancel = u.cancel /\ w.pc = u.pc
        /\ w.who = u.who /\ w.goal = u.goal /\ w.outcome = u.outcome /\ w.owed = u.owed
        /\ w.aborted = u.aborted /\ w.lease = u.lease /\ w.temps = u.temps
        /\ w.trash = u.trash /\ w.owned = u.owned /\ w.unlinking = u.unlinking
        /\ w.stored = u.stored
    BY <1>5, <1>7, <2>1 DEF Uploads
  <2>3. Calm(o)
    BY <1>3, <1>5, <1>10, IdleCalm
  <2>4. Calm(w)
    BY <1>5, <2>2, <2>3 DEF Calm, InHand
  <2>5. ReleaseFits(w, "task", "stopped") /\ "stopped" \in Terminal \cup {"none", "paused"}
    BY <1>3, <1>5, <1>7, <1>10, <2>2 DEF ReleaseFits, Orderly, Turns
  <2>6. v = Release(w, "task", "stopped")
    BY <1>6, <1>10, <2>1
  <2> QED BY <1>2, <2>4, <2>5, <2>6, ReleaseGood DEF UploadInv
<1> QED BY <1>8, <1>9, <1>10

LEMMA UploadClose ==
  ASSUME UploadInv, Close
  PROVE  UploadInv'
<1>1. PICK o : o = up
  OBVIOUS
<1>2. PICK v : v = up'
  OBVIOUS
<1>3. o \in Uploads /\ Orderly(o) /\ (o.pc = "release" => o.slow)
  BY <1>1 DEF UploadInv, Close, GoesOn, Uploads
<1>4. PICK u : u = [o EXCEPT !.intent = "cancel", !.cancel = "asked"]
  OBVIOUS
<1>5. /\ u \in Uploads
      /\ u.slow = o.slow /\ u.st = o.st /\ u.cursor = o.cursor /\ u.batch = o.batch
      /\ u.cand = o.cand /\ u.flight = o.flight /\ u.phase = o.phase /\ u.intent = "cancel"
      /\ u.run = o.run /\ u.cancel = "asked" /\ u.pc = o.pc /\ u.who = o.who
      /\ u.goal = o.goal /\ u.outcome = o.outcome /\ u.owed = o.owed
      /\ u.aborted = o.aborted /\ u.lease = o.lease /\ u.temps = o.temps
      /\ u.trash = o.trash /\ u.owned = o.owned /\ u.unlinking = o.unlinking
      /\ u.stored = o.stored
  BY <1>3, <1>4 DEF Uploads
<1>6. v = IF u.pc = "idle" THEN Release(u, "cancel", "cancelled") ELSE u
  BY <1>1, <1>2, <1>4 DEF Close
<1>7. CASE u.pc = "idle"
  <2>1. Calm(o) /\ o.who = "none" /\ ~o.owed /\ o.run = "none"
    BY <1>3, <1>5, <1>7, IdleCalm
  <2>2. Calm(u)
    BY <1>5, <2>1 DEF Calm, InHand
  <2>3. /\ ReleaseFits(u, "cancel", "cancelled")
        /\ "cancelled" \in Terminal \cup {"none", "paused"}
    BY <1>3, <1>5, <2>1 DEF ReleaseFits, Orderly, Turns, Terminal
  <2> QED BY <1>2, <1>6, <1>7, <2>2, <2>3, ReleaseGood DEF UploadInv
<1>8. CASE u.pc # "idle"
  <2>1. v = u
    BY <1>6, <1>8
  <2>2. InOrder(u) /\ FilesHeld(u) /\ SourcesHeld(u)
    BY <1>3, <1>5 DEF Orderly, InOrder, FilesHeld, SourcesHeld
  <2>3. Turns(u)
    BY <1>3, <1>5 DEF Orderly, Turns, Runs, Intent
  <2>4. Ends(u)
    BY <1>3, <1>5 DEF Orderly, Ends, Closing
  <2> QED BY <1>2, <1>5, <2>1, <2>2, <2>3, <2>4 DEF UploadInv, Orderly
<1> QED BY <1>7, <1>8

LEMMA UploadGateAborts ==
  ASSUME UploadInv, GateAborts
  PROVE  UploadInv'
<1>1. PICK o : o = up
  OBVIOUS
<1>2. PICK v : v = up'
  OBVIOUS
<1>3. o \in Uploads /\ Orderly(o) /\ v = [o EXCEPT !.aborted = TRUE]
  BY <1>1, <1>2 DEF UploadInv, GateAborts
<1>4. /\ v \in Uploads
      /\ v.slow = o.slow /\ v.st = o.st /\ v.cursor = o.cursor /\ v.batch = o.batch
      /\ v.cand = o.cand /\ v.flight = o.flight /\ v.phase = o.phase /\ v.intent = o.intent
      /\ v.run = o.run /\ v.cancel = o.cancel /\ v.pc = o.pc /\ v.who = o.who
      /\ v.goal = o.goal /\ v.outcome = o.outcome /\ v.owed = o.owed /\ v.aborted = TRUE
      /\ v.lease = o.lease /\ v.temps = o.temps /\ v.trash = o.trash /\ v.owned = o.owned
      /\ v.unlinking = o.unlinking /\ v.stored = o.stored
  BY <1>3 DEF Uploads
<1>5. InOrder(v) /\ FilesHeld(v) /\ SourcesHeld(v)
  BY <1>3, <1>4 DEF Orderly, InOrder, FilesHeld, SourcesHeld
<1>6. Turns(v)
  BY <1>3, <1>4 DEF Orderly, Turns, Runs, Intent
<1>7. Ends(v)
  BY <1>3, <1>4 DEF Orderly, Ends, Closing
<1> QED BY <1>2, <1>4, <1>5, <1>6, <1>7 DEF UploadInv, Orderly

-----------------------------------------------------------------------------
LEMMA UploadInitInv == UploadInit => UploadInv
<1> SUFFICES ASSUME UploadInit PROVE UploadInv
  OBVIOUS
<1>1. PICK st \in [Photos -> PhotoStates] :
        st = [i \in Photos |-> IF i \in Unreadable THEN "rejected" ELSE "queued"]
  BY DEF PhotoStates
<1>2. PICK slow \in BOOLEAN : up =
       [slow |-> slow, st |-> st, cursor |-> 1, batch |-> {}, cand |-> {}, flight |-> {},
        phase |-> "selected", intent |-> "running", run |-> "none", cancel |-> "none",
        pc |-> "idle", who |-> "none", goal |-> "none", outcome |-> "none", owed |-> FALSE,
        aborted |-> FALSE, lease |-> FALSE, temps |-> {}, trash |-> {},
        owned |-> Photos \ Unreadable, unlinking |-> Unreadable, stored |-> {}]
  BY <1>1 DEF UploadInit
<1>3. up \in Uploads
  <2>1. /\ 1 \in Cursors /\ {} \in SUBSET Photos /\ "idle" \in Awaits
        /\ Unreadable \in SUBSET Photos /\ Photos \ Unreadable \in SUBSET Photos
    BY UploadBounds DEF Cursors, Photos, Awaits
  <2> QED BY <1>2, <2>1 DEF Uploads
<1>4. Orderly(up)
  <2>1. InOrder(up) /\ FilesHeld(up) /\ SourcesHeld(up)
    BY <1>2 DEF InOrder, FilesHeld, SourcesHeld, AtPhoto
  <2>2. Turns(up) /\ Ends(up)
    BY <1>2 DEF Turns, Ends, Terminal
  <2> QED BY <2>1, <2>2 DEF Orderly
<1> QED BY <1>3, <1>4 DEF UploadInv

LEMMA UploadStep == UploadInv /\ [UploadNext]_up => UploadInv'
<1> SUFFICES ASSUME UploadInv, [UploadNext]_up PROVE UploadInv'
  OBVIOUS
<1>1. CASE UNCHANGED up
  BY <1>1 DEF UploadInv
<1>2. CASE AdoptFails \/ Discarded \/ RequestPause \/ RequestStop \/ Close \/ GateAborts
  BY <1>2, UploadAdoptFails, UploadDiscarded, UploadRequestPause, UploadRequestStop, UploadClose,
     UploadGateAborts
<1>3. CASE \E ok \in BOOLEAN : PreprocessSettles(ok)
  BY <1>3, UploadPreprocessSettles
<1>4. CASE \E i \in Photos : Unlinked(i)
  BY <1>4, UploadUnlinked
<1>5. ASSUME NEW space \in BOOLEAN, Rejected(space) \/ BatchCleaned(space) \/ CandidateReleased(space)
      PROVE  UploadInv'
  BY <1>5, UploadRejected, UploadBatchCleaned
<1>6. ASSUME NEW space \in BOOLEAN, NEW large \in BOOLEAN, AdoptSettles(large, space)
      PROVE  UploadInv'
  BY <1>6, UploadAdoptSettles
<1>7. ASSUME NEW space \in BOOLEAN, NEW outcome \in Outcomes, NEW stored \in BOOLEAN,
             RequestSettles(outcome, stored, space)
      PROVE  UploadInv'
  BY <1>7, UploadRequestSettles
<1>8. ASSUME NEW space \in BOOLEAN, NEW leased \in BOOLEAN,
             Start(space, leased) \/ Released(space, leased) \/ SourcesCleaned(space, leased)
      PROVE  UploadInv'
  BY <1>8, UploadStart, UploadReleased, UploadSourcesCleaned
<1> QED BY <1>1, <1>2, <1>3, <1>4, <1>5, <1>6, <1>7, <1>8 DEF UploadNext

LEMMA UploadInvSound == UploadInv => UploadSound
<1> SUFFICES ASSUME UploadInv PROVE UploadSound
  OBVIOUS
<1>1. PICK u : u = up
  OBVIOUS
<1>2. u \in Uploads /\ Orderly(u)
  BY <1>1 DEF UploadInv
<1>3. SentOnce
  <2>1. u.stored \subseteq Photos /\ \A i \in Photos : i \in Nat /\ ~(i < i)
    BY <1>2, UploadBounds DEF Uploads, Photos
  <2> QED BY <1>1, <1>2, <2>1 DEF SentOnce, Orderly, InOrder
<1>4. FilesReadable
  BY <1>1, <1>2 DEF FilesReadable, Orderly, InOrder, FilesHeld, SourcesHeld, AtPhoto
<1>5. NothingLeft
  <2>1. u.pc = "idle" => ~u.lease /\ ~Closing(u) /\ u.temps = u.batch /\ u.who # "run"
    BY <1>2 DEF Closing, Orderly, FilesHeld, Turns
  <2> QED BY <1>1, <1>2, <2>1 DEF NothingLeft, Orderly, Ends
<1>6. StopIsTerminal
  BY <1>1, <1>2 DEF StopIsTerminal, Orderly, Ends
<1> QED BY <1>3, <1>4, <1>5, <1>6 DEF UploadSound

LEMMA UploadInvTyped == UploadInv => UploadTypeOK
<1> SUFFICES ASSUME UploadInv PROVE UploadTypeOK
  OBVIOUS
<1>1. up \in Uploads /\ up.cand \subseteq {up.cursor}
  BY DEF UploadInv, Orderly, InOrder
<1>2. Cardinality(up.cand) <= 1
  <2>1. up.cand = {} \/ up.cand = {up.cursor}
    BY <1>1
  <2> QED BY <2>1, FS_EmptySet, FS_Singleton
<1> QED BY <1>1, <1>2 DEF UploadTypeOK, Uploads, PhotoStates, Cursors

\* A photo the server may have is never sent again, no file is discarded that is
\* still being read, nothing is left behind at the end, and a stop is final
\* (run, requestPause, requestStop, cancel).
THEOREM UploadStaysSound == UploadSpec => []UploadSound
<1>1. UploadInit => UploadInv
  BY UploadInitInv
<1>2. UploadInv /\ [UploadNext]_up => UploadInv'
  BY UploadStep
<1>3. UploadInv => UploadSound
  BY UploadInvSound
<1> QED BY <1>1, <1>2, <1>3, PTL DEF UploadSpec

\* The states of the photos, the cursor, the intent and the phase are what the
\* code's types allow; at most one photo waits for the next batch.
THEOREM UploadTyped == UploadSpec => []UploadTypeOK
<1>1. UploadInit => UploadInv
  BY UploadInitInv
<1>2. UploadInv /\ [UploadNext]_up => UploadInv'
  BY UploadStep
<1>3. UploadInv => UploadTypeOK
  BY UploadInvTyped
<1> QED BY <1>1, <1>2, <1>3, PTL DEF UploadSpec

(***************************************************************************)
(* The session of a browser.  The invariant says of each request what it   *)
(* knows in its phase (RequestSound); that a request in flight waits for   *)
(* the slot the map has for its token (FlightsLed); that as long as nothing*)
(* has happened to an answer, the last token issued has come or is under   *)
(* way (TokensArrive); and that whoever emptied the jar has told the tabs  *)
(* (EmptyIsTold).                                                          *)
(***************************************************************************)

Tab == [status : {"idle", "loading", "in", "out"}, access : Nat,
        attempt : 0..BootstrapAttempts, told : BOOLEAN]
Accounts == [issued : Nat \ {0}, good : SUBSET Nat, version : Nat]
Histories == [top : Nat, lapses : SUBSET {"refresh", "me", "late", "lost"}, ended : BOOLEAN,
              loads : Nat, asks : Nat, givenUp : Nat]

\* What a request knows in each of its phases; acc is the backend, lapses what has
\* happened to answers.
RequestSound(q, acc, lapses) ==
  /\ q.tok <= acc.issued /\ q.next <= acc.issued /\ q.setTok <= acc.issued
  /\ q.phase \in {"sent", "upstream", "flight"} => q.setTok = Keep
  /\ q.phase \in {"sent", "upstream"} => q.next = 0
  /\ q.phase # "done" => q.answer = "none"
  /\ q.phase # "flight" => q.refresh = "none"
  /\ q.phase = "flight" => q.tok # 0 /\ q.kind # "login" /\ (q.refresh = "rotated" <=> q.next # 0)
  /\ q.refresh \in {"rotated", "refused"} => q.tok \notin acc.good
  /\ q.phase = "upstream" => q.kind # "me"
  /\ q.phase = "again" =>
       /\ q.kind # "login" /\ q.tok \notin acc.good /\ q.next # 0
       /\ q.setTok = IF q.kind \in {"call", "password"} THEN q.next ELSE Keep
  /\ q.phase = "done" =>
       /\ q.setTok > 0 => q.next <= q.setTok
       /\ q.setTok = 0 => q.kind = "logout" \/ q.answer = "hard"
       /\ q.setTok = Keep /\ q.next # 0 => lapses # {}
       /\ q.answer = "ok" /\ q.kind \in {"me", "login", "password"} => q.setTok > 0
       /\ q.answer = "hard" => q.tok \notin acc.good /\ (q.marked \/ q.next # 0)

WebTyped ==
  /\ jar \in [tok : Nat, mark : BOOLEAN] /\ jar.tok <= account.issued
  /\ tabs \in [Tabs -> Tab]
  /\ reqs \in [Slots -> Request \cup {NoRequest}]
  /\ account \in Accounts /\ account.good \subseteq 1..account.issued
  /\ history \in Histories /\ history.top <= account.issued
  /\ DOMAIN inFlight \subseteq 1..account.issued /\ inFlight \in [DOMAIN inFlight -> Slots]

\* A request in flight waits for the slot the map has for its token, and that slot
\* leads.
FlightsLed ==
  /\ \A r \in Open : reqs[r].phase = "flight" =>
       /\ reqs[r].tok \in DOMAIN inFlight /\ inFlight[reqs[r].tok] = reqs[r].leader
       /\ reqs[r].refresh # "none" <=> reqs[r].leader = r
  /\ \A k \in DOMAIN inFlight :
       LET r == inFlight[k] IN
       r \in Open /\ reqs[r].phase = "flight" /\ reqs[r].leader = r /\ reqs[r].tok = k

\* As long as nothing has happened to an answer, the last token issued has come or
\* is on its way, and what has come last is in the jar unless that was emptied.
TokensArrive ==
  history.lapses = {} =>
    /\ \/ account.issued <= history.top
       \/ \E r \in Open : account.issued \in {reqs[r].setTok, reqs[r].next}
    /\ jar.tok \in {0, history.top}

\* Whoever emptied the jar has told the tabs.
EmptyIsTold ==
  jar.tok = 0 /\ ~history.ended => \A t \in Tabs : tabs[t].status = "in" => tabs[t].told

WebInv ==
  /\ WebTyped
  /\ \A r \in Open : RequestSound(reqs[r], account, history.lapses)
  /\ FlightsLed /\ TokensArrive /\ EmptyIsTold

\* A token that is refused stays refused, unless it is a new one.
Grown(acc, later) ==
  acc.issued <= later.issued /\ \A k \in 0..acc.issued : k \notin acc.good => k \notin later.good

Tops(g, a, b, c) == g \in {a, b, c} /\ a <= g /\ b <= g /\ c <= g

LEMMA GreatestOf ==
  ASSUME NEW a \in Int, NEW b \in Int, NEW c \in Int
  PROVE  Tops(Greatest({a, b, c}), a, b, c)
<1>1. \E n \in {a, b, c} : \A m \in {a, b, c} : m <= n
  OBVIOUS
<1>2. PICK S : S = {a, b, c}
  OBVIOUS
<1>3. Greatest(S) \in S /\ \A m \in S : m <= Greatest(S)
  BY <1>1, <1>2, Zenon DEF Greatest
<1> QED BY <1>2, <1>3 DEF Tops

LEMMA StaysSound ==
  ASSUME NEW q \in Request, NEW acc \in Accounts, NEW later \in Accounts, Grown(acc, later),
         NEW before, NEW after, before \subseteq after, RequestSound(q, acc, before)
  PROVE  RequestSound(q, later, after)
<1>1. /\ q.tok \in Nat /\ q.next \in Nat /\ q.setTok \in Int
      /\ acc.issued \in Nat /\ later.issued \in Nat /\ acc.issued <= later.issued
  BY DEF Request, Accounts, Grown, Keep
<1>2. q.tok \notin acc.good => q.tok \notin later.good
  BY <1>1 DEF RequestSound, Grown
<1>3. q.tok <= later.issued /\ q.next <= later.issued /\ q.setTok <= later.issued
  BY <1>1 DEF RequestSound
<1> QED BY <1>2, <1>3 DEF RequestSound


\* No request is an empty slot.
IsRequest == \A q \in Request : q # NoRequest /\ q.kind # "none"

LEMMA RequestsAre == IsRequest
BY DEF IsRequest, Request, NoRequest

\* p is q with an answer that sets the token tok.
Answered(p, q, answer, tok) ==
  /\ p \in Request /\ p.phase = "done" /\ p.answer = answer /\ p.setTok = tok
  /\ p.kind = q.kind /\ p.tok = q.tok /\ p.next = q.next /\ p.marked = q.marked
  /\ p.refresh = q.refresh

LEMMA Responded ==
  ASSUME NEW q \in Request, NEW answer \in {"ok", "error", "unauthenticated", "soft", "hard"},
         NEW tok \in {Keep} \cup Nat, NEW mark \in {"keep", "set", "clear"}
  PROVE  Answered(Respond(q, answer, tok, mark), q, answer, tok)
<1>1. PICK p : p = [q EXCEPT !.phase = "done", !.answer = answer, !.setTok = tok, !.setMark = mark]
  OBVIOUS
<1>2. p \in Request
  BY <1>1 DEF Request
<1>3. /\ p.phase = "done" /\ p.answer = answer /\ p.setTok = tok
      /\ p.kind = q.kind /\ p.tok = q.tok /\ p.next = q.next /\ p.marked = q.marked
      /\ p.refresh = q.refresh
  BY <1>1 DEF Request
<1> QED BY <1>1, <1>2, <1>3 DEF Respond, Answered

-----------------------------------------------------------------------------
\* One request moves on to q.
RequestMove(r, q) ==
  /\ reqs' = [reqs EXCEPT ![r] = q] /\ UNCHANGED <<jar, tabs>>
  /\ account' \in Accounts /\ account'.good \subseteq 1..account'.issued /\ Grown(account, account')
  /\ history' \in Histories /\ history'.top = history.top /\ history'.ended = history.ended
  /\ history.lapses \subseteq history'.lapses
  /\ RequestSound(q, account', history'.lapses)
  /\ \/ UNCHANGED inFlight /\ q.phase # "flight" /\ (r \in Open => reqs[r].phase # "flight")
     \/ DOMAIN inFlight' \subseteq 1..account'.issued /\ inFlight' \in [DOMAIN inFlight' -> Slots] /\ FlightsLed'
  /\ history'.lapses = {} =>
       \/ /\ account'.issued = account.issued
          /\ r \in Open /\ account.issued \in {reqs[r].setTok, reqs[r].next}
             => account.issued \in {q.setTok, q.next}
       \/ account'.issued \in {q.setTok, q.next}

LEMMA RequestMoves ==
  ASSUME WebInv, NEW r \in Slots, NEW q \in Request, RequestMove(r, q)
  PROVE  WebInv'
<1>1. /\ WebTyped /\ FlightsLed /\ TokensArrive /\ EmptyIsTold
      /\ \A s \in Open : RequestSound(reqs[s], account, history.lapses)
  BY DEF WebInv
<1>2. /\ reqs' = [reqs EXCEPT ![r] = q] /\ jar' = jar /\ tabs' = tabs
      /\ account' \in Accounts /\ account'.good \subseteq 1..account'.issued /\ Grown(account, account')
      /\ history' \in Histories /\ history'.top = history.top /\ history'.ended = history.ended
      /\ history.lapses \subseteq history'.lapses
      /\ RequestSound(q, account', history'.lapses)
  BY DEF RequestMove
<1>3. /\ reqs' \in [Slots -> Request \cup {NoRequest}] /\ reqs'[r] = q
      /\ \A s \in Slots : s # r => reqs'[s] = reqs[s]
  BY <1>1, <1>2 DEF WebTyped
<1>4. Open' = Open \cup {r}
  BY <1>3, RequestsAre DEF Open, IsRequest
<1>5. \A s \in Open : s \in Slots /\ reqs[s] \in Request
  BY <1>1 DEF WebTyped, Open
<1>6. account.issued \in Nat /\ account'.issued \in Nat /\ account.issued <= account'.issued
  BY <1>1, <1>2 DEF WebTyped, Accounts, Grown
<1>7. WebTyped'
  <2>1. jar'.tok <= account'.issued /\ history'.top <= account'.issued
    BY <1>1, <1>2, <1>6 DEF WebTyped, Histories
  <2>2. DOMAIN inFlight' \subseteq 1..account'.issued /\ inFlight' \in [DOMAIN inFlight' -> Slots]
    BY <1>1, <1>6 DEF WebTyped, RequestMove
  <2> QED BY <1>1, <1>2, <1>3, <2>1, <2>2 DEF WebTyped
<1>8. \A s \in Open' : RequestSound(reqs'[s], account', history'.lapses)
  <2>1. ASSUME NEW s \in Open, s # r PROVE RequestSound(reqs[s], account', history'.lapses)
    BY <1>1, <1>2, <1>5, StaysSound DEF WebTyped
  <2> QED BY <1>2, <1>3, <1>4, <1>5, <2>1
<1>9. FlightsLed'
  <2>1. CASE UNCHANGED inFlight /\ q.phase # "flight" /\ (r \in Open => reqs[r].phase # "flight")
    <3>1. \A s \in Open' : reqs'[s].phase = "flight" => s \in Open /\ reqs'[s] = reqs[s]
      BY <1>3, <1>4, <1>5, <2>1
    <3>2. \A s \in Open : reqs[s].phase = "flight" => s \in Open' /\ reqs'[s] = reqs[s]
      BY <1>3, <1>4, <1>5, <2>1
    <3>3. inFlight' = inFlight
      BY <2>1
    <3> QED BY <1>1, <3>1, <3>2, <3>3 DEF FlightsLed
  <2> QED BY <2>1 DEF RequestMove
<1>10. TokensArrive'
  <2>1. SUFFICES ASSUME history'.lapses = {}
                 PROVE  /\ \/ account'.issued <= history'.top
                           \/ \E s \in Open' : account'.issued \in {reqs'[s].setTok, reqs'[s].next}
                        /\ jar'.tok \in {0, history'.top}
    BY DEF TokensArrive
  <2>2. history.lapses = {}
    BY <1>2, <2>1
  <2>3. jar'.tok \in {0, history'.top}
    BY <1>1, <1>2, <2>2 DEF TokensArrive
  <2>4. CASE account'.issued \in {q.setTok, q.next}
    BY <1>3, <1>4, <2>3, <2>4
  <2>5. CASE /\ account'.issued = account.issued
             /\ r \in Open /\ account.issued \in {reqs[r].setTok, reqs[r].next}
                => account.issued \in {q.setTok, q.next}
    <3>1. CASE account.issued <= history.top
      BY <1>2, <2>3, <2>5, <3>1
    <3>2. CASE \E s \in Open : account.issued \in {reqs[s].setTok, reqs[s].next}
      <4>1. PICK s \in Open : account.issued \in {reqs[s].setTok, reqs[s].next}
        BY <3>2
      <4>2. CASE s = r
        BY <1>3, <1>4, <2>3, <2>5, <4>1, <4>2
      <4>3. CASE s # r
        BY <1>3, <1>4, <1>5, <2>3, <2>5, <4>1, <4>3
      <4> QED BY <4>2, <4>3
    <3> QED BY <1>1, <2>2, <3>1, <3>2 DEF TokensArrive
  <2> QED BY <2>1, <2>4, <2>5 DEF RequestMove
<1>11. EmptyIsTold'
  BY <1>1, <1>2 DEF EmptyIsTold
<1> QED BY <1>7, <1>8, <1>9, <1>10, <1>11 DEF WebInv

\* What the invariant says of an open request.
OpenRequest(r, q) ==
  /\ r \in Slots /\ q = reqs[r] /\ q \in Request /\ RequestSound(q, account, history.lapses)
  /\ account \in Accounts /\ account.issued \in Nat /\ account.issued # 0
  /\ account.good \subseteq 1..account.issued /\ history \in Histories
  /\ q.tok \in Nat /\ q.next \in Nat /\ q.setTok \in {Keep} \cup Nat /\ Keep \notin Nat

LEMMA OpenRequests ==
  ASSUME WebInv, NEW r \in Open, NEW q, q = reqs[r]
  PROVE  OpenRequest(r, q)
<1>1. r \in Slots /\ q \in Request
  BY DEF WebInv, WebTyped, Open
<1>2. q.tok \in Nat /\ q.next \in Nat /\ q.setTok \in {Keep} \cup Nat /\ Keep \notin Nat
  BY <1>1 DEF Request, Keep
<1>3. account.issued \in Nat /\ account.issued # 0
  BY DEF WebInv, WebTyped, Accounts
<1> QED BY <1>1, <1>2, <1>3 DEF OpenRequest, WebInv, WebTyped

LEMMA SameAccount == ASSUME account \in Accounts PROVE Grown(account, account)
BY DEF Grown, Accounts

\* An answer that leaves the backend, and the map, as they are.
Plain(r, p) ==
  /\ reqs' = [reqs EXCEPT ![r] = p] /\ UNCHANGED <<jar, tabs, inFlight, account>>
  /\ history' \in Histories /\ history'.top = history.top /\ history'.ended = history.ended
  /\ history.lapses \subseteq history'.lapses

LEMMA PlainMoves ==
  ASSUME WebInv, NEW r \in Open, NEW q, q = reqs[r], q.phase # "flight",
         NEW p \in Request, Plain(r, p), p.phase # "flight",
         RequestSound(p, account, history'.lapses), p.next = q.next,
         p.setTok = q.setTok \/ q.setTok \in {Keep, q.next}
  PROVE  WebInv'
<1>1. OpenRequest(r, q)
  BY OpenRequests
<1>2. account' = account
  BY DEF Plain
<1>3. account.issued \in {q.setTok, q.next} => account.issued \in {p.setTok, p.next}
  BY <1>1 DEF OpenRequest
<1>4. RequestMove(r, p)
  BY <1>1, <1>2, <1>3, SameAccount DEF RequestMove, OpenRequest, Plain
<1>5. r \in Slots
  BY <1>1 DEF OpenRequest
<1> QED BY <1>4, <1>5, RequestMoves

LEMMA Issues ==
  ASSUME account \in Accounts, account.good \subseteq 1..account.issued, NEW gone, NEW v \in Nat,
         account' = [issued |-> account.issued + 1, good |-> (account.good \ gone) \cup {account.issued + 1},
                     version |-> v]
  PROVE  /\ account' \in Accounts /\ account'.good \subseteq 1..account'.issued
         /\ account'.issued = account.issued + 1 /\ Grown(account, account')
<1>1. account.issued \in Nat \ {0}
  BY DEF Accounts
<1>2. PICK g : g = (account.good \ gone) \cup {account.issued + 1}
  OBVIOUS
<1>3. g \subseteq 1..(account.issued + 1) /\ g \in SUBSET Nat
  BY <1>1, <1>2
<1>4. account'.issued = account.issued + 1 /\ account'.good = g /\ account'.version = v
  BY <1>2
<1>5. account' = [issued |-> account.issued + 1, good |-> g, version |-> v]
  BY <1>2
<1>6. account.issued + 1 \in Nat \ {0}
  BY <1>1
<1>7. account' \in Accounts
  BY <1>3, <1>5, <1>6 DEF Accounts
<1>8. \A k \in 0..account.issued : k \notin account.good => k \notin g
  BY <1>1, <1>2
<1>9. Grown(account, account')
  BY <1>1, <1>4, <1>8 DEF Grown
<1> QED BY <1>3, <1>4, <1>7, <1>9

\* A sign-in, and a new password, start a session with a token of its own.
SessionStarts(r, q, v) ==
  /\ q.kind \in {"login", "password"} /\ q.phase \in {"upstream", "again"}
  /\ \E gone : account' = [issued |-> account.issued + 1,
                           good |-> (account.good \ gone) \cup {account.issued + 1}, version |-> v]
  /\ reqs' = [reqs EXCEPT ![r] = Respond([q EXCEPT !.fresh = v], "ok", account.issued + 1, "clear")]
  /\ UNCHANGED history /\ UNCHANGED inFlight /\ UNCHANGED <<jar, tabs>>

LEMMA SessionsStart ==
  ASSUME WebInv, NEW r \in Open, NEW q, q = reqs[r], NEW v \in Nat, SessionStarts(r, q, v)
  PROVE  WebInv'
<1>1. OpenRequest(r, q)
  BY OpenRequests
<1>2. /\ r \in Slots /\ q \in Request /\ q.refresh = "none" /\ q.phase # "flight"
      /\ account \in Accounts /\ account.issued \in Nat /\ account.good \subseteq 1..account.issued
      /\ q.next \in Nat /\ q.tok \in Nat /\ q.tok <= account.issued /\ q.next <= account.issued
      /\ q.kind \in {"login", "password"} /\ history \in Histories
  BY <1>1 DEF OpenRequest, RequestSound, SessionStarts
<1>3. /\ UNCHANGED history /\ UNCHANGED inFlight /\ UNCHANGED <<jar, tabs>>
      /\ reqs' = [reqs EXCEPT ![r] = Respond([q EXCEPT !.fresh = v], "ok", account.issued + 1, "clear")]
  BY DEF SessionStarts
<1>4. /\ account' \in Accounts /\ account'.good \subseteq 1..account'.issued
      /\ account'.issued = account.issued + 1 /\ Grown(account, account')
  BY <1>2, Issues DEF SessionStarts
<1>5. PICK f : f = [q EXCEPT !.fresh = v]
  OBVIOUS
<1>6. /\ f \in Request /\ f.kind = q.kind /\ f.tok = q.tok /\ f.next = q.next
      /\ f.refresh = q.refresh
  BY <1>2, <1>5 DEF Request
<1>7. PICK tok \in {Keep} \cup Nat : tok = account.issued + 1
  BY <1>2
<1>8. PICK p : p = Respond(f, "ok", tok, "clear")
  OBVIOUS
<1>9. "ok" \in {"ok", "error", "unauthenticated", "soft", "hard"} /\ "clear" \in {"keep", "set", "clear"}
  OBVIOUS
<1>10. /\ p \in Request /\ p.phase = "done" /\ p.answer = "ok" /\ p.setTok = tok
       /\ p.kind = f.kind /\ p.tok = f.tok /\ p.next = f.next /\ p.refresh = f.refresh
  BY <1>6, <1>8, <1>9, Responded DEF Answered
<1>11. RequestSound(p, account', history'.lapses)
  <2>1. /\ p.tok <= account'.issued /\ p.next <= account'.issued /\ p.setTok = account'.issued
        /\ p.setTok > 0 /\ p.next <= p.setTok /\ p.setTok # Keep /\ p.setTok <= account'.issued
    BY <1>2, <1>4, <1>6, <1>7, <1>10 DEF Keep
  <2>2. p.phase = "done" /\ p.answer = "ok" /\ p.refresh = "none"
    BY <1>2, <1>6, <1>10
  <2> QED BY <2>1, <2>2 DEF RequestSound
<1>12. reqs' = [reqs EXCEPT ![r] = p]
  BY <1>3, <1>5, <1>7, <1>8
<1>13. r \in Open => reqs[r].phase # "flight"
  BY <1>2
<1>14. account'.issued \in {p.setTok, p.next} /\ p.phase # "flight"
  BY <1>4, <1>7, <1>10
<1>15. RequestMove(r, p)
  BY <1>2, <1>3, <1>4, <1>11, <1>12, <1>13, <1>14 DEF RequestMove
<1> QED BY <1>2, <1>10, <1>15, RequestMoves

\* What the backend accepts, whichever access token the request bears.
LEMMA AcceptedMoves ==
  ASSUME WebInv, NEW r \in Open, NEW q, q = reqs[r], q.phase \in {"upstream", "again"},
         Accepted(r, q), UNCHANGED <<jar, tabs, inFlight, history>>
  PROVE  WebInv'
<1>1. OpenRequest(r, q)
  BY OpenRequests
<1>2. /\ r \in Slots /\ q \in Request /\ q.answer = "none" /\ q.refresh = "none"
      /\ history \in Histories /\ account \in Accounts
      /\ account.issued \in Nat /\ account.good \subseteq 1..account.issued
      /\ q.next \in Nat /\ q.tok \in Nat /\ q.tok <= account.issued /\ q.next <= account.issued
      /\ q.setTok <= account.issued /\ q.setTok \in {Keep} \cup Nat
      /\ q.phase = "upstream" => q.kind # "me" /\ q.next = 0 /\ q.setTok = Keep
      /\ q.phase = "again" => /\ q.kind # "login" /\ q.next # 0
                              /\ q.setTok = IF q.kind \in {"call", "password"} THEN q.next ELSE Keep
  BY <1>1 DEF OpenRequest, RequestSound
<1>0. q \in Request
  BY <1>2
<1>3. /\ UNCHANGED history /\ UNCHANGED inFlight /\ UNCHANGED <<jar, tabs>>
      /\ q.phase # "flight"
  OBVIOUS
<1>4. CASE /\ q.kind \in {"me", "call"} /\ UNCHANGED account
           /\ reqs' = [reqs EXCEPT ![r] =
                IF q.kind = "me" THEN Respond(q, "ok", q.next, "clear") ELSE Unmarked(q, "ok")]
  <2>1. PICK tok \in {Keep} \cup Nat : tok = IF q.kind = "me" THEN q.next ELSE q.setTok
    BY <1>2
  <2>2. PICK p : p = Respond(q, "ok", tok, "clear")
    OBVIOUS
  <2>3. /\ p \in Request /\ p.phase = "done" /\ p.answer = "ok" /\ p.setTok = tok
        /\ p.kind = q.kind /\ p.tok = q.tok /\ p.next = q.next /\ p.refresh = q.refresh
    <3>1. "ok" \in {"ok", "error", "unauthenticated", "soft", "hard"} /\ "clear" \in {"keep", "set", "clear"}
      OBVIOUS
    <3> QED BY <1>0, <2>2, <3>1, Responded DEF Answered
  <2>4. RequestSound(p, account, history'.lapses)
    <3>1. tok <= account.issued /\ (tok > 0 => q.next <= tok) /\ tok # 0
          /\ (tok = Keep => q.next = 0) /\ (q.kind = "me" => tok > 0)
      BY <1>2, <1>4, <2>1 DEF Keep
    <3> QED BY <1>2, <1>4, <2>3, <3>1 DEF RequestSound
  <2>5. Plain(r, p)
    BY <1>2, <1>3, <1>4, <2>1, <2>2 DEF Plain, Unmarked
  <2>6. q.setTok \in {Keep, q.next}
    BY <1>2
  <2> QED BY <1>3, <2>3, <2>4, <2>5, <2>6, PlainMoves
<1>5. CASE /\ q.kind = "login" /\ account' = Issue({})
           /\ reqs' = [reqs EXCEPT ![r] =
                Respond([q EXCEPT !.fresh = account.version], "ok", account.issued + 1, "clear")]
  <2>1. PICK v \in Nat : v = account.version
    BY <1>2 DEF Accounts
  <2>2. account' = [issued |-> account.issued + 1, good |-> (account.good \ {}) \cup {account.issued + 1},
                    version |-> v]
    BY <1>2, <1>5, <2>1 DEF Issue, Accounts
  <2>3. SessionStarts(r, q, v)
    BY <1>2, <1>3, <1>5, <2>1, <2>2 DEF SessionStarts
  <2> QED BY <2>3, SessionsStart
<1>6. CASE /\ q.kind = "password" /\ account' = [Issue(account.good) EXCEPT !.version = @ + 1]
           /\ reqs' = [reqs EXCEPT ![r] =
                Respond([q EXCEPT !.fresh = account.version + 1], "ok", account.issued + 1, "clear")]
  <2>1. PICK v \in Nat : v = account.version + 1
    BY <1>2 DEF Accounts
  <2>2. account' = [issued |-> account.issued + 1,
                    good |-> (account.good \ account.good) \cup {account.issued + 1}, version |-> v]
    BY <1>2, <1>6, <2>1 DEF Issue, Accounts
  <2>3. SessionStarts(r, q, v)
    BY <1>2, <1>3, <1>6, <2>1, <2>2 DEF SessionStarts
  <2> QED BY <2>3, SessionsStart
<1>7. CASE /\ q.kind = "logout" /\ account' = [account EXCEPT !.good = @ \ {q.tok}]
           /\ reqs' = [reqs EXCEPT ![r] = SessionCleared(q, "ok")]
  <2>1. PICK zero \in {Keep} \cup Nat : zero = 0
    OBVIOUS
  <2>2. PICK p : p = Respond(q, "ok", zero, "clear")
    OBVIOUS
  <2>3. "ok" \in {"ok", "error", "unauthenticated", "soft", "hard"} /\ "clear" \in {"keep", "set", "clear"}
    OBVIOUS
  <2>4. /\ p \in Request /\ p.phase = "done" /\ p.answer = "ok" /\ p.setTok = zero
        /\ p.kind = q.kind /\ p.tok = q.tok /\ p.next = q.next /\ p.refresh = q.refresh
    BY <1>0, <2>2, <2>3, Responded DEF Answered
  <2>5. /\ account' \in Accounts /\ account'.good \subseteq 1..account'.issued
        /\ account'.issued = account.issued /\ Grown(account, account')
    <3>1. PICK g : g = account.good \ {q.tok}
      OBVIOUS
    <3>2. account' = [account EXCEPT !.good = g]
      BY <1>7, <3>1
    <3>3. account'.good = g /\ account'.issued = account.issued /\ account' \in Accounts
      BY <1>2, <3>1, <3>2 DEF Accounts
    <3> QED BY <1>2, <3>1, <3>3 DEF Grown
  <2>6. RequestSound(p, account', history'.lapses)
    <3>1. p.setTok = 0 /\ p.setTok <= account'.issued /\ p.next <= account'.issued
          /\ p.tok <= account'.issued /\ p.kind = "logout" /\ p.refresh = "none"
          /\ ~(p.setTok > 0) /\ p.setTok # Keep
      BY <1>2, <1>7, <2>1, <2>4, <2>5 DEF Keep
    <3> QED BY <2>4, <3>1 DEF RequestSound
  <2>7. account.issued \in {q.setTok, q.next} => account.issued \in {p.setTok, p.next}
    BY <1>1, <1>2, <1>7, <2>4 DEF Keep, OpenRequest
  <2>8. p.phase # "flight" /\ (r \in Open => reqs[r].phase # "flight")
    BY <1>3, <2>4
  <2>9. reqs' = [reqs EXCEPT ![r] = p]
    BY <1>7, <2>1, <2>2 DEF SessionCleared
  <2>10. RequestMove(r, p)
    BY <1>2, <1>3, <2>5, <2>6, <2>7, <2>8, <2>9 DEF RequestMove
  <2> QED BY <1>2, <2>4, <2>10, RequestMoves
<1> QED BY <1>4, <1>5, <1>6, <1>7 DEF Accepted

\* Sending takes the least slot that is free.
LEMMA SentMoves ==
  ASSUME WebInv, NEW t \in Tabs, NEW kind \in {"me", "call", "login", "logout", "password"},
         Sent(t, kind), UNCHANGED <<jar, tabs, inFlight, account>>,
         history' \in Histories, history'.top = history.top, history'.ended = history.ended,
         history'.lapses = history.lapses
  PROVE  WebInv'
<1>1. PICK r : r = CHOOSE i \in Slots \ Open : \A j \in Slots \ Open : i <= j
  OBVIOUS
<1>2. r \in Slots \ Open
  <2>1. Slots \ Open \in SUBSET Nat /\ Slots \ Open # {}
    BY WebBounds DEF Sent, Open
  <2>2. IsFiniteSet(Slots \ Open)
    BY WebBounds, FS_Difference
  <2>3. \E i \in Slots \ Open : \A j \in Slots \ Open : i <= j
    BY <2>1, <2>2, LeastExists
  <2> QED BY <1>1, <2>3, Zenon
<1>3. PICK q : q = [kind |-> kind, tab |-> t, tok |-> jar.tok, marked |-> jar.mark,
                    auth |-> tabs[t].access, wanted |-> TRUE, phase |-> "sent",
                    leader |-> 0, refresh |-> "none", fresh |-> 0, next |-> 0,
                    setTok |-> Keep, setMark |-> "keep", answer |-> "none"]
  OBVIOUS
<1>4. reqs' = [reqs EXCEPT ![r] = q]
  BY <1>1, <1>3, Zenon DEF Sent
<1>5. /\ jar.tok \in Nat /\ jar.mark \in BOOLEAN /\ tabs[t].access \in Nat /\ jar.tok <= account.issued
      /\ account \in Accounts /\ account.good \subseteq 1..account.issued
      /\ account.issued \in Nat /\ account.issued # 0
  BY DEF WebInv, WebTyped, Tab, Accounts
<1>6. q \in Request
  BY <1>3, <1>5 DEF Request
<1>7. RequestSound(q, account, history.lapses)
  BY <1>3, <1>5 DEF RequestSound, Keep
<1>8. q.phase # "flight" /\ r \notin Open /\ r \in Slots
  BY <1>2, <1>3
<1>9. account' = account
  OBVIOUS
<1>10. UNCHANGED <<jar, tabs>> /\ UNCHANGED inFlight
  OBVIOUS
<1>11. RequestMove(r, q)
  BY <1>4, <1>5, <1>7, <1>8, <1>9, <1>10, SameAccount DEF RequestMove
<1> QED BY <1>6, <1>8, <1>11, RequestMoves

LEMMA BootstrapMoves ==
  ASSUME WebInv, NEW t \in Tabs, Bootstrap(t)
  PROVE  WebInv'
<1>1. Sent(t, "me") /\ UNCHANGED <<jar, tabs, inFlight, account>> /\ history' = history
  BY DEF Bootstrap
<1>2. history \in Histories /\ "me" \in {"me", "call", "login", "logout", "password"}
  BY DEF WebInv, WebTyped
<1> QED BY <1>1, <1>2, SentMoves

LEMMA AskMoves ==
  ASSUME WebInv, NEW t \in Tabs, NEW kind \in {"call", "login", "logout", "password"}, Ask(t, kind)
  PROVE  WebInv'
<1>1. Sent(t, kind) /\ UNCHANGED <<jar, tabs, inFlight, account>>
  BY DEF Ask
<1>2. history' = [history EXCEPT !.asks = @ + 1] /\ history \in Histories
  BY DEF Ask, WebInv, WebTyped
<1>3. /\ history' \in Histories /\ history'.top = history.top /\ history'.ended = history.ended
      /\ history'.lapses = history.lapses
  BY <1>2 DEF Histories
<1>4. kind \in {"me", "call", "login", "logout", "password"}
  OBVIOUS
<1> QED BY <1>1, <1>3, <1>4, SentMoves

-----------------------------------------------------------------------------
\* A request joins the call in flight for its token, or starts one.
LEMMA RefreshingMoves ==
  ASSUME WebInv, NEW r \in Open, NEW q, q = reqs[r], q.phase \in {"sent", "upstream"},
         q.kind # "login", Refreshing(r, q), UNCHANGED <<jar, tabs, account, history>>
  PROVE  WebInv'
<1>1. OpenRequest(r, q)
  BY OpenRequests
<1>2. q \in Request
  BY <1>1 DEF OpenRequest
<1>3. /\ r \in Slots /\ q.answer = "none" /\ q.refresh = "none" /\ q.next = 0 /\ q.setTok = Keep
      /\ history \in Histories /\ account \in Accounts
      /\ account.issued \in Nat /\ account.issued # 0 /\ account.good \subseteq 1..account.issued
      /\ q.tok \in Nat /\ q.tok <= account.issued /\ q.phase # "flight" /\ q.phase # "done"
  BY <1>1 DEF OpenRequest, RequestSound
<1>4. UNCHANGED <<jar, tabs>> /\ account' = account /\ history' = history
  OBVIOUS
<1>5. CASE q.tok = 0
  <2>1. reqs' = [reqs EXCEPT ![r] = Unmarked(q, "unauthenticated")] /\ UNCHANGED inFlight
    BY <1>5 DEF Refreshing
  <2>2. PICK tok \in {Keep} \cup Nat : tok = q.setTok
    BY <1>3
  <2>3. PICK p : p = Respond(q, "unauthenticated", tok, "clear")
    OBVIOUS
  <2>4. /\ "unauthenticated" \in {"ok", "error", "unauthenticated", "soft", "hard"}
        /\ "clear" \in {"keep", "set", "clear"}
    OBVIOUS
  <2>5. /\ p \in Request /\ p.phase = "done" /\ p.answer = "unauthenticated" /\ p.setTok = tok
        /\ p.tok = q.tok /\ p.next = q.next /\ p.refresh = q.refresh
    BY <1>2, <2>3, <2>4, Responded DEF Answered
  <2>6. RequestSound(p, account, history'.lapses)
    BY <1>3, <2>2, <2>5 DEF RequestSound, Keep
  <2>7. Plain(r, p)
    BY <1>3, <1>4, <2>1, <2>2, <2>3 DEF Plain, Unmarked
  <2>8. p.phase # "flight" /\ p.setTok = q.setTok
    BY <2>2, <2>5
  <2> QED BY <1>3, <2>5, <2>6, <2>7, <2>8, PlainMoves
<1>6. CASE q.tok # 0 /\ q.tok \in DOMAIN inFlight
  <2>1. /\ reqs' = [reqs EXCEPT ![r] = [q EXCEPT !.phase = "flight", !.leader = inFlight[q.tok]]]
        /\ inFlight' = inFlight
    BY <1>6 DEF Refreshing
  <2>2. PICK lead \in Slots : lead = inFlight[q.tok]
    BY <1>6 DEF WebInv, WebTyped
  <2>3. lead \in Open /\ reqs[lead].phase = "flight" /\ lead # r
    BY <1>3, <1>6, <2>2 DEF WebInv, FlightsLed
  <2>4. PICK p : p = [q EXCEPT !.phase = "flight", !.leader = lead]
    OBVIOUS
  <2>5. /\ p \in Request /\ p.phase = "flight" /\ p.leader = lead /\ p.tok = q.tok /\ p.next = q.next
        /\ p.refresh = q.refresh /\ p.setTok = q.setTok /\ p.answer = q.answer /\ p.kind = q.kind
    <3>1. lead \in {0} \cup Slots
      OBVIOUS
    <3>2. PICK flying : flying = [q EXCEPT !.phase = "flight"]
      OBVIOUS
    <3>3. flying \in Request
      BY <1>2, <3>2 DEF Request
    <3>4. p = [flying EXCEPT !.leader = lead]
      BY <1>2, <2>4, <3>2 DEF Request
    <3>5. p \in Request
      BY <3>1, <3>3, <3>4 DEF Request
    <3> QED BY <1>2, <2>4, <3>5 DEF Request
  <2>6. RequestSound(p, account, history.lapses)
    BY <1>3, <1>6, <2>5 DEF RequestSound, Keep
  <2>7. reqs' = [reqs EXCEPT ![r] = p]
    BY <2>1, <2>2, <2>4
  <2>8. DOMAIN inFlight \subseteq 1..account.issued /\ inFlight \in [DOMAIN inFlight -> Slots]
    BY DEF WebInv, WebTyped
  <2>9. FlightsLed'
    <3>1. reqs'[r] = p /\ (\A s \in Slots : s # r => reqs'[s] = reqs[s]) /\ Open' = Open
      BY <1>3, <2>5, <2>7, RequestsAre DEF Open, IsRequest, WebInv, WebTyped
    <3>2. FlightsLed
      BY DEF WebInv
    <3>3. \A s \in Open : s \in Slots
      BY DEF Open
    <3>4. ASSUME NEW s \in Open', reqs'[s].phase = "flight"
          PROVE  /\ reqs'[s].tok \in DOMAIN inFlight' /\ inFlight'[reqs'[s].tok] = reqs'[s].leader
                 /\ reqs'[s].refresh # "none" <=> reqs'[s].leader = s
      <4>1. CASE s = r
        BY <1>3, <1>6, <2>1, <2>2, <2>3, <2>5, <3>1, <4>1
      <4>2. CASE s # r
        BY <2>1, <3>1, <3>2, <3>3, <3>4, <4>2 DEF FlightsLed
      <4> QED BY <4>1, <4>2
    <3>5. ASSUME NEW k \in DOMAIN inFlight'
          PROVE  /\ inFlight'[k] \in Open' /\ reqs'[inFlight'[k]].phase = "flight"
                 /\ reqs'[inFlight'[k]].leader = inFlight'[k] /\ reqs'[inFlight'[k]].tok = k
      <4>1. PICK s : s = inFlight[k]
        OBVIOUS
      <4>2. s \in Open /\ reqs[s].phase = "flight" /\ reqs[s].leader = s /\ reqs[s].tok = k
        BY <2>1, <3>2, <4>1 DEF FlightsLed
      <4>3. s # r
        BY <1>3, <4>2
      <4> QED BY <2>1, <3>1, <3>3, <4>1, <4>2, <4>3
    <3> QED BY <3>4, <3>5 DEF FlightsLed
  <2>10. RequestMove(r, p)
    <3>1. r \in Open /\ account.issued \in {reqs[r].setTok, reqs[r].next} => account.issued \in {p.setTok, p.next}
      BY <2>5
    <3>2. DOMAIN inFlight' \subseteq 1..account'.issued /\ inFlight' \in [DOMAIN inFlight' -> Slots] /\ FlightsLed'
      BY <1>4, <2>1, <2>8, <2>9
    <3> QED BY <1>3, <1>4, <2>6, <2>7, <3>1, <3>2, SameAccount DEF RequestMove
  <2> QED BY <1>3, <2>5, <2>10, RequestMoves
<1>7. CASE q.tok # 0 /\ q.tok \notin DOMAIN inFlight
  <2>1. /\ reqs' = [reqs EXCEPT ![r] = [q EXCEPT !.phase = "flight", !.leader = r, !.refresh = "called"]]
        /\ inFlight' = WithFlight(q.tok, r)
    BY <1>7 DEF Refreshing
  <2>2. PICK p : p = [q EXCEPT !.phase = "flight", !.leader = r, !.refresh = "called"]
    OBVIOUS
  <2>3. /\ p \in Request /\ p.phase = "flight" /\ p.leader = r /\ p.tok = q.tok /\ p.next = q.next
        /\ p.refresh = "called" /\ p.setTok = q.setTok /\ p.answer = q.answer /\ p.kind = q.kind
    BY <1>2, <1>3, <2>2 DEF Request
  <2>4. RequestSound(p, account, history.lapses)
    BY <1>3, <1>7, <2>3 DEF RequestSound, Keep
  <2>5. reqs' = [reqs EXCEPT ![r] = p]
    BY <2>1, <2>2
  <2>6. DOMAIN inFlight \subseteq 1..account.issued /\ inFlight \in [DOMAIN inFlight -> Slots]
    BY DEF WebInv, WebTyped
  <2>7. /\ DOMAIN inFlight' = DOMAIN inFlight \cup {q.tok} /\ inFlight'[q.tok] = r
        /\ \A k \in DOMAIN inFlight : inFlight'[k] = inFlight[k]
        /\ inFlight' \in [DOMAIN inFlight' -> Slots]
    <3>1. inFlight' = [j \in DOMAIN inFlight \cup {q.tok} |-> IF j = q.tok THEN r ELSE inFlight[j]]
      BY <2>1 DEF WithFlight
    <3>2. DOMAIN inFlight' = DOMAIN inFlight \cup {q.tok}
      BY <3>1, Zenon
    <3> QED BY <1>3, <1>7, <2>6, <3>1, <3>2
  <2>8. DOMAIN inFlight' \subseteq 1..account'.issued
    BY <1>3, <1>4, <1>7, <2>6, <2>7
  <2>9. FlightsLed'
    <3>1. reqs'[r] = p /\ (\A s \in Slots : s # r => reqs'[s] = reqs[s]) /\ Open' = Open
      BY <1>3, <2>3, <2>5, RequestsAre DEF Open, IsRequest, WebInv, WebTyped
    <3>2. FlightsLed
      BY DEF WebInv
    <3>3. \A s \in Open : s \in Slots
      BY DEF Open
    <3>4. ASSUME NEW s \in Open', reqs'[s].phase = "flight"
          PROVE  /\ reqs'[s].tok \in DOMAIN inFlight' /\ inFlight'[reqs'[s].tok] = reqs'[s].leader
                 /\ reqs'[s].refresh # "none" <=> reqs'[s].leader = s
      <4>1. CASE s = r
        BY <2>3, <2>7, <3>1, <4>1
      <4>2. CASE s # r
        BY <2>7, <3>1, <3>2, <3>3, <3>4, <4>2 DEF FlightsLed
      <4> QED BY <4>1, <4>2
    <3>5. ASSUME NEW k \in DOMAIN inFlight'
          PROVE  /\ inFlight'[k] \in Open' /\ reqs'[inFlight'[k]].phase = "flight"
                 /\ reqs'[inFlight'[k]].leader = inFlight'[k] /\ reqs'[inFlight'[k]].tok = k
      <4>1. CASE k = q.tok
        BY <2>3, <2>7, <3>1, <4>1
      <4>2. CASE k # q.tok
        <5>1. PICK s : s = inFlight[k]
          OBVIOUS
        <5>2. k \in DOMAIN inFlight /\ inFlight'[k] = s
          BY <2>7, <4>2, <5>1
        <5>3. s \in Open /\ reqs[s].phase = "flight" /\ reqs[s].leader = s /\ reqs[s].tok = k
          BY <3>2, <5>1, <5>2 DEF FlightsLed
        <5>4. s # r
          BY <1>3, <5>3
        <5> QED BY <3>1, <3>3, <5>2, <5>3, <5>4
      <4> QED BY <4>1, <4>2
    <3> QED BY <3>4, <3>5 DEF FlightsLed
  <2>10. RequestMove(r, p)
    <3>1. r \in Open /\ account.issued \in {reqs[r].setTok, reqs[r].next} => account.issued \in {p.setTok, p.next}
      BY <2>3
    <3>2. DOMAIN inFlight' \subseteq 1..account'.issued /\ inFlight' \in [DOMAIN inFlight' -> Slots] /\ FlightsLed'
      BY <2>7, <2>8, <2>9
    <3> QED BY <1>3, <1>4, <2>4, <2>5, <3>1, <3>2, SameAccount DEF RequestMove
  <2> QED BY <1>3, <2>3, <2>10, RequestMoves
<1> QED BY <1>5, <1>6, <1>7


LEMMA RequestTakenMoves ==
  ASSUME WebInv, NEW r \in Open, GatewayTakes(r)
  PROVE  WebInv'
<1>1. PICK q : q = reqs[r]
  OBVIOUS
<1>2. OpenRequest(r, q)
  BY <1>1, OpenRequests
<1>3. q \in Request
  BY <1>2 DEF OpenRequest
<1>4. /\ r \in Slots /\ q.phase = "sent" /\ q.answer = "none" /\ q.refresh = "none" /\ q.next = 0
      /\ q.setTok = Keep /\ history \in Histories
      /\ account.issued \in Nat /\ account.issued # 0
      /\ q.tok \in Nat /\ q.tok <= account.issued
  BY <1>1, <1>2 DEF OpenRequest, RequestSound, GatewayTakes
<1>5. UNCHANGED <<jar, tabs, account, history>>
  BY DEF GatewayTakes
<1>6. CASE (q.kind = "me" \/ q.kind \in {"call", "password"}) /\ Refreshing(r, q)
  BY <1>1, <1>4, <1>5, <1>6, RefreshingMoves
<1>7. CASE /\ q.kind = "logout" /\ q.tok = 0
           /\ reqs' = [reqs EXCEPT ![r] = SessionCleared(q, "ok")] /\ UNCHANGED inFlight
  <2>1. PICK zero \in {Keep} \cup Nat : zero = 0
    OBVIOUS
  <2>2. PICK p : p = Respond(q, "ok", zero, "clear")
    OBVIOUS
  <2>3. "ok" \in {"ok", "error", "unauthenticated", "soft", "hard"} /\ "clear" \in {"keep", "set", "clear"}
    OBVIOUS
  <2>4. /\ p \in Request /\ p.phase = "done" /\ p.answer = "ok" /\ p.setTok = zero
        /\ p.kind = q.kind /\ p.tok = q.tok /\ p.next = q.next /\ p.refresh = q.refresh
    BY <1>3, <2>2, <2>3, Responded DEF Answered
  <2>5. RequestSound(p, account, history'.lapses)
    BY <1>4, <1>7, <2>1, <2>4 DEF RequestSound, Keep
  <2>6. Plain(r, p)
    BY <1>4, <1>5, <1>7, <2>1, <2>2 DEF Plain, SessionCleared
  <2>7. p.phase # "flight" /\ q.phase # "flight" /\ q.setTok \in {Keep, q.next}
    BY <1>4, <2>4
  <2> QED BY <1>1, <2>4, <2>5, <2>6, <2>7, PlainMoves
<1>8. CASE /\ q.kind # "me" /\ reqs' = [reqs EXCEPT ![r].phase = "upstream"] /\ UNCHANGED inFlight
  <2>1. PICK p : p = [q EXCEPT !.phase = "upstream"]
    OBVIOUS
  <2>2. p \in Request
    BY <1>3, <2>1 DEF Request
  <2>3. /\ p.phase = "upstream" /\ p.answer = q.answer /\ p.setTok = q.setTok
        /\ p.kind = q.kind /\ p.tok = q.tok /\ p.next = q.next /\ p.refresh = q.refresh
    BY <1>3, <2>1 DEF Request
  <2>4. RequestSound(p, account, history'.lapses)
    BY <1>4, <1>8, <2>3 DEF RequestSound, Keep
  <2>5. Plain(r, p)
    BY <1>1, <1>4, <1>5, <1>8, <2>1 DEF Plain
  <2>6. p.phase # "flight" /\ q.phase # "flight"
    BY <1>4, <2>3
  <2> QED BY <1>1, <2>2, <2>3, <2>4, <2>5, <2>6, PlainMoves
<1>9. \/ (q.kind = "me" \/ q.kind \in {"call", "password"}) /\ Refreshing(r, q)
      \/ /\ q.kind = "logout" /\ q.tok = 0
         /\ reqs' = [reqs EXCEPT ![r] = SessionCleared(q, "ok")] /\ UNCHANGED inFlight
      \/ q.kind # "me" /\ reqs' = [reqs EXCEPT ![r].phase = "upstream"] /\ UNCHANGED inFlight
  BY <1>1 DEF GatewayTakes
<1> QED BY <1>6, <1>7, <1>8, <1>9

LEMMA UpstreamMoves ==
  ASSUME WebInv, NEW r \in Open, UpstreamAnswers(r)
  PROVE  WebInv'
<1>1. PICK q : q = reqs[r]
  OBVIOUS
<1>2. OpenRequest(r, q)
  BY <1>1, OpenRequests
<1>3. q \in Request
  BY <1>2 DEF OpenRequest
<1>4. /\ r \in Slots /\ q.phase = "upstream" /\ q.answer = "none" /\ q.refresh = "none" /\ q.next = 0
      /\ q.setTok = Keep /\ history \in Histories
      /\ account.issued \in Nat /\ account.issued # 0
      /\ q.tok \in Nat /\ q.tok <= account.issued
  BY <1>1, <1>2 DEF OpenRequest, RequestSound, UpstreamAnswers
<1>5. UNCHANGED <<jar, tabs>> /\ history' = history
  BY DEF UpstreamAnswers
<1>6. CASE Accepted(r, q) /\ UNCHANGED inFlight
  BY <1>1, <1>4, <1>5, <1>6, AcceptedMoves
<1>7. CASE /\ UNCHANGED <<account, inFlight>>
           /\ reqs' = [reqs EXCEPT ![r] =
                CASE q.kind = "logout" -> SessionCleared(q, "ok")
                  [] q.kind = "login" -> Respond(q, "error", Keep, "keep")
                  [] OTHER -> Unmarked(q, "error")]
  <2>1. PICK tok \in {Keep} \cup Nat : tok = IF q.kind = "logout" THEN 0 ELSE Keep
    OBVIOUS
  <2>2. PICK answer \in {"ok", "error", "unauthenticated", "soft", "hard"} :
          answer = IF q.kind = "logout" THEN "ok" ELSE "error"
    OBVIOUS
  <2>3. PICK mark \in {"keep", "set", "clear"} : mark = IF q.kind = "login" THEN "keep" ELSE "clear"
    OBVIOUS
  <2>4. PICK p : p = Respond(q, answer, tok, mark)
    OBVIOUS
  <2>5. /\ p \in Request /\ p.phase = "done" /\ p.answer = answer /\ p.setTok = tok
        /\ p.kind = q.kind /\ p.tok = q.tok /\ p.next = q.next /\ p.refresh = q.refresh
    <3>1. Answered(p, q, answer, tok)
      BY <1>3, <2>4, Responded, Zenon
    <3> QED BY <3>1 DEF Answered
  <2>6. RequestSound(p, account, history'.lapses)
    BY <1>4, <2>1, <2>2, <2>5 DEF RequestSound, Keep
  <2>7. p = CASE q.kind = "logout" -> SessionCleared(q, "ok")
              [] q.kind = "login" -> Respond(q, "error", Keep, "keep")
              [] OTHER -> Unmarked(q, "error")
    BY <1>4, <2>1, <2>2, <2>3, <2>4 DEF SessionCleared, Unmarked
  <2>8. Plain(r, p)
    BY <1>4, <1>5, <1>7, <2>7 DEF Plain
  <2>9. p.phase # "flight" /\ q.phase # "flight" /\ q.setTok \in {Keep, q.next}
    BY <1>4, <2>5
  <2> QED BY <1>1, <2>5, <2>6, <2>8, <2>9, PlainMoves
<1>8. CASE q.kind # "login" /\ Refreshing(r, q) /\ UNCHANGED account
  BY <1>1, <1>4, <1>5, <1>8, RefreshingMoves
<1>9. \/ Accepted(r, q) /\ UNCHANGED inFlight
      \/ /\ UNCHANGED <<account, inFlight>>
         /\ reqs' = [reqs EXCEPT ![r] =
              CASE q.kind = "logout" -> SessionCleared(q, "ok")
                [] q.kind = "login" -> Respond(q, "error", Keep, "keep")
                [] OTHER -> Unmarked(q, "error")]
      \/ q.kind # "login" /\ Refreshing(r, q) /\ UNCHANGED account
  BY <1>1 DEF UpstreamAnswers
<1> QED BY <1>6, <1>7, <1>8, <1>9

LEMMA RetryMoves ==
  ASSUME WebInv, NEW r \in Open, RetryAnswers(r)
  PROVE  WebInv'
<1>1. PICK q : q = reqs[r]
  OBVIOUS
<1>2. OpenRequest(r, q)
  BY <1>1, OpenRequests
<1>3. q \in Request
  BY <1>2 DEF OpenRequest
<1>4. /\ r \in Slots /\ q.phase = "again" /\ q.answer = "none" /\ q.refresh = "none"
      /\ q.next \in Nat /\ q.next # 0 /\ q.next <= account.issued
      /\ q.setTok = IF q.kind \in {"call", "password"} THEN q.next ELSE Keep
      /\ q.kind # "login" /\ q.tok \notin account.good /\ history \in Histories
      /\ account.issued \in Nat /\ account.issued # 0
      /\ q.tok \in Nat /\ q.tok <= account.issued
  BY <1>1, <1>2 DEF OpenRequest, RequestSound, RetryAnswers
<1>5. UNCHANGED <<jar, tabs>> /\ UNCHANGED inFlight
  BY DEF RetryAnswers
<1>6. q.phase # "flight" /\ q.setTok \in {Keep, q.next}
  BY <1>4
<1>7. CASE Accepted(r, q) /\ UNCHANGED history
  BY <1>1, <1>4, <1>5, <1>7, AcceptedMoves
<1>8. CASE /\ UNCHANGED <<account, history>>
           /\ reqs' = [reqs EXCEPT ![r] = SessionCleared(q, IF q.kind = "logout" THEN "ok" ELSE "hard")]
  <2>1. PICK zero \in {Keep} \cup Nat : zero = 0
    OBVIOUS
  <2>2. PICK answer \in {"ok", "error", "unauthenticated", "soft", "hard"} :
          answer = IF q.kind = "logout" THEN "ok" ELSE "hard"
    OBVIOUS
  <2>3. PICK p : p = Respond(q, answer, zero, "clear")
    OBVIOUS
  <2>4. "clear" \in {"keep", "set", "clear"}
    OBVIOUS
  <2>5. /\ p \in Request /\ p.phase = "done" /\ p.answer = answer /\ p.setTok = zero
        /\ p.kind = q.kind /\ p.tok = q.tok /\ p.next = q.next /\ p.refresh = q.refresh
    <3>1. Answered(p, q, answer, zero)
      BY <1>3, <2>3, <2>4, Responded, Zenon
    <3> QED BY <3>1 DEF Answered
  <2>6. RequestSound(p, account, history'.lapses)
    BY <1>4, <2>1, <2>2, <2>5 DEF RequestSound, Keep
  <2>7. Plain(r, p)
    BY <1>4, <1>5, <1>8, <2>1, <2>2, <2>3 DEF Plain, SessionCleared
  <2>8. p.phase # "flight"
    BY <2>5
  <2> QED BY <1>1, <1>6, <2>5, <2>6, <2>7, <2>8, PlainMoves
<1>9. CASE /\ reqs' = [reqs EXCEPT ![r] =
                IF q.kind = "logout" THEN SessionCleared(q, "ok") ELSE Unmarked(q, "error")]
           /\ history' = IF q.kind = "me" THEN [history EXCEPT !.lapses = @ \cup {"me"}] ELSE history
           /\ UNCHANGED account
  <2>1. PICK tok \in {Keep} \cup Nat : tok = IF q.kind = "logout" THEN 0 ELSE q.setTok
    BY <1>4
  <2>2. PICK answer \in {"ok", "error", "unauthenticated", "soft", "hard"} :
          answer = IF q.kind = "logout" THEN "ok" ELSE "error"
    OBVIOUS
  <2>3. PICK p : p = Respond(q, answer, tok, "clear")
    OBVIOUS
  <2>4. "clear" \in {"keep", "set", "clear"}
    OBVIOUS
  <2>5. /\ p \in Request /\ p.phase = "done" /\ p.answer = answer /\ p.setTok = tok
        /\ p.kind = q.kind /\ p.tok = q.tok /\ p.next = q.next /\ p.refresh = q.refresh
    <3>1. Answered(p, q, answer, tok)
      BY <1>3, <2>3, <2>4, Responded, Zenon
    <3> QED BY <3>1 DEF Answered
  <2>6. /\ history' \in Histories /\ history'.top = history.top /\ history'.ended = history.ended
        /\ history.lapses \subseteq history'.lapses 
        /\ q.kind = "me" => history'.lapses # {}
    BY <1>4, <1>9 DEF Histories
  <2>7. RequestSound(p, account, history'.lapses)
    <3>1. q.kind \in {"me", "call", "logout", "password"}
      BY <1>3, <1>4 DEF Request
    <3>2. tok = Keep => history'.lapses # {}
      <4>1. q.kind # "me" => tok # Keep
        BY <1>4, <2>1, <3>1 DEF Keep
      <4> QED BY <2>6, <4>1, Zenon
    <3>3. tok <= account.issued /\ (tok > 0 => q.next <= tok) /\ (tok = 0 => q.kind = "logout")
      BY <1>4, <2>1 DEF Keep
    <3> QED BY <1>4, <2>2, <2>5, <3>2, <3>3 DEF RequestSound
  <2>8. reqs' = [reqs EXCEPT ![r] = p]
    BY <1>9, <2>1, <2>2, <2>3 DEF SessionCleared, Unmarked
  <2>9. Plain(r, p)
    <3>1. UNCHANGED account
      BY <1>9
    <3> QED BY <1>5, <2>6, <2>8, <3>1 DEF Plain
  <2>10. p.phase # "flight"
    BY <2>5
  <2> QED BY <1>1, <1>6, <2>5, <2>7, <2>9, <2>10, PlainMoves
<1>10. \/ Accepted(r, q) /\ UNCHANGED history
       \/ /\ UNCHANGED <<account, history>>
          /\ reqs' = [reqs EXCEPT ![r] = SessionCleared(q, IF q.kind = "logout" THEN "ok" ELSE "hard")]
       \/ /\ reqs' = [reqs EXCEPT ![r] =
               IF q.kind = "logout" THEN SessionCleared(q, "ok") ELSE Unmarked(q, "error")]
          /\ history' = IF q.kind = "me" THEN [history EXCEPT !.lapses = @ \cup {"me"}] ELSE history
          /\ UNCHANGED account
  BY <1>1 DEF RetryAnswers
<1> QED BY <1>7, <1>8, <1>9, <1>10

-----------------------------------------------------------------------------
\* The leader of a flight stays its leader when only what the backend said changes.
LEMMA LeaderStays ==
  ASSUME WebInv, NEW r \in Open, NEW q, q = reqs[r], q.refresh # "none", q.phase = "flight",
         NEW p \in Request, reqs' = [reqs EXCEPT ![r] = p], p.phase = "flight",
         p.refresh # "none", p.leader = q.leader, p.tok = q.tok, inFlight' = inFlight
  PROVE  FlightsLed'
<1>1. FlightsLed /\ r \in Slots
  BY DEF WebInv, Open
<1>2. reqs'[r] = p /\ (\A s \in Slots : s # r => reqs'[s] = reqs[s]) /\ Open' = Open
  BY <1>1, RequestsAre DEF Open, IsRequest, WebInv, WebTyped
<1>3. \A s \in Open : s \in Slots
  BY DEF Open
<1>4. \A s \in Open : /\ reqs'[s].phase = reqs[s].phase /\ reqs'[s].tok = reqs[s].tok
                      /\ reqs'[s].leader = reqs[s].leader
                      /\ (reqs'[s].refresh # "none" <=> reqs[s].refresh # "none")
  BY <1>2, <1>3
<1>5. ASSUME NEW s \in Open', reqs'[s].phase = "flight"
      PROVE  /\ reqs'[s].tok \in DOMAIN inFlight' /\ inFlight'[reqs'[s].tok] = reqs'[s].leader
             /\ reqs'[s].refresh # "none" <=> reqs'[s].leader = s
  BY <1>1, <1>2, <1>4, <1>5 DEF FlightsLed
<1>6. ASSUME NEW k \in DOMAIN inFlight'
      PROVE  /\ inFlight'[k] \in Open' /\ reqs'[inFlight'[k]].phase = "flight"
             /\ reqs'[inFlight'[k]].leader = inFlight'[k] /\ reqs'[inFlight'[k]].tok = k
  <2>1. PICK s : s = inFlight[k]
    OBVIOUS
  <2>2. s \in Open /\ reqs[s].phase = "flight" /\ reqs[s].leader = s /\ reqs[s].tok = k
    BY <1>1, <2>1 DEF FlightsLed
  <2>3. inFlight'[k] = s /\ s \in Open'
    BY <1>2, <2>1, <2>2
  <2> QED BY <1>4, <2>2, <2>3
<1> QED BY <1>5, <1>6 DEF FlightsLed

LEMMA RefreshMoves ==
  ASSUME WebInv, NEW r \in Open, RefreshServed(r)
  PROVE  WebInv'
<1>1. PICK q : q = reqs[r]
  OBVIOUS
<1>2. OpenRequest(r, q)
  BY <1>1, OpenRequests
<1>3. q \in Request
  BY <1>2 DEF OpenRequest
<1>4. /\ r \in Slots /\ q.phase = "flight" /\ q.refresh = "called" /\ q.answer = "none" /\ q.setTok = Keep
      /\ q.tok # 0 /\ q.kind # "login" /\ history \in Histories
      /\ account \in Accounts /\ account.good \subseteq 1..account.issued
      /\ account.issued \in Nat /\ account.issued # 0
      /\ q.tok \in Nat /\ q.tok <= account.issued /\ q.next \in Nat /\ q.next = 0
  BY <1>1, <1>2 DEF OpenRequest, RequestSound, RefreshServed
<1>5. UNCHANGED <<jar, tabs>> /\ inFlight' = inFlight /\ history' = history
  BY DEF RefreshServed
<1>6. DOMAIN inFlight \subseteq 1..account.issued /\ inFlight \in [DOMAIN inFlight -> Slots]
  BY DEF WebInv, WebTyped
<1>7. CASE /\ account' = Issue({q.tok})
           /\ reqs' = [reqs EXCEPT ![r].refresh = "rotated", ![r].next = account.issued + 1,
                                   ![r].fresh = account.version]
  <2>1. PICK v \in Nat : v = account.version
    BY <1>4 DEF Accounts
  <2>2. account' = [issued |-> account.issued + 1, good |-> (account.good \ {q.tok}) \cup {account.issued + 1},
                    version |-> v]
    BY <1>4, <1>7, <2>1 DEF Issue, Accounts
  <2>3. /\ account' \in Accounts /\ account'.good \subseteq 1..account'.issued
        /\ account'.issued = account.issued + 1 /\ Grown(account, account')
    BY <1>4, <2>1, <2>2, Issues
  <2>4. q.tok \notin account'.good
    BY <1>4, <2>2
  <2>5. PICK p : p = [q EXCEPT !.refresh = "rotated", !.next = account.issued + 1, !.fresh = v]
    OBVIOUS
  <2>6. /\ p \in Request /\ p.phase = "flight" /\ p.refresh = "rotated" /\ p.next = account.issued + 1
        /\ p.tok = q.tok /\ p.leader = q.leader /\ p.setTok = q.setTok /\ p.answer = q.answer /\ p.kind = q.kind
    <3>1. account.issued + 1 \in Nat
      BY <1>4
    <3> QED BY <1>3, <1>4, <2>1, <2>5, <3>1 DEF Request
  <2>7. reqs' = [reqs EXCEPT ![r] = p]
    <3>1. r \in DOMAIN reqs
      BY <1>4 DEF WebInv, WebTyped
    <3> QED BY <1>1, <1>3, <1>7, <2>1, <2>5, <3>1 DEF Request
  <2>8. RequestSound(p, account', history'.lapses)
    <3>1. /\ p.tok <= account'.issued /\ p.next <= account'.issued /\ p.setTok <= account'.issued
          /\ p.next # 0 /\ p.setTok = Keep
      BY <1>4, <2>3, <2>6 DEF Keep
    <3> QED BY <1>4, <2>4, <2>6, <3>1 DEF RequestSound
  <2>9. FlightsLed'
    BY <1>1, <1>4, <1>5, <2>6, <2>7, LeaderStays
  <2>10. DOMAIN inFlight' \subseteq 1..account'.issued /\ inFlight' \in [DOMAIN inFlight' -> Slots]
    BY <1>4, <1>5, <1>6, <2>3
  <2>11. account'.issued \in {p.setTok, p.next}
    BY <2>3, <2>6
  <2>12. RequestMove(r, p)
    BY <1>4, <1>5, <2>3, <2>7, <2>8, <2>9, <2>10, <2>11 DEF RequestMove
  <2> QED BY <1>4, <2>6, <2>12, RequestMoves
<1>8. CASE /\ q.tok \notin account.good /\ reqs' = [reqs EXCEPT ![r].refresh = "refused"] /\ UNCHANGED account
  <2>1. PICK p : p = [q EXCEPT !.refresh = "refused"]
    OBVIOUS
  <2>2. /\ p \in Request /\ p.phase = "flight" /\ p.refresh = "refused" /\ p.next = q.next
        /\ p.tok = q.tok /\ p.leader = q.leader /\ p.setTok = q.setTok /\ p.answer = q.answer /\ p.kind = q.kind
    BY <1>3, <1>4, <2>1 DEF Request
  <2>3. reqs' = [reqs EXCEPT ![r] = p] /\ account' = account
    BY <1>1, <1>8, <2>1
  <2>4. RequestSound(p, account', history'.lapses)
    BY <1>4, <1>8, <2>2, <2>3 DEF RequestSound, Keep
  <2>5. FlightsLed'
    BY <1>1, <1>4, <1>5, <2>2, <2>3, LeaderStays
  <2>6. DOMAIN inFlight' \subseteq 1..account'.issued /\ inFlight' \in [DOMAIN inFlight' -> Slots]
    BY <1>5, <1>6, <2>3
  <2>7. r \in Open /\ account.issued \in {reqs[r].setTok, reqs[r].next} => account.issued \in {p.setTok, p.next}
    BY <1>1, <2>2
  <2>8. RequestMove(r, p)
    BY <1>4, <1>5, <2>3, <2>4, <2>5, <2>6, <2>7, SameAccount DEF RequestMove
  <2> QED BY <1>4, <2>2, <2>8, RequestMoves
<1> QED BY <1>1, <1>7, <1>8 DEF RefreshServed

-----------------------------------------------------------------------------
\* What a flight comes to, and what a request q that waits for it makes of it.
FlightEnds(lead, result, later) ==
  /\ result \in {"success", "refused", "transient"}
  /\ result = "success" => lead.refresh = "rotated"
  /\ result = "refused" => lead.refresh = "refused"
  /\ result = "transient" => lead.refresh \in {"called", "rotated"}
  /\ result = "transient" /\ lead.refresh = "rotated" => later # {}
Waits(q, lead) ==
  /\ q \in Request /\ lead \in Request /\ q.phase = "flight" /\ lead.phase = "flight"
  /\ q.tok = lead.tok /\ (q = lead \/ q.refresh = "none")
  /\ account \in Accounts /\ account.issued \in Nat /\ account.issued # 0
  /\ RequestSound(q, account, history.lapses) /\ RequestSound(lead, account, history.lapses)

\* p is a request that has left the flight for which q was waiting.
Landed(p, q, later) ==
  /\ p \in Request /\ p.phase # "flight" /\ (q.next # 0 => p.next = q.next)
  /\ RequestSound(p, account, later)

\* p is a without its part in the flight, b the same but for the leader.
LeavesFlight(a, b, p, q, later) ==
  /\ a \in Request /\ a.phase \in {"again", "done"} /\ (q.next # 0 => a.next = q.next)
  /\ p = [a EXCEPT !.leader = 0, !.refresh = "none"] /\ b = [a EXCEPT !.refresh = "none"]
  /\ RequestSound(b, account, later)

LEMMA FlightLeft ==
  ASSUME NEW a, NEW b, NEW p, NEW q, NEW later, LeavesFlight(a, b, p, q, later)
  PROVE  Landed(p, q, later)
<1>1. b = [a EXCEPT !.refresh = "none"] /\ a \in Request
  BY DEF LeavesFlight
<1>2. b \in Request /\ b.phase = a.phase /\ b.next = a.next
  BY <1>1 DEF Request
<1>3. p = [b EXCEPT !.leader = 0]
  BY <1>1 DEF Request, LeavesFlight
<1>4. 0 \in {0} \cup Slots
  OBVIOUS
<1>5. p \in Request
  BY <1>2, <1>3, <1>4 DEF Request
<1>6. /\ p.tok = b.tok /\ p.next = b.next /\ p.setTok = b.setTok /\ p.phase = b.phase /\ p.kind = b.kind
      /\ p.answer = b.answer /\ p.refresh = b.refresh /\ p.marked = b.marked
  BY <1>2, <1>3 DEF Request
<1>7. RequestSound(b, account, later)
  BY DEF LeavesFlight
<1>8. RequestSound(p, account, later)
  BY <1>6, <1>7 DEF RequestSound
<1> QED BY <1>2, <1>5, <1>6, <1>8 DEF Landed, LeavesFlight

\* An answer that a failed refresh leads to.
Failure(q, answer, tok, mark, later) ==
  /\ answer \in {"ok", "error", "unauthenticated", "soft", "hard"} /\ tok \in {Keep} \cup Nat
  /\ mark \in {"keep", "set", "clear"} /\ tok \in {Keep, 0}
  /\ (tok = 0 => q.kind = "logout" \/ answer = "hard") /\ (tok = Keep /\ q.next # 0 => later # {})
  /\ (answer = "ok" => q.kind = "logout") /\ (answer = "hard" => q.tok \notin account.good /\ q.marked)

LEMMA FlightLands ==
  ASSUME NEW q, NEW lead, Waits(q, lead), NEW result, NEW later, FlightEnds(lead, result, later),
         NEW p, p = [AfterRefresh(q, result, lead) EXCEPT !.leader = 0, !.refresh = "none"]
  PROVE  Landed(p, q, later)
<1>1. q \in Request /\ lead \in Request
  BY DEF Waits
<1>2. /\ q.setTok = Keep /\ q.answer = "none" /\ q.tok # 0 /\ q.kind # "login"
      /\ (q.refresh = "rotated" <=> q.next # 0) /\ q.next <= account.issued /\ q.tok <= account.issued
      /\ (lead.refresh = "rotated" <=> lead.next # 0) /\ lead.next <= account.issued
      /\ (lead.refresh \in {"rotated", "refused"} => q.tok \notin account.good)
      /\ account.issued \in Nat /\ account.issued # 0
      /\ (q = lead \/ q.refresh = "none") /\ q.phase = "flight"
  BY DEF Waits, RequestSound
<1>3. q.next \in Nat /\ lead.next \in Nat /\ q.tok \in Nat /\ lead.fresh \in Nat /\ Keep \in {Keep} \cup Nat
  BY <1>1 DEF Request
<1>4. PICK a : a = AfterRefresh(q, result, lead)
  OBVIOUS
<1>5. p = [a EXCEPT !.leader = 0, !.refresh = "none"]
  BY <1>4
<1>6. result \in {"success", "refused", "transient"}
  BY DEF FlightEnds
<1>7. CASE result = "success"
  <2>1. lead.next # 0 /\ q.tok \notin account.good
    BY <1>2, <1>7 DEF FlightEnds
  <2>2. PICK tok \in {Keep} \cup Nat : tok = IF q.kind \in {"call", "password"} THEN lead.next ELSE q.setTok
    BY <1>2, <1>3
  <2>3. a = [q EXCEPT !.phase = "again", !.fresh = lead.fresh, !.next = lead.next, !.setTok = tok]
    BY <1>1, <1>4, <1>7, <2>2 DEF AfterRefresh, Request
  <2>4. PICK b : b = [a EXCEPT !.refresh = "none"]
    OBVIOUS
  <2>5. /\ a \in Request /\ a.phase = "again" /\ a.next = lead.next /\ a.setTok = tok
        /\ a.tok = q.tok /\ a.kind = q.kind /\ a.answer = q.answer
    BY <1>1, <1>3, <2>3 DEF Request
  <2>6. /\ b.phase = "again" /\ b.next = lead.next /\ b.setTok = tok
        /\ b.tok = q.tok /\ b.kind = q.kind /\ b.answer = q.answer /\ b.refresh = "none"
    BY <2>4, <2>5 DEF Request
  <2>7. RequestSound(b, account, later)
    <3>1. tok <= account.issued
      BY <1>2, <1>3, <2>2 DEF Keep
    <3> QED BY <1>2, <2>1, <2>2, <2>6, <3>1 DEF RequestSound
  <2>8. q.next # 0 => a.next = q.next
    BY <1>2, <2>5
  <2>9. a \in Request /\ a.phase \in {"again", "done"}
    BY <2>5
  <2>10. LeavesFlight(a, b, p, q, later)
    BY <1>5, <2>4, <2>7, <2>8, <2>9 DEF LeavesFlight
  <2> QED BY <2>10, FlightLeft, Zenon
<1>8. ASSUME NEW answer, NEW tok, NEW mark, a = Respond(q, answer, tok, mark),
             Failure(q, answer, tok, mark, later)
      PROVE  Landed(p, q, later)
  <2>0. /\ answer \in {"ok", "error", "unauthenticated", "soft", "hard"} /\ tok \in {Keep} \cup Nat
        /\ mark \in {"keep", "set", "clear"}
    BY <1>8 DEF Failure
  <2>1. Answered(a, q, answer, tok)
    BY <1>1, <1>8, <2>0, Responded, Zenon
  <2>2. /\ a \in Request /\ a.phase = "done" /\ a.answer = answer /\ a.setTok = tok
        /\ a.kind = q.kind /\ a.tok = q.tok /\ a.next = q.next /\ a.marked = q.marked
    BY <2>1 DEF Answered
  <2>3. PICK b : b = [a EXCEPT !.refresh = "none"]
    OBVIOUS
  <2>4. /\ b.phase = "done" /\ b.answer = answer /\ b.setTok = tok /\ b.refresh = "none"
        /\ b.kind = q.kind /\ b.tok = q.tok /\ b.next = q.next /\ b.marked = q.marked
    BY <2>2, <2>3 DEF Request
  <2>5. RequestSound(b, account, later)
    <3>1. tok <= account.issued /\ ~(tok > 0) /\ Keep # 0
      BY <1>2, <1>8 DEF Keep, Failure
    <3> QED BY <1>2, <1>8, <2>4, <3>1 DEF RequestSound, Failure
  <2>6. a \in Request /\ a.phase \in {"again", "done"}
    BY <2>2
  <2>7. q.next # 0 => a.next = q.next
    BY <2>2
  <2>8. LeavesFlight(a, b, p, q, later)
    BY <1>5, <2>3, <2>5, <2>6, <2>7 DEF LeavesFlight
  <2> QED BY <2>8, FlightLeft, Zenon
<1>9. CASE result # "success" /\ q.kind = "logout"
  <2>1. a = Respond(q, "ok", 0, "clear")
    BY <1>4, <1>6, <1>9 DEF AfterRefresh, SessionCleared
  <2>2. 0 \in {Keep} \cup Nat /\ 0 \in {Keep, 0} /\ 0 # Keep
    BY DEF Keep
  <2>3. /\ "ok" \in {"ok", "error", "unauthenticated", "soft", "hard"} /\ "clear" \in {"keep", "set", "clear"}
        /\ "ok" # "hard"
    OBVIOUS
  <2>4. Failure(q, "ok", 0, "clear", later)
    BY <1>9, <2>2, <2>3 DEF Failure
  <2> QED BY <1>8, <2>1, <2>4, Zenon
<1>10. CASE result = "refused" /\ q.kind # "logout"
  <2>1. q.tok \notin account.good /\ q.next = 0
    BY <1>2, <1>10 DEF FlightEnds
  <2>2. /\ "soft" \in {"ok", "error", "unauthenticated", "soft", "hard"} /\ "clear" \in {"keep", "set", "clear"}
        /\ "hard" \in {"ok", "error", "unauthenticated", "soft", "hard"} /\ "set" \in {"keep", "set", "clear"}
        /\ "hard" # "ok" /\ "soft" # "ok" /\ "soft" # "hard"
    OBVIOUS
  <2>3. 0 \in {Keep} \cup Nat /\ Keep # 0 /\ 0 \in {Keep, 0} /\ Keep \in {Keep, 0}
    BY DEF Keep
  <2>4. CASE q.marked
    <3>1. a = Respond(q, "hard", 0, "clear")
      BY <1>4, <1>10, <2>4 DEF AfterRefresh, SessionCleared
    <3>2. Failure(q, "hard", 0, "clear", later)
      BY <2>1, <2>2, <2>3, <2>4 DEF Failure
    <3> QED BY <1>8, <3>1, <3>2, Zenon
  <2>5. CASE ~q.marked
    <3>1. a = Respond(q, "soft", Keep, "set")
      BY <1>4, <1>10, <2>5 DEF AfterRefresh
    <3>2. Failure(q, "soft", Keep, "set", later)
      BY <1>3, <2>1, <2>2, <2>3 DEF Failure
    <3> QED BY <1>8, <3>1, <3>2, Zenon
  <2> QED BY <2>4, <2>5
<1>11. CASE result = "transient" /\ q.kind # "logout"
  <2>1. a = Respond(q, "error", Keep, "clear")
    BY <1>2, <1>4, <1>11 DEF AfterRefresh, Unmarked
  <2>2. q.next # 0 => later # {}
    BY <1>2, <1>11 DEF FlightEnds
  <2>3. /\ "error" \in {"ok", "error", "unauthenticated", "soft", "hard"} /\ "clear" \in {"keep", "set", "clear"}
        /\ "error" # "ok" /\ "error" # "hard"
    OBVIOUS
  <2>4. Keep # 0 /\ Keep \in {Keep, 0}
    BY DEF Keep
  <2>5. Failure(q, "error", Keep, "clear", later)
    BY <1>3, <2>2, <2>3, <2>4 DEF Failure
  <2> QED BY <1>8, <2>1, <2>5, Zenon
<1> QED BY <1>6, <1>7, <1>9, <1>10, <1>11

\* s waits for the call that r leads.
InFlightOf(s, r) == reqs[s].phase = "flight" /\ reqs[s].leader = r

LEMMA FlightMoves ==
  ASSUME WebInv, NEW r \in Open, NEW result \in {"success", "refused", "transient"},
         FlightResolves(r, result)
  PROVE  WebInv'
<1>1. PICK lead : lead = reqs[r]
  OBVIOUS
<1>2. OpenRequest(r, lead)
  BY <1>1, OpenRequests
<1>3. /\ r \in Slots /\ lead \in Request /\ lead.phase = "flight" /\ lead.leader = r
      /\ RequestSound(lead, account, history.lapses)
      /\ account \in Accounts /\ account.issued \in Nat /\ account.issued # 0
      /\ history \in Histories
  BY <1>1, <1>2 DEF OpenRequest, FlightResolves
<1>4. /\ FlightsLed /\ TokensArrive /\ EmptyIsTold /\ WebTyped
      /\ \A s \in Open : RequestSound(reqs[s], account, history.lapses)
  BY DEF WebInv
<1>5. jar' = jar /\ tabs' = tabs /\ account' = account
  BY DEF FlightResolves
<1>6. history' = IF result = "transient" /\ lead.refresh = "rotated"
                   THEN [history EXCEPT !.lapses = @ \cup {"refresh"}] ELSE history
  BY <1>1 DEF FlightResolves
<1>7. /\ history' \in Histories /\ history'.top = history.top /\ history'.ended = history.ended
      /\ history.lapses \subseteq history'.lapses
      /\ (result = "transient" /\ lead.refresh = "rotated" => history'.lapses # {})
  BY <1>3, <1>6 DEF Histories
<1>8. FlightEnds(lead, result, history'.lapses)
  BY <1>1, <1>7 DEF FlightEnds, FlightResolves
<1>9. \A s \in Open : s \in Slots /\ reqs[s] \in Request /\ reqs[s] # NoRequest
  BY <1>4 DEF WebTyped, Open
<1>10. ASSUME NEW s \in Open, InFlightOf(s, r)
       PROVE  Landed(reqs'[s], reqs[s], history'.lapses)
  <2>1. PICK q : q = reqs[s]
    OBVIOUS
  <2>2. /\ q \in Request /\ q.phase = "flight" /\ q.leader = r /\ s \in Slots
        /\ RequestSound(q, account, history.lapses)
    BY <1>4, <1>9, <1>10, <2>1 DEF InFlightOf
  <2>3. q.tok \in DOMAIN inFlight /\ inFlight[q.tok] = r /\ (q.refresh # "none" <=> r = s)
    BY <1>4, <2>1, <2>2 DEF FlightsLed
  <2>4. q.tok = lead.tok
    BY <1>1, <1>4, <2>3 DEF FlightsLed
  <2>5. Waits(q, lead)
    BY <1>1, <1>3, <2>1, <2>2, <2>3, <2>4 DEF Waits
  <2>6. PICK p : p = [AfterRefresh(q, result, lead) EXCEPT !.leader = 0, !.refresh = "none"]
    OBVIOUS
  <2>7. reqs'[s] = p
    BY <1>1, <2>1, <2>2, <2>6 DEF FlightResolves
  <2> QED BY <1>8, <2>1, <2>5, <2>6, <2>7, FlightLands
<1>11. \A s \in Slots : (s \in Open => ~InFlightOf(s, r)) => reqs'[s] = reqs[s]
  BY DEF FlightResolves, InFlightOf
<1>12. reqs' \in [Slots -> Request \cup {NoRequest}]
  <2>1. \A s \in Slots : reqs'[s] \in Request \cup {NoRequest}
    <3>1. ASSUME NEW s \in Slots PROVE reqs'[s] \in Request \cup {NoRequest}
      <4>1. CASE s \in Open /\ InFlightOf(s, r)
        BY <1>10, <4>1 DEF Landed
      <4>2. CASE ~(s \in Open /\ InFlightOf(s, r))
        <5>1. reqs'[s] = reqs[s]
          BY <1>11, <4>2
        <5> QED BY <1>4, <5>1 DEF WebTyped
      <4> QED BY <4>1, <4>2
    <3> QED BY <3>1
  <2>2. PICK f : reqs' = [s \in Slots |-> f[s]]
    <3>1. PICK g : g = reqs'
      OBVIOUS
    <3>2. g = [s \in Slots |-> g[s]]
      BY <3>1 DEF FlightResolves
    <3> QED BY <3>1, <3>2
  <2> QED BY <2>1, <2>2
<1>13. \A s \in Slots : s \in Open' <=> s \in Open
  <2>1. ASSUME NEW s \in Slots PROVE s \in Open' <=> s \in Open
    <3>1. CASE s \in Open /\ InFlightOf(s, r)
      <4>1. reqs'[s] # NoRequest
        BY <1>10, <3>1, RequestsAre DEF Landed, IsRequest
      <4> QED BY <3>1, <4>1 DEF Open
    <3>2. CASE ~(s \in Open /\ InFlightOf(s, r))
      BY <1>11, <3>2 DEF Open
    <3> QED BY <3>1, <3>2
  <2> QED BY <2>1
<1>14. Open' = Open
  BY <1>13 DEF Open
<1>15. PICK k0 : k0 = lead.tok
  OBVIOUS
<1>16. inFlight' = [k \in DOMAIN inFlight \ {k0} |-> inFlight[k]]
  BY <1>1, <1>15 DEF FlightResolves
<1>17. DOMAIN inFlight' = DOMAIN inFlight \ {k0} /\ \A k \in DOMAIN inFlight' : inFlight'[k] = inFlight[k]
  BY <1>16
<1>18. k0 \in DOMAIN inFlight /\ inFlight[k0] = r
  BY <1>1, <1>3, <1>4, <1>15 DEF FlightsLed
<1>19. WebTyped'
  <2>1. DOMAIN inFlight' \subseteq 1..account'.issued
    BY <1>4, <1>5, <1>17 DEF WebTyped
  <2>2. inFlight' \in [DOMAIN inFlight' -> Slots]
    BY <1>4, <1>16, <1>17 DEF WebTyped
  <2> QED BY <1>4, <1>5, <1>7, <1>12, <2>1, <2>2 DEF WebTyped
<1>20. \A s \in Open' : RequestSound(reqs'[s], account', history'.lapses)
  <2>1. ASSUME NEW s \in Open PROVE RequestSound(reqs'[s], account, history'.lapses)
    <3>1. CASE InFlightOf(s, r)
      BY <1>10, <3>1 DEF Landed
    <3>2. CASE ~InFlightOf(s, r)
      <4>1. PICK q \in Request : q = reqs[s]
        BY <1>9
      <4>2. reqs'[s] = q
        BY <1>9, <1>11, <3>2, <4>1
      <4>3. RequestSound(q, account, history.lapses)
        BY <1>4, <4>1
      <4> QED BY <1>3, <1>7, <4>2, <4>3, SameAccount, StaysSound
    <3> QED BY <3>1, <3>2
  <2> QED BY <1>5, <1>14, <2>1
<1>21. FlightsLed'
  <2>1. ASSUME NEW s \in Open', reqs'[s].phase = "flight"
        PROVE  /\ reqs'[s].tok \in DOMAIN inFlight' /\ inFlight'[reqs'[s].tok] = reqs'[s].leader
               /\ reqs'[s].refresh # "none" <=> reqs'[s].leader = s
    <3>1. s \in Open /\ ~InFlightOf(s, r)
      BY <1>10, <1>14, <2>1 DEF Landed
    <3>2. reqs'[s] = reqs[s]
      BY <1>9, <1>11, <3>1
    <3>3. /\ reqs[s].tok \in DOMAIN inFlight /\ inFlight[reqs[s].tok] = reqs[s].leader
          /\ reqs[s].refresh # "none" <=> reqs[s].leader = s
      BY <1>4, <2>1, <3>1, <3>2 DEF FlightsLed
    <3>4. reqs[s].tok # k0
      BY <1>18, <2>1, <3>1, <3>2, <3>3 DEF InFlightOf
    <3> QED BY <1>17, <3>2, <3>3, <3>4
  <2>2. ASSUME NEW k \in DOMAIN inFlight'
        PROVE  /\ inFlight'[k] \in Open' /\ reqs'[inFlight'[k]].phase = "flight"
               /\ reqs'[inFlight'[k]].leader = inFlight'[k] /\ reqs'[inFlight'[k]].tok = k
    <3>1. PICK s : s = inFlight[k]
      OBVIOUS
    <3>2. k \in DOMAIN inFlight /\ k # k0 /\ inFlight'[k] = s
      BY <1>17, <3>1
    <3>3. s \in Open /\ reqs[s].phase = "flight" /\ reqs[s].leader = s /\ reqs[s].tok = k
      BY <1>4, <3>1, <3>2 DEF FlightsLed
    <3>4. s # r
      BY <1>1, <1>15, <3>2, <3>3
    <3>5. reqs'[s] = reqs[s]
      BY <1>9, <1>11, <3>3, <3>4 DEF InFlightOf
    <3> QED BY <1>14, <3>2, <3>3, <3>5
  <2> QED BY <2>1, <2>2 DEF FlightsLed
<1>22. TokensArrive'
  <2>1. SUFFICES ASSUME history'.lapses = {}
                 PROVE  /\ \/ account'.issued <= history'.top
                           \/ \E s \in Open' : account'.issued \in {reqs'[s].setTok, reqs'[s].next}
                        /\ jar'.tok \in {0, history'.top}
    BY DEF TokensArrive
  <2>2. history.lapses = {}
    BY <1>7, <2>1
  <2>3. jar'.tok \in {0, history'.top}
    BY <1>4, <1>5, <1>7, <2>2 DEF TokensArrive
  <2>4. CASE account.issued <= history.top
    BY <1>5, <1>7, <2>3, <2>4
  <2>5. CASE \E s \in Open : account.issued \in {reqs[s].setTok, reqs[s].next}
    <3>1. PICK s \in Open : account.issued \in {reqs[s].setTok, reqs[s].next}
      BY <2>5
    <3>2. CASE InFlightOf(s, r)
      <4>1. reqs[s].setTok = Keep
        BY <1>4, <3>2 DEF RequestSound, InFlightOf
      <4>2. account.issued = reqs[s].next /\ reqs[s].next # 0
        BY <1>3, <3>1, <4>1 DEF Keep
      <4>3. reqs'[s].next = reqs[s].next
        BY <1>10, <3>2, <4>2 DEF Landed
      <4> QED BY <1>5, <1>14, <2>3, <4>2, <4>3
    <3>3. CASE ~InFlightOf(s, r)
      <4>1. reqs'[s] = reqs[s]
        BY <1>9, <1>11, <3>3
      <4> QED BY <1>5, <1>14, <2>3, <3>1, <4>1
    <3> QED BY <3>2, <3>3
  <2> QED BY <1>4, <2>2, <2>4, <2>5 DEF TokensArrive
<1>23. EmptyIsTold'
  BY <1>4, <1>5, <1>7 DEF EmptyIsTold
<1> QED BY <1>19, <1>20, <1>21, <1>22, <1>23 DEF WebInv

-----------------------------------------------------------------------------
\* What an answer may do to the tabs: those that show a session afterwards have
\* been told, or did so before, unless the answer signs in.
SignsIn(q) == q.answer = "ok" /\ q.kind \in {"me", "login", "password"}
ShowsNoMore(q, later) ==
  /\ later \in [Tabs -> Tab]
  /\ q.kind = "logout" => \A t \in Tabs : later[t].status = "in" => later[t].told
  /\ q.kind # "logout" /\ ~SignsIn(q) =>
       \A t \in Tabs : later[t].status = "in" => tabs[t].status = "in" /\ later[t].told = tabs[t].told

LEMMA TabParts ==
  ASSUME NEW tab \in Tab
  PROVE  /\ SignedOut(tab) \in Tab /\ SignedOut(tab).status = "out"
         /\ \A access \in Nat : SignedIn(tab, access) \in Tab
         /\ [tab EXCEPT !.attempt = 0] \in Tab /\ [tab EXCEPT !.attempt = 0].status = tab.status
<1>1. SignedOut(tab) \in Tab /\ SignedOut(tab).status = "out"
  BY DEF Tab, SignedOut
<1>2. \A access \in Nat : SignedIn(tab, access) \in Tab
  BY DEF Tab, SignedIn
<1>3. [tab EXCEPT !.attempt = 0] \in Tab /\ [tab EXCEPT !.attempt = 0].status = tab.status
  BY DEF Tab, BootstrapAttempts
<1> QED BY <1>1, <1>2, <1>3

\* u is the tab told, or not.
Told(u, tab, b) == u = [tab EXCEPT !.told = b] /\ tab \in Tab /\ b \in BOOLEAN
LEMMA ToldParts ==
  ASSUME NEW tab, NEW b, NEW u, Told(u, tab, b)
  PROVE  u \in Tab /\ u.status = tab.status /\ u.told = b
<1>0. u = [tab EXCEPT !.told = b] /\ tab \in Tab /\ b \in BOOLEAN
  BY DEF Told
<1>1. u = [status |-> tab.status, access |-> tab.access, attempt |-> tab.attempt, told |-> b]
  BY <1>0 DEF Tab
<1>2. tab.status \in {"idle", "loading", "in", "out"} /\ tab.access \in Nat /\ tab.attempt \in 0..BootstrapAttempts
  BY <1>0 DEF Tab
<1>3. u \in Tab
  BY <1>0, <1>1, <1>2 DEF Tab
<1> QED BY <1>1, <1>3

\* The tab after an answer in bootstrap().
BootstrapsTo(later, tab, q) ==
  /\ later \in Tab
  /\ q.answer # "ok" => later.status = "out" \/ (later.status = tab.status /\ later.told = tab.told)

LEMMA BootstrappedIs ==
  ASSUME NEW tab \in Tab, NEW q \in Request
  PROVE  BootstrapsTo(Bootstrapped(tab, q), tab, q)
<1>1. q.fresh \in Nat
  BY DEF Request
<1>2. CASE q.answer = "ok"
  <2>1. PICK in : in = SignedIn(tab, q.fresh)
    OBVIOUS
  <2>2. in \in Tab
    BY <1>1, <2>1, TabParts
  <2>3. Bootstrapped(tab, q) = [in EXCEPT !.attempt = 0]
    BY <1>2, <2>1 DEF Bootstrapped
  <2> QED BY <1>2, <2>2, <2>3, TabParts DEF BootstrapsTo
<1>3. CASE q.answer # "ok" /\ q.answer \in {"error", "soft"} /\ tab.attempt < BootstrapAttempts
  <2>1. PICK more : more = [tab EXCEPT !.attempt = @ + 1]
    OBVIOUS
  <2>2. more = Bootstrapped(tab, q)
    BY <1>3, <2>1 DEF Bootstrapped
  <2>3. tab.attempt + 1 \in 0..BootstrapAttempts
    BY <1>3 DEF Tab, BootstrapAttempts
  <2>4. more \in Tab /\ more.status = tab.status /\ more.told = tab.told
    BY <2>1, <2>3 DEF Tab
  <2> QED BY <2>2, <2>4 DEF BootstrapsTo
<1>4. CASE q.answer # "ok" /\ ~(q.answer \in {"error", "soft"} /\ tab.attempt < BootstrapAttempts)
  <2>1. PICK out : out = SignedOut(tab)
    OBVIOUS
  <2>2. out \in Tab /\ out.status = "out"
    BY <2>1, TabParts
  <2>3. Bootstrapped(tab, q) = [out EXCEPT !.attempt = 0]
    BY <1>4, <2>1 DEF Bootstrapped
  <2>4. [out EXCEPT !.attempt = 0] \in Tab /\ [out EXCEPT !.attempt = 0].status = "out"
    BY <2>2, TabParts
  <2> QED BY <2>3, <2>4 DEF BootstrapsTo
<1> QED BY <1>2, <1>3, <1>4

LEMMA AnswerShowsNoMore ==
  ASSUME tabs \in [Tabs -> Tab], NEW q \in Request
  PROVE  ShowsNoMore(q, TabsAfter(q))
<1>1. q.tab \in Tabs /\ q.fresh \in Nat
  BY DEF Request
<1>2. PICK later : later = TabsAfter(q)
  OBVIOUS
<1>3. CASE q.kind = "logout"
  <2>1. later = [t \in Tabs |-> IF t = q.tab THEN SignedOut(tabs[t])
                                ELSE [tabs[t] EXCEPT !.told = tabs[t] # Closed]]
    BY <1>2, <1>3 DEF TabsAfter
  <2>2. ASSUME NEW t \in Tabs
        PROVE  later[t] \in Tab /\ (later[t].status = "in" => later[t].told)
    <3>1. PICK tab \in Tab : tab = tabs[t]
      OBVIOUS
    <3>2. CASE t = q.tab
      <4>1. later[t] = SignedOut(tab)
        BY <2>1, <3>1, <3>2
      <4>2. later[t] \in Tab /\ later[t].status = "out"
        BY <4>1, TabParts
      <4> QED BY <4>2
    <3>3. CASE t # q.tab
      <4>1. PICK b \in BOOLEAN : b <=> tab # Closed
        OBVIOUS
      <4>2. (tabs[t] # Closed) = b
        BY <3>1, <4>1
      <4>3. later[t] = [tab EXCEPT !.told = b]
        BY <2>1, <3>1, <3>3, <4>2
      <4>4. later[t] \in Tab /\ later[t].status = tab.status /\ later[t].told = b
        <5>1. Told(later[t], tab, b)
          BY <4>3, Zenon DEF Told
        <5> QED BY <5>1, ToldParts, Zenon
      <4>5. tab.status = "in" => tab # Closed
        BY DEF Closed
      <4>6. tab.status = "in" => b
        BY <4>1, <4>5
      <4> QED BY <4>4, <4>6, Zenon
    <3> QED BY <3>2, <3>3
  <2>3. later \in [Tabs -> Tab]
    BY <2>1, <2>2
  <2> QED BY <1>2, <1>3, <2>2, <2>3 DEF ShowsNoMore
<1>4. CASE q.kind # "logout"
  <2>1. PICK tab \in Tab : tab = tabs[q.tab]
    BY <1>1
  <2>2. PICK to : to =
          CASE q.kind = "me" -> Bootstrapped(tab, q)
            [] q.kind = "call" /\ q.answer = "ok" /\ q.fresh # 0 -> [tab EXCEPT !.access = q.fresh]
            [] q.kind \in {"login", "password"} /\ q.answer = "ok" -> SignedIn(tab, q.fresh)
            [] OTHER -> tab
    OBVIOUS
  <2>3. later = [tabs EXCEPT ![q.tab] = to]
    BY <1>2, <1>4, <2>1, <2>2 DEF TabsAfter
  <2>4. /\ to \in Tab
        /\ ~SignsIn(q) => to.status = "out" \/ (to.status = tab.status /\ to.told = tab.told)
    <3>1. CASE q.kind = "me"
      <4>1. to = Bootstrapped(tab, q)
        BY <2>2, <3>1
      <4>2. BootstrapsTo(to, tab, q)
        BY <4>1, BootstrappedIs
      <4> QED BY <3>1, <4>2 DEF BootstrapsTo, SignsIn
    <3>2. CASE q.kind = "call" /\ q.answer = "ok" /\ q.fresh # 0
      <4>1. to = [tab EXCEPT !.access = q.fresh]
        BY <2>2, <3>2
      <4> QED BY <1>1, <4>1 DEF Tab
    <3>3. CASE q.kind \in {"login", "password"} /\ q.answer = "ok"
      <4>1. to = SignedIn(tab, q.fresh)
        BY <2>2, <3>3
      <4> QED BY <1>1, <3>3, <4>1, TabParts DEF SignsIn
    <3>4. CASE /\ q.kind # "me" /\ ~(q.kind = "call" /\ q.answer = "ok" /\ q.fresh # 0)
               /\ ~(q.kind \in {"login", "password"} /\ q.answer = "ok")
      <4>1. to = tab
        BY <2>2, <3>4
      <4> QED BY <4>1
    <3> QED BY <3>1, <3>2, <3>3, <3>4
  <2>5. later \in [Tabs -> Tab] /\ later[q.tab] = to /\ \A t \in Tabs : t # q.tab => later[t] = tabs[t]
    BY <1>1, <2>3, <2>4
  <2>6. ASSUME ~SignsIn(q), NEW t \in Tabs, later[t].status = "in"
        PROVE  tabs[t].status = "in" /\ later[t].told = tabs[t].told
    <3>1. CASE t = q.tab
      BY <2>1, <2>4, <2>5, <2>6, <3>1
    <3>2. CASE t # q.tab
      BY <2>5, <2>6, <3>2
    <3> QED BY <3>1, <3>2
  <2> QED BY <1>2, <1>4, <2>5, <2>6 DEF ShowsNoMore
<1> QED BY <1>3, <1>4

-----------------------------------------------------------------------------
\* The tabs go on, and perhaps give some requests up.
TabsMove(gone) ==
  /\ gone \subseteq Open
  /\ reqs' = [s \in Slots |-> IF s \in gone THEN [reqs[s] EXCEPT !.wanted = FALSE] ELSE reqs[s]]
  /\ tabs' \in [Tabs -> Tab] /\ EmptyIsTold'
  /\ jar' \in [tok : Nat, mark : BOOLEAN] /\ jar'.tok = jar.tok
  /\ history' \in Histories /\ history'.top = history.top /\ history'.lapses = history.lapses
  /\ inFlight' = inFlight /\ account' = account

\* p is q, but perhaps given up.
SameButWanted(p, q) ==
  /\ p \in Request /\ p.tok = q.tok /\ p.next = q.next /\ p.setTok = q.setTok /\ p.phase = q.phase
  /\ p.kind = q.kind /\ p.answer = q.answer /\ p.refresh = q.refresh /\ p.marked = q.marked
  /\ p.leader = q.leader

LEMMA TabMoves ==
  ASSUME WebInv, NEW gone, TabsMove(gone)
  PROVE  WebInv'
<1>1. /\ WebTyped /\ FlightsLed /\ TokensArrive
      /\ \A s \in Open : RequestSound(reqs[s], account, history.lapses)
  BY DEF WebInv
<1>2. /\ gone \subseteq Open
      /\ reqs' = [s \in Slots |-> IF s \in gone THEN [reqs[s] EXCEPT !.wanted = FALSE] ELSE reqs[s]]
      /\ tabs' \in [Tabs -> Tab] /\ EmptyIsTold'
      /\ jar' \in [tok : Nat, mark : BOOLEAN] /\ jar'.tok = jar.tok
      /\ history' \in Histories /\ history'.top = history.top /\ history'.lapses = history.lapses
      /\ inFlight' = inFlight /\ account' = account
  BY DEF TabsMove
<1>3. \A s \in Open : s \in Slots /\ reqs[s] \in Request
  BY <1>1 DEF WebTyped, Open
<1>4. ASSUME NEW s \in Open PROVE SameButWanted(reqs'[s], reqs[s])
  <2>1. PICK q \in Request : q = reqs[s]
    BY <1>3
  <2>2. CASE s \in gone
    <3>1. PICK p : p = [q EXCEPT !.wanted = FALSE]
      OBVIOUS
    <3>2. FALSE \in BOOLEAN
      OBVIOUS
    <3>3. p \in Request
      BY <3>1, <3>2 DEF Request
    <3>4. reqs'[s] = p
      BY <1>2, <1>3, <2>1, <2>2, <3>1
    <3>5. SameButWanted(p, q)
      BY <3>1, <3>3 DEF SameButWanted, Request
    <3> QED BY <2>1, <3>4, <3>5
  <2>3. CASE s \notin gone
    <3>1. reqs'[s] = q
      BY <1>2, <1>3, <2>1, <2>3
    <3> QED BY <2>1, <3>1 DEF SameButWanted
  <2> QED BY <2>2, <2>3
<1>5. \A s \in Slots : s \notin Open => reqs'[s] = NoRequest
  BY <1>2 DEF Open
<1>6. Open' = Open
  <2>1. ASSUME NEW s \in Open PROVE reqs'[s] # NoRequest
    BY <1>4, RequestsAre DEF SameButWanted, IsRequest
  <2> QED BY <1>3, <1>5, <2>1 DEF Open
<1>7. WebTyped'
  <2>1. ASSUME NEW s \in Slots PROVE reqs'[s] \in Request \cup {NoRequest}
    BY <1>4, <1>5 DEF SameButWanted
  <2>2. PICK g : g = [s \in Slots |-> IF s \in gone THEN [reqs[s] EXCEPT !.wanted = FALSE] ELSE reqs[s]]
    OBVIOUS
  <2>3. g = [s \in Slots |-> g[s]] /\ reqs' = g
    BY <1>2, <2>2
  <2>4. reqs' \in [Slots -> Request \cup {NoRequest}]
    BY <2>1, <2>3
  <2>5. jar'.tok <= account'.issued /\ history'.top <= account'.issued
    BY <1>1, <1>2 DEF WebTyped
  <2> QED BY <1>1, <1>2, <2>4, <2>5 DEF WebTyped
<1>8. \A s \in Open' : RequestSound(reqs'[s], account', history'.lapses)
  <2>1. ASSUME NEW s \in Open PROVE RequestSound(reqs'[s], account, history.lapses)
    <3>1. PICK p : p = reqs'[s]
      OBVIOUS
    <3>2. PICK q : q = reqs[s]
      OBVIOUS
    <3>3. SameButWanted(p, q) /\ RequestSound(q, account, history.lapses)
      BY <1>1, <1>4, <3>1, <3>2
    <3>4. RequestSound(p, account, history.lapses)
      BY <3>3 DEF SameButWanted, RequestSound
    <3> QED BY <3>1, <3>4
  <2> QED BY <1>2, <1>6, <2>1
<1>9. FlightsLed'
  <2>1. \A s \in Open : /\ reqs'[s].phase = reqs[s].phase /\ reqs'[s].tok = reqs[s].tok
                        /\ reqs'[s].leader = reqs[s].leader /\ reqs'[s].refresh = reqs[s].refresh
    BY <1>4 DEF SameButWanted
  <2>2. ASSUME NEW s \in Open', reqs'[s].phase = "flight"
        PROVE  /\ reqs'[s].tok \in DOMAIN inFlight' /\ inFlight'[reqs'[s].tok] = reqs'[s].leader
               /\ reqs'[s].refresh # "none" <=> reqs'[s].leader = s
    BY <1>1, <1>2, <1>6, <2>1, <2>2 DEF FlightsLed
  <2>3. ASSUME NEW k \in DOMAIN inFlight'
        PROVE  /\ inFlight'[k] \in Open' /\ reqs'[inFlight'[k]].phase = "flight"
               /\ reqs'[inFlight'[k]].leader = inFlight'[k] /\ reqs'[inFlight'[k]].tok = k
    <3>1. PICK s : s = inFlight[k]
      OBVIOUS
    <3>2. s \in Open /\ reqs[s].phase = "flight" /\ reqs[s].leader = s /\ reqs[s].tok = k
      BY <1>1, <1>2, <3>1 DEF FlightsLed
    <3>3. inFlight'[k] = s
      BY <1>2, <3>1
    <3> QED BY <1>6, <2>1, <3>2, <3>3
  <2> QED BY <2>2, <2>3 DEF FlightsLed
<1>10. TokensArrive'
  <2>1. \A s \in Open : reqs'[s].setTok = reqs[s].setTok /\ reqs'[s].next = reqs[s].next
    BY <1>4 DEF SameButWanted
  <2>2. SUFFICES ASSUME history'.lapses = {}
                 PROVE  /\ \/ account'.issued <= history'.top
                           \/ \E s \in Open' : account'.issued \in {reqs'[s].setTok, reqs'[s].next}
                        /\ jar'.tok \in {0, history'.top}
    BY DEF TokensArrive
  <2>3. /\ account.issued <= history.top \/ \E s \in Open : account.issued \in {reqs[s].setTok, reqs[s].next}
        /\ jar.tok \in {0, history.top}
    BY <1>1, <1>2, <2>2 DEF TokensArrive
  <2> QED BY <1>2, <1>6, <2>1, <2>3
<1> QED BY <1>2, <1>7, <1>8, <1>9, <1>10 DEF WebInv

LEMMA GivenUpMoves ==
  ASSUME WebInv, NEW r \in Open, GiveUp(r)
  PROVE  WebInv'
<1>1. /\ reqs \in [Slots -> Request \cup {NoRequest}] /\ tabs \in [Tabs -> Tab] /\ history \in Histories
      /\ jar \in [tok : Nat, mark : BOOLEAN] /\ EmptyIsTold
  BY DEF WebInv, WebTyped
<1>2. PICK q \in Request : q = reqs[r]
  BY <1>1 DEF Open
<1>3. PICK p : p = [q EXCEPT !.answer = "error"]
  OBVIOUS
<1>4. p \in Request /\ ~SignsIn(p)
  BY <1>3 DEF Request, SignsIn
<1>5. tabs' = TabsAfter(p)
  BY <1>2, <1>3 DEF GiveUp
<1>6. ShowsNoMore(p, tabs')
  BY <1>1, <1>4, <1>5, AnswerShowsNoMore
<1>7. /\ reqs' = [reqs EXCEPT ![r].wanted = FALSE] /\ jar' = jar /\ inFlight' = inFlight /\ account' = account
      /\ history' = [history EXCEPT !.givenUp = @ + 1]
  BY DEF GiveUp
<1>8. /\ history' \in Histories /\ history'.top = history.top /\ history'.lapses = history.lapses
      /\ history'.ended = history.ended
  BY <1>1, <1>7 DEF Histories
<1>9. EmptyIsTold'
  <2>1. SUFFICES ASSUME jar'.tok = 0, ~history'.ended, NEW t \in Tabs, tabs'[t].status = "in"
                 PROVE  tabs'[t].told
    BY DEF EmptyIsTold
  <2>2. jar.tok = 0 /\ ~history.ended
    BY <1>7, <1>8, <2>1
  <2>3. tabs[t].status = "in" => tabs[t].told
    BY <1>1, <2>2 DEF EmptyIsTold
  <2> QED BY <1>4, <1>6, <2>1, <2>3 DEF ShowsNoMore
<1>10. PICK gone : gone = {r}
  OBVIOUS
<1>11. reqs' = [s \in Slots |-> IF s \in gone THEN [reqs[s] EXCEPT !.wanted = FALSE] ELSE reqs[s]]
  BY <1>1, <1>7, <1>10
<1>12. tabs' \in [Tabs -> Tab] /\ gone \subseteq Open
  BY <1>6, <1>10 DEF ShowsNoMore
<1>13. TabsMove(gone)
  BY <1>1, <1>7, <1>8, <1>9, <1>11, <1>12 DEF TabsMove
<1> QED BY <1>13, TabMoves

LEMMA LoadMoves ==
  ASSUME WebInv, NEW t \in Tabs, LoadPage(t)
  PROVE  WebInv'
<1>1. /\ tabs \in [Tabs -> Tab] /\ history \in Histories
      /\ jar \in [tok : Nat, mark : BOOLEAN] /\ EmptyIsTold
  BY DEF WebInv, WebTyped
<1>2. /\ tabs' = [tabs EXCEPT ![t] = Loading] /\ jar' = jar /\ inFlight' = inFlight /\ account' = account
      /\ history' = [history EXCEPT !.loads = @ + 1]
  BY DEF LoadPage
<1>3. /\ history' \in Histories /\ history'.top = history.top /\ history'.lapses = history.lapses
      /\ history'.ended = history.ended
  BY <1>1, <1>2 DEF Histories
<1>4. Loading \in Tab /\ Loading.status # "in"
  BY DEF Loading, Tab, BootstrapAttempts
<1>5. tabs' \in [Tabs -> Tab] /\ \A u \in Tabs : tabs'[u].status = "in" => tabs'[u] = tabs[u]
  BY <1>1, <1>2, <1>4
<1>6. EmptyIsTold'
  BY <1>1, <1>2, <1>3, <1>5 DEF EmptyIsTold
<1>7. PICK gone : gone = {r \in Open : reqs[r].tab = t}
  OBVIOUS
<1>8. reqs' = [s \in Slots |-> IF s \in gone THEN [reqs[s] EXCEPT !.wanted = FALSE] ELSE reqs[s]]
  BY <1>7 DEF LoadPage
<1>9. TabsMove(gone)
  BY <1>1, <1>2, <1>3, <1>5, <1>6, <1>7, <1>8 DEF TabsMove
<1> QED BY <1>9, TabMoves

LEMMA RequestsKept ==
  ASSUME WebInv, reqs' = reqs, tabs' \in [Tabs -> Tab], EmptyIsTold',
         jar' \in [tok : Nat, mark : BOOLEAN], jar'.tok = jar.tok, UNCHANGED <<history, inFlight, account>>
  PROVE  WebInv'
<1>1. PICK gone : gone = {}
  OBVIOUS
<1>2. reqs' = [s \in Slots |-> IF s \in gone THEN [reqs[s] EXCEPT !.wanted = FALSE] ELSE reqs[s]]
  BY <1>1 DEF WebInv, WebTyped
<1>3. history \in Histories
  BY DEF WebInv, WebTyped
<1>4. TabsMove(gone)
  BY <1>1, <1>2, <1>3 DEF TabsMove
<1> QED BY <1>4, TabMoves

LEMMA HeardMoves ==
  ASSUME WebInv, NEW t \in Tabs, HearLogout(t)
  PROVE  WebInv'
<1>1. tabs \in [Tabs -> Tab] /\ jar \in [tok : Nat, mark : BOOLEAN] /\ EmptyIsTold
  BY DEF WebInv, WebTyped
<1>2. /\ tabs' = [tabs EXCEPT ![t] = [SignedOut(@) EXCEPT !.told = FALSE]]
      /\ reqs' = reqs /\ jar' = jar /\ history' = history /\ UNCHANGED <<history, inFlight, account>>
  BY DEF HearLogout
<1>3. PICK tab \in Tab : tab = tabs[t]
  BY <1>1
<1>4. PICK out : out = SignedOut(tab)
  OBVIOUS
<1>5. out \in Tab /\ out.status = "out"
  BY <1>4, TabParts
<1>6. PICK heard : heard = [out EXCEPT !.told = FALSE]
  OBVIOUS
<1>7. Told(heard, out, FALSE)
  BY <1>5, <1>6 DEF Told
<1>8. heard \in Tab /\ heard.status = "out"
  BY <1>5, <1>7, ToldParts
<1>9. tabs' = [tabs EXCEPT ![t] = heard]
  BY <1>2, <1>3, <1>4, <1>6
<1>10. tabs' \in [Tabs -> Tab] /\ \A u \in Tabs : tabs'[u].status = "in" => tabs'[u] = tabs[u]
  BY <1>1, <1>8, <1>9
<1>11. EmptyIsTold'
  BY <1>1, <1>2, <1>10 DEF EmptyIsTold
<1> QED BY <1>1, <1>2, <1>10, <1>11, RequestsKept

LEMMA MarkerMoves ==
  ASSUME WebInv, MarkerExpires
  PROVE  WebInv'
<1>1. tabs \in [Tabs -> Tab] /\ jar \in [tok : Nat, mark : BOOLEAN] /\ EmptyIsTold
  BY DEF WebInv, WebTyped
<1>2. /\ jar' = [jar EXCEPT !.mark = FALSE] /\ tabs' = tabs
      /\ reqs' = reqs /\ history' = history /\ UNCHANGED <<history, inFlight, account>>
  BY DEF MarkerExpires
<1>3. jar' \in [tok : Nat, mark : BOOLEAN] /\ jar'.tok = jar.tok
  BY <1>1, <1>2
<1>4. EmptyIsTold'
  BY <1>1, <1>2, <1>3 DEF EmptyIsTold
<1> QED BY <1>1, <1>2, <1>3, <1>4, RequestsKept

-----------------------------------------------------------------------------
\* A request that is done leaves; what its answer did is in jar', tabs' and history'.
Leaving(r, q) ==
  /\ q.phase = "done" /\ reqs' = [reqs EXCEPT ![r] = NoRequest] /\ inFlight' = inFlight /\ account' = account
  /\ tabs' \in [Tabs -> Tab] /\ EmptyIsTold'
  /\ jar' \in [tok : Nat, mark : BOOLEAN] /\ jar'.tok <= account.issued
  /\ history' \in Histories /\ history'.top <= account.issued /\ history.lapses \subseteq history'.lapses
  /\ history'.lapses = {} =>
       /\ history.top <= history'.top /\ q.setTok <= history'.top /\ q.next <= history'.top
       /\ jar'.tok \in {0, history'.top}

LEMMA RequestLeaves ==
  ASSUME WebInv, NEW r \in Open, NEW q, q = reqs[r], Leaving(r, q)
  PROVE  WebInv'
<1>1. /\ WebTyped /\ FlightsLed /\ TokensArrive
      /\ \A s \in Open : RequestSound(reqs[s], account, history.lapses)
  BY DEF WebInv
<1>2. /\ q.phase = "done" /\ reqs' = [reqs EXCEPT ![r] = NoRequest] /\ inFlight' = inFlight /\ account' = account
      /\ tabs' \in [Tabs -> Tab] /\ EmptyIsTold'
      /\ jar' \in [tok : Nat, mark : BOOLEAN] /\ jar'.tok <= account.issued
      /\ history' \in Histories /\ history'.top <= account.issued /\ history.lapses \subseteq history'.lapses
  BY DEF Leaving
<1>3. /\ reqs' \in [Slots -> Request \cup {NoRequest}] /\ r \in Slots /\ reqs'[r] = NoRequest
      /\ \A s \in Slots : s # r => reqs'[s] = reqs[s]
  BY <1>1, <1>2 DEF WebTyped, Open
<1>4. Open' = Open \ {r}
  BY <1>3 DEF Open
<1>5. \A s \in Open : s \in Slots /\ reqs[s] \in Request
  BY <1>1 DEF WebTyped, Open
<1>6. WebTyped'
  <2>1. /\ account' \in Accounts /\ account'.good \subseteq 1..account'.issued
        /\ DOMAIN inFlight' \subseteq 1..account'.issued /\ inFlight' \in [DOMAIN inFlight' -> Slots]
    BY <1>1, <1>2 DEF WebTyped
  <2>2. jar'.tok <= account'.issued /\ history'.top <= account'.issued
    BY <1>2
  <2> QED BY <1>2, <1>3, <2>1, <2>2 DEF WebTyped
<1>7. \A s \in Open' : RequestSound(reqs'[s], account', history'.lapses)
  <2>1. ASSUME NEW s \in Open PROVE RequestSound(reqs[s], account, history'.lapses)
    <3>1. PICK p \in Request : p = reqs[s]
      BY <1>5
    <3>2. RequestSound(p, account, history.lapses) /\ account \in Accounts
      BY <1>1, <3>1 DEF WebTyped
    <3> QED BY <1>2, <3>1, <3>2, SameAccount, StaysSound
  <2> QED BY <1>2, <1>3, <1>4, <1>5, <2>1
<1>8. FlightsLed'
  <2>1. ASSUME NEW s \in Open', reqs'[s].phase = "flight"
        PROVE  /\ reqs'[s].tok \in DOMAIN inFlight' /\ inFlight'[reqs'[s].tok] = reqs'[s].leader
               /\ reqs'[s].refresh # "none" <=> reqs'[s].leader = s
    <3>1. s \in Open /\ reqs'[s] = reqs[s]
      BY <1>3, <1>4, <1>5
    <3> QED BY <1>1, <1>2, <2>1, <3>1 DEF FlightsLed
  <2>2. ASSUME NEW k \in DOMAIN inFlight'
        PROVE  /\ inFlight'[k] \in Open' /\ reqs'[inFlight'[k]].phase = "flight"
               /\ reqs'[inFlight'[k]].leader = inFlight'[k] /\ reqs'[inFlight'[k]].tok = k
    <3>1. PICK s : s = inFlight[k]
      OBVIOUS
    <3>2. s \in Open /\ reqs[s].phase = "flight" /\ reqs[s].leader = s /\ reqs[s].tok = k
      BY <1>1, <1>2, <3>1 DEF FlightsLed
    <3>3. s # r
      BY <1>2, <3>2
    <3>4. s \in Open' /\ reqs'[s] = reqs[s]
      BY <1>3, <1>4, <1>5, <3>2, <3>3
    <3> QED BY <1>2, <3>1, <3>2, <3>4
  <2> QED BY <2>1, <2>2 DEF FlightsLed
<1>9. TokensArrive'
  <2>1. SUFFICES ASSUME history'.lapses = {}
                 PROVE  /\ \/ account'.issued <= history'.top
                           \/ \E s \in Open' : account'.issued \in {reqs'[s].setTok, reqs'[s].next}
                        /\ jar'.tok \in {0, history'.top}
    BY DEF TokensArrive
  <2>2. /\ history.top <= history'.top /\ q.setTok <= history'.top /\ q.next <= history'.top
        /\ jar'.tok \in {0, history'.top}
    BY <2>1 DEF Leaving
  <2>3. /\ account.issued <= history.top \/ \E s \in Open : account.issued \in {reqs[s].setTok, reqs[s].next}
    BY <1>1, <1>2, <2>1 DEF TokensArrive
  <2>4. account.issued \in Nat /\ history.top \in Nat /\ history'.top \in Nat
    BY <1>1, <1>2 DEF WebTyped, Accounts, Histories
  <2>5. CASE account.issued <= history.top
    BY <1>2, <2>2, <2>4, <2>5
  <2>6. CASE \E s \in Open : account.issued \in {reqs[s].setTok, reqs[s].next}
    <3>1. PICK s \in Open : account.issued \in {reqs[s].setTok, reqs[s].next}
      BY <2>6
    <3>2. CASE s = r
      BY <1>2, <2>2, <3>1, <3>2
    <3>3. CASE s # r
      BY <1>2, <1>3, <1>4, <1>5, <2>2, <3>1, <3>3
    <3> QED BY <3>2, <3>3
  <2> QED BY <2>3, <2>5, <2>6
<1> QED BY <1>2, <1>6, <1>7, <1>8, <1>9 DEF WebInv

LEMMA ReceivedMoves ==
  ASSUME WebInv, NEW r \in Open, BrowserReceives(r)
  PROVE  WebInv'
<1>1. PICK q : q = reqs[r]
  OBVIOUS
<1>2. OpenRequest(r, q)
  BY <1>1, OpenRequests
<1>3. /\ q \in Request /\ q.phase = "done" /\ q.next \in Nat /\ q.setTok \in Int
      /\ q.setTok \in {Keep} \cup Nat /\ q.next <= account.issued /\ q.setTok <= account.issued
      /\ (q.setTok > 0 => q.next <= q.setTok)
      /\ (q.setTok = 0 => q.kind = "logout" \/ q.answer = "hard")
      /\ (q.setTok = Keep /\ q.next # 0 => history.lapses # {})
      /\ (SignsIn(q) => q.setTok > 0)
      /\ account.issued \in Nat /\ account.issued # 0
  BY <1>1, <1>2 DEF OpenRequest, RequestSound, BrowserReceives, Keep, SignsIn
<1>4. /\ tabs \in [Tabs -> Tab] /\ jar \in [tok : Nat, mark : BOOLEAN] /\ jar.tok <= account.issued
      /\ history \in Histories /\ history.top <= account.issued /\ EmptyIsTold
      /\ (history.lapses = {} => jar.tok \in {0, history.top})
  BY DEF WebInv, WebTyped, TokensArrive
<1>5. history.top \in Nat /\ history.ended \in BOOLEAN
  BY <1>4 DEF Histories
<1>6. reqs' = [reqs EXCEPT ![r] = NoRequest] /\ inFlight' = inFlight /\ account' = account
  BY DEF BrowserReceives
<1>7. CASE q.wanted
  <2>1. /\ jar' = [tok |-> IF q.setTok = Keep THEN jar.tok ELSE q.setTok,
                   mark |-> IF q.setMark = "keep" THEN jar.mark ELSE q.setMark = "set"]
        /\ tabs' = TabsAfter(q)
        /\ history' = [history EXCEPT
             !.ended = @ \/ q.answer = "hard",
             !.top = Greatest({@, q.setTok, q.next}),
             !.lapses = IF 0 < q.setTok /\ q.setTok < history.top THEN @ \cup {"late"} ELSE @]
    BY <1>1, <1>7 DEF BrowserReceives
  <2>2. PICK tok : tok = IF q.setTok = Keep THEN jar.tok ELSE q.setTok
    OBVIOUS
  <2>3. tok \in Nat /\ tok <= account.issued
    BY <1>3, <1>4, <2>2 DEF Keep
  <2>4. PICK mark \in BOOLEAN : mark <=> IF q.setMark = "keep" THEN jar.mark ELSE q.setMark = "set"
    OBVIOUS
  <2>5. mark = IF q.setMark = "keep" THEN jar.mark ELSE q.setMark = "set"
    BY <1>4, <2>4
  <2>6. jar' = [tok |-> tok, mark |-> mark]
    BY <2>1, <2>2, <2>5
  <2>7. jar' \in [tok : Nat, mark : BOOLEAN] /\ jar'.tok = tok
    BY <2>3, <2>6
  <2>8. PICK top : top = Greatest({history.top, q.setTok, q.next})
    OBVIOUS
  <2>9. top \in {history.top, q.setTok, q.next} /\ history.top <= top /\ q.setTok <= top /\ q.next <= top
    <3>1. history.top \in Int /\ q.setTok \in Int /\ q.next \in Int
      BY <1>3, <1>5
    <3>2. Tops(Greatest({history.top, q.setTok, q.next}), history.top, q.setTok, q.next)
      BY <3>1, GreatestOf, Zenon
    <3> QED BY <2>8, <3>2 DEF Tops
  <2>10. top \in Nat /\ top <= account.issued
    BY <1>3, <1>4, <1>5, <2>9
  <2>11. PICK ended \in BOOLEAN : ended <=> (history.ended \/ q.answer = "hard")
    OBVIOUS
  <2>12. ended = (history.ended \/ q.answer = "hard")
    BY <2>11
  <2>13. PICK lapses : lapses = IF 0 < q.setTok /\ q.setTok < history.top
                                  THEN history.lapses \cup {"late"} ELSE history.lapses
    OBVIOUS
  <2>14. /\ lapses \in SUBSET {"refresh", "me", "late", "lost"} /\ history.lapses \subseteq lapses
         /\ (lapses = {} => ~(0 < q.setTok /\ q.setTok < history.top))
    BY <1>4, <2>13 DEF Histories
  <2>15. history' = [history EXCEPT !.ended = ended, !.top = top, !.lapses = lapses]
    BY <1>4, <2>1, <2>8, <2>12, <2>13 DEF Histories
  <2>16. /\ history' \in Histories /\ history'.top = top /\ history'.lapses = lapses
         /\ history'.ended = ended
    BY <1>4, <2>10, <2>11, <2>14, <2>15 DEF Histories
  <2>17. ShowsNoMore(q, tabs')
    BY <1>3, <1>4, <2>1, AnswerShowsNoMore
  <2>18. EmptyIsTold'
    <3>1. SUFFICES ASSUME tok = 0, ~ended, NEW t \in Tabs, tabs'[t].status = "in"
                   PROVE  tabs'[t].told
      BY <2>7, <2>16 DEF EmptyIsTold
    <3>2. ~history.ended /\ q.answer # "hard" /\ ~(q.setTok > 0)
      BY <2>2, <2>11, <3>1 DEF Keep
    <3>3. CASE q.kind = "logout"
      BY <2>17, <3>1, <3>3 DEF ShowsNoMore
    <3>4. CASE q.kind # "logout"
      <4>1. q.setTok = Keep
        BY <1>3, <3>2, <3>4
      <4>2. jar.tok = 0
        BY <2>2, <3>1, <4>1
      <4>3. ~SignsIn(q)
        BY <1>3, <3>2
      <4>4. tabs[t].status = "in" /\ tabs'[t].told = tabs[t].told
        BY <2>17, <3>1, <3>4, <4>3 DEF ShowsNoMore
      <4> QED BY <1>4, <3>2, <4>2, <4>4 DEF EmptyIsTold
    <3> QED BY <3>3, <3>4
  <2>19. ASSUME lapses = {} PROVE tok \in {0, top}
    <3>1. history.lapses = {} /\ ~(0 < q.setTok /\ q.setTok < history.top)
      BY <2>14, <2>19
    <3>2. CASE q.setTok = Keep
      BY <1>3, <1>4, <1>5, <2>2, <2>9, <3>1, <3>2 DEF Keep
    <3>3. CASE q.setTok # Keep
      BY <1>3, <1>5, <2>2, <2>9, <3>1, <3>3 DEF Keep
    <3> QED BY <3>2, <3>3
  <2>20. Leaving(r, q)
    <3>1. tabs' \in [Tabs -> Tab]
      BY <2>17 DEF ShowsNoMore
    <3> QED BY <1>3, <1>6, <2>3, <2>7, <2>9, <2>10, <2>14, <2>16, <2>18, <2>19, <3>1 DEF Leaving
  <2> QED BY <1>1, <2>20, RequestLeaves
<1>8. CASE ~q.wanted
  <2>1. /\ history' = IF q.setTok > 0 \/ q.next > 0 THEN [history EXCEPT !.lapses = @ \cup {"lost"}] ELSE history
        /\ jar' = jar /\ tabs' = tabs
    BY <1>1, <1>8 DEF BrowserReceives
  <2>2. /\ history' \in Histories /\ history'.top = history.top /\ history'.ended = history.ended
        /\ history.lapses \subseteq history'.lapses
        /\ (history'.lapses = {} => ~(q.setTok > 0 \/ q.next > 0))
    BY <1>4, <2>1 DEF Histories
  <2>3. EmptyIsTold'
    BY <1>4, <2>1, <2>2 DEF EmptyIsTold
  <2>4. ASSUME history'.lapses = {}
        PROVE  /\ history.top <= history'.top /\ q.setTok <= history'.top /\ q.next <= history'.top
               /\ jar'.tok \in {0, history'.top}
    <3>1. history.lapses = {} /\ ~(q.setTok > 0) /\ ~(q.next > 0)
      BY <2>2, <2>4
    <3> QED BY <1>3, <1>4, <1>5, <2>1, <2>2, <3>1 DEF Keep
  <2>5. Leaving(r, q)
    BY <1>3, <1>4, <1>6, <2>1, <2>2, <2>3, <2>4 DEF Leaving
  <2> QED BY <1>1, <2>5, RequestLeaves
<1> QED BY <1>7, <1>8

-----------------------------------------------------------------------------
LEMMA WebStarts == WebInit => WebInv
<1> SUFFICES ASSUME WebInit PROVE WebInv
  OBVIOUS
<1>1. /\ tabs = [t \in Tabs |-> Closed] /\ reqs = [r \in Slots |-> NoRequest]
      /\ inFlight = [k \in {} |-> 0]
      /\ history = [top |-> 1, lapses |-> {}, ended |-> FALSE, loads |-> 0, asks |-> 0, givenUp |-> 0]
      /\ account = [issued |-> 1, good |-> {1}, version |-> 1]
  BY DEF WebInit
<1>2. PICK tok \in {0, 1} : jar = [tok |-> tok, mark |-> FALSE]
  BY DEF WebInit
<1>3. jar \in [tok : Nat, mark : BOOLEAN] /\ jar.tok \in {0, 1}
  BY <1>2
<1>4. Closed \in Tab /\ Closed.status # "in"
  BY DEF Closed, Tab, BootstrapAttempts
<1>5. tabs \in [Tabs -> Tab] /\ \A t \in Tabs : tabs[t].status # "in"
  BY <1>1, <1>4
<1>6. reqs \in [Slots -> Request \cup {NoRequest}] /\ Open = {}
  BY <1>1 DEF Open
<1>7. /\ account \in Accounts /\ account.issued = 1 /\ account.good \subseteq 1..account.issued
  BY <1>1 DEF Accounts
<1>8. history \in Histories /\ history.top = 1
  BY <1>1 DEF Histories
<1>9. DOMAIN inFlight = {} /\ inFlight \in [DOMAIN inFlight -> Slots]
  BY <1>1
<1>10. WebTyped
  BY <1>3, <1>5, <1>6, <1>7, <1>8, <1>9 DEF WebTyped
<1>11. FlightsLed
  BY <1>6, <1>9 DEF FlightsLed
<1>12. TokensArrive
  BY <1>3, <1>7, <1>8 DEF TokensArrive
<1>13. EmptyIsTold
  BY <1>5 DEF EmptyIsTold
<1> QED BY <1>6, <1>10, <1>11, <1>12, <1>13 DEF WebInv

LEMMA WebSteps == WebInv /\ [WebNext]_webVars => WebInv'
<1> SUFFICES ASSUME WebInv, [WebNext]_webVars PROVE WebInv'
  OBVIOUS
<1>1. ASSUME NEW t \in Tabs, Bootstrap(t) PROVE WebInv'
  BY <1>1, BootstrapMoves
<1>2. ASSUME NEW t \in Tabs, LoadPage(t) PROVE WebInv'
  BY <1>2, LoadMoves
<1>3. ASSUME NEW t \in Tabs, HearLogout(t) PROVE WebInv'
  BY <1>3, HeardMoves
<1>4. ASSUME NEW t \in Tabs, NEW kind \in {"call", "login", "logout", "password"}, Ask(t, kind) PROVE WebInv'
  BY <1>4, AskMoves
<1>5. ASSUME NEW r \in Slots, GatewayTakes(r) PROVE WebInv'
  <2>1. r \in Open
    BY <1>5 DEF GatewayTakes
  <2> QED BY <1>5, <2>1, RequestTakenMoves
<1>6. ASSUME NEW r \in Slots, UpstreamAnswers(r) PROVE WebInv'
  <2>1. r \in Open
    BY <1>6 DEF UpstreamAnswers
  <2> QED BY <1>6, <2>1, UpstreamMoves
<1>7. ASSUME NEW r \in Slots, RefreshServed(r) PROVE WebInv'
  <2>1. r \in Open
    BY <1>7 DEF RefreshServed
  <2> QED BY <1>7, <2>1, RefreshMoves
<1>8. ASSUME NEW r \in Slots, RetryAnswers(r) PROVE WebInv'
  <2>1. r \in Open
    BY <1>8 DEF RetryAnswers
  <2> QED BY <1>8, <2>1, RetryMoves
<1>9. ASSUME NEW r \in Slots, BrowserReceives(r) PROVE WebInv'
  <2>1. r \in Open
    BY <1>9 DEF BrowserReceives
  <2> QED BY <1>9, <2>1, ReceivedMoves
<1>10. ASSUME NEW r \in Slots, GiveUp(r) PROVE WebInv'
  <2>1. r \in Open
    BY <1>10 DEF GiveUp
  <2> QED BY <1>10, <2>1, GivenUpMoves
<1>11. ASSUME NEW r \in Slots, NEW result \in {"success", "refused", "transient"}, FlightResolves(r, result)
       PROVE  WebInv'
  <2>1. r \in Open
    BY <1>11 DEF FlightResolves
  <2> QED BY <1>11, <2>1, FlightMoves
<1>12. CASE UNCHANGED webVars
  <2>1. /\ reqs' = reqs /\ tabs' = tabs /\ jar' = jar /\ history' = history
        /\ UNCHANGED <<history, inFlight, account>>
    BY <1>12 DEF webVars
  <2>2. tabs \in [Tabs -> Tab] /\ jar \in [tok : Nat, mark : BOOLEAN] /\ EmptyIsTold
    BY DEF WebInv, WebTyped
  <2>3. EmptyIsTold'
    BY <2>1, <2>2 DEF EmptyIsTold
  <2> QED BY <2>1, <2>2, <2>3, RequestsKept
<1> QED
  BY <1>1, <1>2, <1>3, <1>4, <1>5, <1>6, <1>7, <1>8, <1>9, <1>10, <1>11, <1>12, MarkerMoves DEF WebNext

LEMMA WebIsSound == WebInv => WebSound
<1> SUFFICES ASSUME WebInv PROVE WebSound
  OBVIOUS
<1>1. /\ WebTyped /\ FlightsLed /\ TokensArrive /\ EmptyIsTold
      /\ \A s \in Open : RequestSound(reqs[s], account, history.lapses)
  BY DEF WebInv
<1>2. FlightsAreSingle
  <2>1. SUFFICES ASSUME NEW r \in Open, NEW s \in Open, reqs[r].refresh # "none", reqs[s].refresh # "none",
                        reqs[r].tok = reqs[s].tok
                 PROVE  r = s
    BY DEF FlightsAreSingle
  <2>2. reqs[r].phase = "flight" /\ reqs[s].phase = "flight"
    BY <1>1, <2>1 DEF RequestSound
  <2>3. inFlight[reqs[r].tok] = r /\ inFlight[reqs[s].tok] = s
    BY <1>1, <2>1, <2>2 DEF FlightsLed
  <2> QED BY <2>1, <2>3
<1>3. CookieIsNewest
  <2>1. SUFFICES ASSUME Open = {}, jar.tok # 0, history.lapses = {} PROVE jar.tok = account.issued
    BY DEF CookieIsNewest
  <2>2. account.issued <= history.top /\ jar.tok = history.top
    BY <1>1, <2>1 DEF TokensArrive
  <2>3. history.top <= account.issued /\ history.top \in Nat /\ account.issued \in Nat
    BY <1>1 DEF WebTyped, Histories, Accounts
  <2> QED BY <2>2, <2>3
<1>4. EndIsTrue
  <2>1. SUFFICES ASSUME NEW r \in Open, reqs[r].answer = "hard"
                 PROVE  reqs[r].tok \notin account.good /\ (reqs[r].marked \/ reqs[r].next # 0)
    BY DEF EndIsTrue
  <2> QED BY <1>1, <2>1 DEF RequestSound
<1>5. SignOutIsShared
  BY <1>1 DEF SignOutIsShared, EmptyIsTold
<1> QED BY <1>2, <1>3, <1>4, <1>5 DEF WebSound

LEMMA WebIsTyped == WebInv => WebTypeOK
BY DEF WebInv, WebTyped, WebTypeOK, Tab

\* The invariant holds in every state a browser and its server can reach.
THEOREM WebInvariant == WebSpec => []WebInv
<1>1. WebInit => WebInv
  BY WebStarts
<1>2. WebInv /\ [WebNext]_webVars => WebInv'
  BY WebSteps
<1> QED BY <1>1, <1>2, PTL DEF WebSpec

\* In no behaviour is a token under way to the backend twice; at rest the jar holds
\* the last token issued unless something happened to an answer; the end of a
\* session is said only of a token that is refused; and a sign-out reaches every tab.
THEOREM WebStaysSound == WebSpec => []WebSound
BY WebInvariant, WebIsSound, PTL

\* Cookies, tabs, requests, flights and tokens keep their types.
THEOREM WebStaysTyped == WebSpec => []WebTypeOK
BY WebInvariant, WebIsTyped, PTL
=============================================================================
