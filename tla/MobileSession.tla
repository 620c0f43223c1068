--------------------------- MODULE MobileSession ---------------------------
(***************************************************************************)
(* The signed-in session of the mobile app: the credential lifecycle, the  *)
(* serialized SecureStore queue, single-flight refresh, password rotation, *)
(* the 401 replay of the API client and the close workflow.                *)
(*                                                                         *)
(* JavaScript runs one block between two awaits at a time, so every action *)
(* is such a block together with the promise continuations that follow it  *)
(* before the next native or network callback.  A pair of tokens is one    *)
(* number, handed out by the server in increasing order; 0 is no token.    *)
(* Session generations restart from 0 with the process in the code; here   *)
(* they go on, which no comparison can notice.                             *)
(***************************************************************************)
EXTENDS Naturals, Sequences, FiniteSets

CONSTANTS
  SignIns,      \* the sign-ins the user completes on the login screen
  Callers,      \* API requests that may meet a 401
  MaxTokens,    \* bound: token pairs the server issues
  MaxRestarts,  \* bound: times the process dies and starts again
  MaxWriteFailures  \* bound: SecureStore operations that reject

ASSUME SessionBounds ==
  /\ MaxTokens \in Nat \ {0} /\ MaxRestarts \in Nat /\ MaxWriteFailures \in Nat
  /\ SignIns \cap Callers = {}

VARIABLES
  auth,        \* the module state of authSessionLifecycle.ts
  activities,  \* credential activities that a close must drain
  store,       \* the refresh token SecureStore holds
  queue,       \* the serialized SecureStore writes, head in execution
  flights,     \* the refresh flights
  rotation,    \* ticket of the rotation being persisted
  restore,     \* where the cold-start restore stands
  signin,      \* where each sign-in stands
  change,      \* the password change in progress
  waiter,      \* the API requests
  live,        \* refresh tokens the server accepts
  minted,      \* number of pairs the server has issued
  orphans,     \* history: pairs no revoke can reach
  restarts,    \* restarts so far
  failures     \* rejected SecureStore operations so far

vars == <<auth, activities, store, queue, flights, rotation, restore, signin,
          change, waiter, live, minted, orphans, restarts, failures>>

None == 0
NoTicket == [gen |-> 0, rev |-> 0]
NoPair == [tok |-> None, gen |-> 0, rev |-> 0, seq |-> 0]

-----------------------------------------------------------------------------
(* The lifecycle as functions of its own state.                            *)

Ticket(a) == [gen |-> a.gen, rev |-> a.rev]

Usable(a) == a.phase \in {"opening", "active"}

IsAuthTicketCurrent(a, k) == Usable(a) /\ k = Ticket(a)

SourceTicketIsCurrent(a, k) ==
  IsAuthTicketCurrent(a, k) \/ (a.phase = "closing" /\ k = a.source)

NewerCandidate(c, d) ==
  IF \/ d.tok = None
     \/ /\ c.tok # None
        /\ \/ d.rev < c.rev
           \/ d.rev = c.rev /\ d.seq <= c.seq
  THEN c ELSE d

Candidate(a, k, t) == [tok |-> t, gen |-> k.gen, rev |-> k.rev, seq |-> a.seq + 1]

\* Mutant: a pair that arrives during a close is not handed over.
RecordWithoutHandoff(a, k, t) ==
  IF ~SourceTicketIsCurrent(a, k) THEN a
  ELSE [a EXCEPT !.seq = @ + 1, !.latest = NewerCandidate(@, Candidate(a, k, t))]

RecordCandidate(a, k, t) ==
  IF ~SourceTicketIsCurrent(a, k) THEN a
  ELSE LET c == Candidate(a, k, t) IN
       [a EXCEPT !.seq = @ + 1,
                 !.latest = NewerCandidate(@, c),
                 !.handoff = IF a.phase = "closing" THEN NewerCandidate(@, c) ELSE @]

BeginRotation(a, k, t) ==
  LET rotated == [gen |-> k.gen, rev |-> a.rev + 1] IN
  IF ~SourceTicketIsCurrent(a, k) THEN a
  ELSE RecordCandidate(
         [a EXCEPT !.rev = @ + 1,
                   !.source = IF a.phase = "closing" THEN rotated ELSE @],
         rotated, t)

PublishPair(a, k, t) ==
  IF ~IsAuthTicketCurrent(a, k) THEN a
  ELSE LET c == Candidate(a, k, t) IN
       [a EXCEPT !.seq = @ + 1, !.active = c, !.access = t, !.published = k.rev,
                 !.latest = NewerCandidate(@, c)]

BeginOpening(a) ==
  [a EXCEPT !.gen = @ + 1, !.rev = 0, !.phase = "opening",
            !.access = None, !.published = 0, !.seq = 0,
            !.active = NoPair, !.latest = NoPair,
            !.handoff = NoPair, !.source = NoTicket]

CanActivate(a, k) ==
  /\ a.phase = "opening" /\ k = Ticket(a)
  /\ a.active.tok # None /\ a.active.gen = k.gen /\ a.active.rev = k.rev

Activate(a) == [a EXCEPT !.phase = "active", !.ui = "signedIn"]

\* The synchronous front half of a close; joining a close changes nothing.
BeginClose(a) ==
  IF ~Usable(a) THEN a
  ELSE [a EXCEPT !.source = Ticket(a), !.phase = "closing", !.gen = @ + 1,
                 !.handoff = NewerCandidate(a.active, a.latest),
                 !.access = None, !.published = 0,
                 !.close = "drain", !.ui = "signedOut"]

-----------------------------------------------------------------------------
(* Refresh flights and the requests that wait for them.                    *)

Rotating(rot, k) == rot # NoTicket /\ rot.gen = k.gen

AccessNow(a, k) ==
  IF Usable(a) /\ a.gen = k.gen /\ a.rev >= k.rev THEN a.access ELSE None

\* Mutant: the session is not checked again after the await.
ResumeUnchecked(a, w, v) ==
  IF v # None THEN [w EXCEPT !.pc = "replayed", !.tok = v]
  ELSE [w EXCEPT !.pc = "idle", !.ticket = NoTicket, !.tok = None]

\* The response interceptor after refreshTokens resolved to v.
Resume(a, w, v) ==
  IF v # None /\ IsAuthTicketCurrent(a, w.ticket)
  THEN [w EXCEPT !.pc = "replayed", !.tok = v]
  ELSE [w EXCEPT !.pc = "idle", !.ticket = NoTicket, !.tok = None]

\* What a request does when the flight it joined resolved to v.
AfterFlight(a, rot, w, v) ==
  IF IsAuthTicketCurrent(a, w.ticket) THEN Resume(a, w, v)
  ELSE IF Rotating(rot, w.ticket) THEN [w EXCEPT !.pc = "rotating"]
  ELSE Resume(a, w, AccessNow(a, w.ticket))

\* restore() after its refreshTokens resolved to v: a state and a close.
RestoreAfter(a, v) ==
  IF v # None /\ IsAuthTicketCurrent(a, restore.ticket)
  THEN [restore EXCEPT !.pc = "me"] ELSE [restore EXCEPT !.pc = "done"]

RestoreCloses(a, v) == v = None /\ IsAuthTicketCurrent(a, restore.ticket)

\* Flight f resolves to v and everybody who joined it goes on; hard is a
\* failure that closes the session once the activity has left the registry.
EndFlight(a, rot, f, v, hard) ==
  LET b == IF hard THEN BeginClose(a) ELSE a
      mine == restore.pc = "refresh" /\ restore.ticket = f.ticket
  IN
  /\ flights' = flights \ {f}
  /\ activities' = activities \ {[kind |-> "refresh", gen |-> f.ticket.gen, rev |-> f.ticket.rev]}
  /\ waiter' = [c \in Callers |->
       IF waiter[c].pc = "joined" /\ waiter[c].ticket = f.ticket
       THEN AfterFlight(b, rot, waiter[c], v) ELSE waiter[c]]
  /\ restore' = IF mine THEN RestoreAfter(b, v) ELSE restore
  /\ auth' = IF mine /\ RestoreCloses(b, v) THEN BeginClose(b) ELSE b

\* doRefresh returns accessAfterRotation: at once, or when the rotation ends.
EndSuperseded(a, f) ==
  \/ /\ Rotating(rotation, f.ticket)
     /\ flights' = (flights \ {f}) \cup {[f EXCEPT !.pc = "rotating"]}
     /\ auth' = a
     /\ UNCHANGED <<activities, waiter, restore>>
  \/ /\ ~Rotating(rotation, f.ticket)
     /\ EndFlight(a, rotation, f, AccessNow(a, f.ticket), FALSE)

-----------------------------------------------------------------------------
(* The API client.                                                         *)

\* The request interceptor stamps a request with the credentials it uses.
SendRequest(c) ==
  /\ waiter[c].pc = "idle" /\ Usable(auth) /\ auth.access # None
  /\ waiter' = [waiter EXCEPT ![c] = [pc |-> "sent", ticket |-> Ticket(auth), tok |-> auth.access]]
  /\ UNCHANGED <<auth, activities, store, queue, flights, rotation, restore,
                 signin, change, live, minted, orphans, restarts, failures>>

FlightOf(k) == {f \in flights : f.ticket = k}

\* Mutant: every 401 starts a refresh of its own.
StartFlight(k) ==
  /\ flights' = flights \cup {[ticket |-> k, pc |-> "reading", tok |-> None]}
  /\ activities' = activities \cup {[kind |-> "refresh", gen |-> k.gen, rev |-> k.rev]}

\* refreshTokens(k) for a current ticket: join the flight of k or start it.
JoinFlight(k) ==
  IF FlightOf(k) # {} THEN UNCHANGED <<flights, activities>>
  ELSE /\ flights' = flights \cup {[ticket |-> k, pc |-> "reading", tok |-> None]}
       /\ activities' = activities \cup {[kind |-> "refresh", gen |-> k.gen, rev |-> k.rev]}

\* A 401: refuse a request of an older credential, wait for a rotation of
\* this session, or join the refresh of this very ticket.
Unauthorized(c) ==
  /\ waiter[c].pc = "sent"
  /\ LET k == waiter[c].ticket IN
     \/ /\ ~IsAuthTicketCurrent(auth, k)
        /\ waiter' = [waiter EXCEPT ![c] = Resume(auth, @, None)]
        /\ UNCHANGED <<flights, activities>>
     \/ /\ IsAuthTicketCurrent(auth, k) /\ Rotating(rotation, k)
        /\ waiter' = [waiter EXCEPT ![c].pc = "rotating"]
        /\ UNCHANGED <<flights, activities>>
     \/ /\ IsAuthTicketCurrent(auth, k) /\ ~Rotating(rotation, k)
        /\ waiter' = [waiter EXCEPT ![c].pc = "joined"]
        /\ JoinFlight(k)
  /\ UNCHANGED <<auth, store, queue, rotation, restore, signin, change, live,
                 minted, orphans, restarts, failures>>

\* Any other answer, to the request or to its replay.
Answered(c) ==
  /\ waiter[c].pc \in {"sent", "replayed"}
  /\ waiter' = [waiter EXCEPT ![c] = Resume(auth, @, None)]
  /\ UNCHANGED <<auth, activities, store, queue, flights, rotation, restore,
                 signin, change, live, minted, orphans, restarts, failures>>

-----------------------------------------------------------------------------
(* A refresh flight.                                                       *)

\* SecureStore reads the token; the read is not part of the write queue.
ReadToken(f) ==
  /\ f.pc = "reading"
  /\ flights' = (flights \ {f}) \cup {[f EXCEPT !.pc = "read", !.tok = store]}
  /\ UNCHANGED <<auth, activities, store, queue, rotation, restore, signin,
                 change, waiter, live, minted, orphans, restarts, failures>>

PostRefresh(f) ==
  /\ f.pc = "read"
  /\ \/ /\ ~IsAuthTicketCurrent(auth, f.ticket) /\ EndSuperseded(auth, f)
     \/ /\ IsAuthTicketCurrent(auth, f.ticket) /\ f.tok = None
        /\ EndFlight(auth, rotation, f, None, FALSE)
     \/ /\ IsAuthTicketCurrent(auth, f.ticket) /\ f.tok # None
        /\ flights' = (flights \ {f}) \cup {[f EXCEPT !.pc = "sent"]}
        /\ UNCHANGED <<auth, activities, waiter, restore>>
  /\ UNCHANGED <<store, queue, rotation, signin, change, live, minted, orphans,
                 restarts, failures>>

\* The server rotates a live token and blacklists the one presented.
ServerRefresh(f) ==
  /\ f.pc = "sent"
  /\ \/ /\ f.tok \in live /\ minted < MaxTokens
        /\ minted' = minted + 1
        /\ live' = (live \ {f.tok}) \cup {minted + 1}
        /\ flights' = (flights \ {f}) \cup {[f EXCEPT !.pc = "answered", !.tok = minted + 1]}
     \/ /\ f.tok \notin live
        /\ flights' = (flights \ {f}) \cup {[f EXCEPT !.pc = "refused"]}
        /\ UNCHANGED <<live, minted>>
  /\ UNCHANGED <<auth, activities, store, queue, rotation, restore, signin,
                 change, waiter, orphans, restarts, failures>>

\* The pair arrives: it is recorded for a close before it is persisted.
RefreshAnswered(f) ==
  /\ f.pc = "answered"
  /\ LET a == RecordCandidate(auth, f.ticket, f.tok) IN
     \/ /\ ~SourceTicketIsCurrent(auth, f.ticket) /\ EndSuperseded(auth, f)
        /\ UNCHANGED queue
     \/ /\ SourceTicketIsCurrent(auth, f.ticket) /\ ~IsAuthTicketCurrent(a, f.ticket)
        /\ EndFlight(a, rotation, f, None, FALSE)
        /\ UNCHANGED queue
     \/ /\ IsAuthTicketCurrent(a, f.ticket)
        /\ auth' = a
        /\ queue' = Append(queue, [kind |-> "refresh", tok |-> f.tok])
        /\ flights' = (flights \ {f}) \cup {[f EXCEPT !.pc = "writing"]}
        /\ UNCHANGED <<activities, waiter, restore>>
  /\ UNCHANGED <<store, rotation, signin, change, live, minted, orphans,
                 restarts, failures>>

\* A refusal, an unreachable server, a timeout or a lost answer: the same
\* catch block, which closes the session unless the ticket was superseded.
RefreshFailed(f) ==
  /\ f.pc \in {"sent", "answered", "refused"}
  /\ orphans' = IF f.pc = "answered" THEN orphans \cup {f.tok} ELSE orphans
  /\ \/ /\ IsAuthTicketCurrent(auth, f.ticket)
        /\ EndFlight(auth, rotation, f, None, TRUE)
     \/ /\ ~IsAuthTicketCurrent(auth, f.ticket) /\ EndSuperseded(auth, f)
  /\ UNCHANGED <<store, queue, rotation, signin, change, live, minted, restarts,
                 failures>>

-----------------------------------------------------------------------------
(* The write queue.  Settle performs the head and resumes its owner.       *)

Settled(kind, ok) ==
  /\ queue # <<>> /\ Head(queue).kind = kind
  /\ queue' = Tail(queue)
  /\ IF ok THEN store' = Head(queue).tok /\ UNCHANGED failures
     ELSE /\ failures < MaxWriteFailures /\ failures' = failures + 1
          /\ UNCHANGED store

RefreshWritten(f, ok) ==
  /\ f.pc = "writing" /\ Settled("refresh", ok) /\ Head(queue).tok = f.tok
  /\ \/ /\ ok
        /\ LET a == PublishPair(auth, f.ticket, f.tok) IN
           EndFlight(a, rotation, f,
                     IF IsAuthTicketCurrent(auth, f.ticket) THEN f.tok ELSE None, FALSE)
     \/ /\ ~ok /\ IsAuthTicketCurrent(auth, f.ticket)
        /\ EndFlight(auth, rotation, f, None, TRUE)
     \/ /\ ~ok /\ ~IsAuthTicketCurrent(auth, f.ticket) /\ EndSuperseded(auth, f)
  /\ UNCHANGED <<rotation, signin, change, live, minted, orphans, restarts>>

-----------------------------------------------------------------------------
(* The cold-start restore.                                                 *)

BeginRestore ==
  /\ restore.pc = "start" /\ auth.phase = "signedOut"
  /\ auth' = BeginOpening(auth)
  /\ restore' = [pc |-> "media", ticket |-> Ticket(auth')]
  /\ UNCHANGED <<activities, store, queue, flights, rotation, signin, change,
                 waiter, live, minted, orphans, restarts, failures>>

\* startPrivateMediaSession resolved; open says whether media work may run.
RestoreMedia(open) ==
  /\ restore.pc = "media"
  /\ IF IsAuthTicketCurrent(auth, restore.ticket) /\ open
     THEN /\ JoinFlight(restore.ticket)
          /\ restore' = [restore EXCEPT !.pc = "refresh"]
          /\ UNCHANGED auth
     ELSE /\ auth' = IF IsAuthTicketCurrent(auth, restore.ticket) THEN BeginClose(auth) ELSE auth
          /\ restore' = [restore EXCEPT !.pc = "done"]
          /\ UNCHANGED <<flights, activities>>
  /\ UNCHANGED <<store, queue, rotation, signin, change, waiter, live, minted,
                 orphans, restarts, failures>>

\* fetchMe settled; ok is false when it failed or media closed meanwhile.
RestoreMe(ok) ==
  /\ restore.pc = "me"
  /\ restore' = [restore EXCEPT !.pc = "done"]
  /\ auth' = IF ~IsAuthTicketCurrent(auth, restore.ticket) THEN auth
             ELSE IF ok /\ CanActivate(auth, restore.ticket) THEN Activate(auth)
             ELSE BeginClose(auth)
  /\ UNCHANGED <<activities, store, queue, flights, rotation, signin, change,
                 waiter, live, minted, orphans, restarts, failures>>

-----------------------------------------------------------------------------
(* Sign-in.                                                                *)

Pending(s) == signin[s].pc \notin {"idle", "done"}

\* The login request succeeded; the app then waits for a close to finish.
Login(s) ==
  /\ signin[s].pc = "idle" /\ auth.ui = "signedOut"
  /\ \A r \in SignIns : ~Pending(r)
  /\ minted < MaxTokens
  /\ minted' = minted + 1
  /\ live' = live \cup {minted + 1}
  /\ signin' = [signin EXCEPT ![s] = [pc |-> "login", ticket |-> NoTicket, tok |-> minted + 1]]
  /\ UNCHANGED <<auth, activities, store, queue, flights, rotation, restore,
                 change, waiter, orphans, restarts, failures>>

OpenSignIn(s) ==
  /\ signin[s].pc = "login" /\ auth.phase = "signedOut"
  /\ LET a == BeginOpening(auth) IN
     /\ auth' = RecordCandidate(a, Ticket(a), signin[s].tok)
     /\ activities' = activities \cup {[kind |-> "signin", gen |-> a.gen, rev |-> 0]}
     /\ signin' = [signin EXCEPT ![s].pc = "write", ![s].ticket = Ticket(a)]
  /\ queue' = Append(queue, [kind |-> "signin", tok |-> signin[s].tok])
  /\ UNCHANGED <<store, flights, rotation, restore, change, waiter, live, minted,
                 orphans, restarts, failures>>

\* The pair is durable and the session still the one it was obtained for.
SignInGoesOn(s, ok) == ok /\ IsAuthTicketCurrent(auth, signin[s].ticket)

SignInWritten(s, ok) ==
  /\ signin[s].pc = "write" /\ Settled("signin", ok)
  /\ activities' = activities \ {[kind |-> "signin", gen |-> signin[s].ticket.gen, rev |-> 0]}
  /\ auth' = IF ok THEN PublishPair(auth, signin[s].ticket, signin[s].tok) ELSE BeginClose(auth)
  /\ signin' = [signin EXCEPT ![s].pc = IF SignInGoesOn(s, ok) THEN "media" ELSE "done"]
  /\ UNCHANGED <<flights, rotation, restore, change, waiter, live, minted,
                 orphans, restarts>>

SignInMedia(s, open) ==
  /\ signin[s].pc = "media"
  /\ signin' = [signin EXCEPT ![s].pc = "done"]
  /\ LET k == signin[s].ticket IN
     auth' = IF ~IsAuthTicketCurrent(auth, k) THEN auth
             ELSE IF open /\ CanActivate(auth, k) THEN Activate(auth)
             ELSE BeginClose(auth)
  /\ UNCHANGED <<activities, store, queue, flights, rotation, restore, change,
                 waiter, live, minted, orphans, restarts, failures>>

SignOut ==
  /\ auth.ui = "signedIn"
  /\ auth' = BeginClose(auth)
  /\ UNCHANGED <<activities, store, queue, flights, rotation, restore, signin,
                 change, waiter, live, minted, orphans, restarts, failures>>

-----------------------------------------------------------------------------
(* Password change: the request, and the rotation of its answer.           *)

PasswordActivity == [kind |-> "password", gen |-> change.source.gen, rev |-> change.source.rev]

RotateActivity(k) == [kind |-> "rotate", gen |-> k.gen, rev |-> k.rev]

ChangePassword ==
  /\ change.pc = "idle" /\ auth.ui = "signedIn" /\ auth.phase = "active"
  /\ change' = [pc |-> "sent", source |-> Ticket(auth), tok |-> None]
  /\ activities' = activities \cup
       {[kind |-> "password", gen |-> auth.gen, rev |-> auth.rev]}
  /\ UNCHANGED <<auth, store, queue, flights, rotation, restore, signin, waiter,
                 live, minted, orphans, restarts, failures>>

\* The server blacklists every refresh token of the user and issues a pair.
ServerChange ==
  /\ change.pc = "sent" /\ minted < MaxTokens
  /\ minted' = minted + 1
  /\ live' = {minted + 1}
  /\ change' = [change EXCEPT !.pc = "answered", !.tok = minted + 1]
  /\ UNCHANGED <<auth, activities, store, queue, flights, rotation, restore,
                 signin, waiter, orphans, restarts, failures>>

NoChange == [pc |-> "idle", source |-> NoTicket, tok |-> None]

ChangeFailed ==
  /\ change.pc \in {"sent", "answered"}
  /\ orphans' = IF change.pc = "answered" THEN orphans \cup {change.tok} ELSE orphans
  /\ change' = NoChange
  /\ activities' = activities \ {PasswordActivity}
  /\ UNCHANGED <<auth, store, queue, flights, rotation, restore, signin, waiter,
                 live, minted, restarts, failures>>

ChangeAnswered ==
  /\ change.pc = "answered"
  /\ LET a == RecordCandidate(auth, change.source, change.tok)
         b == BeginRotation(a, change.source, change.tok)
         k == [gen |-> change.source.gen, rev |-> a.rev + 1]
     IN
     /\ auth' = b
     /\ IF SourceTicketIsCurrent(a, change.source) /\ IsAuthTicketCurrent(b, k)
        THEN /\ rotation' = k
             /\ queue' = Append(queue, [kind |-> "rotate", tok |-> change.tok])
             /\ activities' = activities \cup {RotateActivity(k)}
             /\ change' = [change EXCEPT !.pc = "writing"]
        ELSE /\ activities' = activities \ {PasswordActivity}
             /\ change' = NoChange
             /\ UNCHANGED <<rotation, queue>>
  /\ UNCHANGED <<store, flights, restore, signin, waiter, live, minted, orphans,
                 restarts, failures>>

\* The rotated token is durable, or could not be stored and the session
\* closes; whoever waited for the rotation goes on.
RotationWritten(ok) ==
  /\ change.pc = "writing" /\ Settled("rotate", ok)
  /\ LET a == IF ok THEN PublishPair(auth, rotation, change.tok) ELSE auth
         ended == {f \in flights : f.pc = "rotating" /\ f.ticket.gen = rotation.gen}
     IN
     /\ auth' = IF ok THEN a ELSE BeginClose(a)
     /\ flights' = flights \ ended
     /\ activities' = (activities \ {PasswordActivity, RotateActivity(rotation)}) \
          {[kind |-> "refresh", gen |-> f.ticket.gen, rev |-> f.ticket.rev] : f \in ended}
     /\ waiter' = [c \in Callers |->
          IF \/ waiter[c].pc = "rotating" /\ waiter[c].ticket.gen = rotation.gen
             \/ waiter[c].pc = "joined" /\ \E f \in ended : f.ticket = waiter[c].ticket
          THEN Resume(a, waiter[c], IF ok THEN AccessNow(a, waiter[c].ticket) ELSE None)
          ELSE waiter[c]]
  /\ rotation' = NoTicket /\ change' = NoChange
  /\ UNCHANGED <<restore, signin, live, minted, orphans, restarts>>

-----------------------------------------------------------------------------
(* The asynchronous half of a close.                                       *)

Unchanged_ButAuth == <<activities, store, queue, flights, rotation, restore, signin,
                       change, waiter, minted, restarts, failures>>

CloseDrained ==
  /\ auth.close = "drain"
  /\ \A x \in activities : x.gen # auth.source.gen
  /\ auth' = [auth EXCEPT !.close = "network"]
  /\ UNCHANGED Unchanged_ButAuth /\ UNCHANGED <<live, orphans>>

\* waitForPrivateNetworkIdle settles: every media request was aborted.
NetworkIdle ==
  /\ auth.close = "network"
  /\ auth' = [auth EXCEPT !.close = "revoke"]
  /\ UNCHANGED Unchanged_ButAuth /\ UNCHANGED <<live, orphans>>

Abandoned == live \ {signin[s].tok : s \in {r \in SignIns : signin[r].pc = "login"}}

\* Logout of the handed-over pair: it succeeds, or it fails or has no pair.
Revoke ==
  /\ auth.close = "revoke"
  /\ auth' = [auth EXCEPT !.close = "clear"]
  /\ \/ /\ auth.handoff.tok # None /\ auth.handoff.gen = auth.source.gen
        /\ live' = live \ {auth.handoff.tok}
        /\ UNCHANGED orphans
     \/ /\ orphans' = orphans \cup Abandoned
        /\ UNCHANGED live
  /\ UNCHANGED Unchanged_ButAuth

ClearTokens ==
  /\ auth.close = "clear" /\ \A i \in DOMAIN queue : queue[i].kind # "clear"
  /\ queue' = Append(queue, [kind |-> "clear", tok |-> None])
  /\ UNCHANGED <<auth, activities, store, flights, rotation, restore, signin,
                 change, waiter, live, minted, orphans, restarts, failures>>

\* Mutant: a failed deletion counts as signed out.
ClearedOnce(ok) ==
  /\ auth.close = "clear" /\ Settled("clear", ok)
  /\ auth' = [auth EXCEPT !.active = NoPair, !.latest = NoPair,
                         !.handoff = NoPair, !.source = NoTicket,
                         !.phase = "signedOut", !.close = "none"]
  /\ UNCHANGED <<activities, flights, rotation, restore, signin, change, waiter,
                 live, minted, orphans, restarts>>

\* A failed deletion is retried for ever; a deletion ends the close.
Cleared(ok) ==
  /\ auth.close = "clear" /\ Settled("clear", ok)
  /\ auth' = IF ~ok THEN auth
             ELSE [auth EXCEPT !.active = NoPair, !.latest = NoPair,
                               !.handoff = NoPair, !.source = NoTicket,
                               !.access = None, !.published = 0,
                               !.phase = "signedOut", !.close = "none"]
  /\ UNCHANGED <<activities, flights, rotation, restore, signin, change, waiter,
                 live, minted, orphans, restarts>>

-----------------------------------------------------------------------------
InitAuth == [phase |-> "signedOut", gen |-> 0, rev |-> 0, access |-> None,
             published |-> 0, active |-> NoPair, latest |-> NoPair,
             source |-> NoTicket, handoff |-> NoPair, close |-> "none",
             seq |-> 0, ui |-> "restoring"]

Idle == [pc |-> "idle", ticket |-> NoTicket, tok |-> None]

AtStart == [pc |-> "start", ticket |-> NoTicket]

\* The process dies.  A write in execution may still have taken effect.
Restart ==
  /\ restarts < MaxRestarts /\ restarts' = restarts + 1
  /\ store' \in {store} \cup {queue[i].tok : i \in DOMAIN queue \cap {1}}
  /\ auth' = [InitAuth EXCEPT !.gen = auth.gen]
  /\ activities' = {} /\ queue' = <<>> /\ flights' = {}
  /\ rotation' = NoTicket /\ restore' = AtStart /\ change' = NoChange
  /\ signin' = [s \in SignIns |->
       IF Pending(s) THEN [signin[s] EXCEPT !.pc = "done"] ELSE signin[s]]
  /\ waiter' = [c \in Callers |-> Idle]
  /\ orphans' = orphans \cup (live \ {store'})
  /\ UNCHANGED <<live, minted, failures>>

\* A first start, with or without the token of an earlier life.
Init ==
  /\ auth = InitAuth /\ activities = {} /\ queue = <<>> /\ flights = {}
  /\ rotation = NoTicket /\ restore = AtStart /\ change = NoChange
  /\ signin = [s \in SignIns |-> Idle] /\ waiter = [c \in Callers |-> Idle]
  /\ store \in {None, 1} /\ live \in SUBSET {1} /\ minted = 1
  /\ orphans = live \ {store} /\ restarts = 0 /\ failures = 0

\* Everything but the steps that depend on the private-media gate.
CredentialNext ==
  \/ \E c \in Callers : SendRequest(c) \/ Unauthorized(c) \/ Answered(c)
  \/ \E f \in flights :
       \/ ReadToken(f) \/ PostRefresh(f) \/ ServerRefresh(f)
       \/ RefreshAnswered(f) \/ RefreshFailed(f)
       \/ \E ok \in BOOLEAN : RefreshWritten(f, ok)
  \/ \E s \in SignIns : Login(s) \/ OpenSignIn(s)
  \/ SignOut
  \/ ChangePassword \/ ServerChange \/ ChangeFailed \/ ChangeAnswered
  \/ \E ok \in BOOLEAN : RotationWritten(ok) \/ Cleared(ok)
  \/ CloseDrained \/ Revoke \/ ClearTokens

Next ==
  \/ CredentialNext
  \/ BeginRestore
  \/ \E ok \in BOOLEAN : RestoreMedia(ok) \/ RestoreMe(ok)
  \/ \E s \in SignIns, ok \in BOOLEAN : SignInWritten(s, ok) \/ SignInMedia(s, ok)
  \/ NetworkIdle
  \/ Restart

Spec == Init /\ [][Next]_vars

(* Requests time out, native calls settle and promises resume: everything  *)
(* but the user, the server and the API callers eventually moves.          *)
FlightMoves ==
  \E f \in flights :
    \/ ReadToken(f) \/ PostRefresh(f) \/ RefreshAnswered(f) \/ RefreshFailed(f)
    \/ RefreshWritten(f, TRUE)

-----------------------------------------------------------------------------
Tokens == 0..MaxTokens

TicketType == [gen : Nat, rev : Nat]

PairType == [tok : Tokens, gen : Nat, rev : Nat, seq : Nat]

\* Type invariant.
TypeOK ==
  /\ auth \in [phase : {"signedOut", "opening", "active", "closing"},
               gen : Nat, rev : Nat, access : Tokens, published : Nat,
               active : PairType, latest : PairType, source : TicketType,
               handoff : PairType, seq : Nat,
               close : {"none", "drain", "network", "revoke", "clear"},
               ui : {"restoring", "signedIn", "signedOut"}]
  /\ activities \subseteq
       [kind : {"refresh", "signin", "password", "rotate"}, gen : Nat, rev : Nat]
  /\ store \in Tokens
  /\ queue \in Seq([kind : {"refresh", "signin", "rotate", "clear"}, tok : Tokens])
  /\ flights \subseteq
       [ticket : TicketType, tok : Tokens,
        pc : {"reading", "read", "sent", "answered", "refused", "writing", "rotating"}]
  /\ rotation \in TicketType
  /\ restore \in [pc : {"start", "media", "refresh", "me", "done"}, ticket : TicketType]
  /\ signin \in [SignIns -> [pc : {"idle", "login", "write", "media", "done"},
                             ticket : TicketType, tok : Tokens]]
  /\ change \in [pc : {"idle", "sent", "answered", "writing"}, source : TicketType, tok : Tokens]
  /\ waiter \in [Callers -> [pc : {"idle", "sent", "joined", "rotating", "replayed"},
                             ticket : TicketType, tok : Tokens]]
  /\ live \subseteq Tokens /\ minted \in Tokens /\ orphans \subseteq Tokens
  /\ restarts \in Nat /\ failures \in Nat

\* The pair handed to a close is the authoritative one: once a signed-out
\* session was revoked with it, the server accepts no refresh token of that
\* session but those whose answer never reached the app - whatever refresh,
\* rotation and sign-out crossed (requestAuthSessionClose).
HandoffIsComplete ==
  auth.phase = "signedOut" /\ restore.pc # "start"
    => live \subseteq orphans \cup {signin[s].tok : s \in {r \in SignIns : signin[r].pc = "login"}}

\* What a cold start would adopt agrees with the session: with no write in
\* progress SecureStore holds the token of the published pair, and after a
\* sign-out nothing, nor is a late write left that could bring one back.
DurableAgrees ==
  /\ Usable(auth) /\ auth.active.tok # None /\ queue = <<>> => store = auth.active.tok
  /\ auth.phase = "signedOut" /\ restore.pc # "start" => store = None /\ queue = <<>>

\* A refresh token is single use.  The one on the wire for the current
\* ticket is the newest the app knows, so that no two refreshes present the
\* same token and none presents one that a password change replaced.
FreshOnTheWire ==
  /\ \A f \in flights :
       f.pc = "sent" /\ IsAuthTicketCurrent(auth, f.ticket)
         => auth.latest.tok \in {None, f.tok} /\ rotation = NoTicket
  /\ \A f, g \in flights : f.ticket = g.ticket => f = g

\* A request replayed after a refresh carries the access token published at
\* that instant for the very credentials it was stamped with: a request of
\* session A never gets the token of session B.
ReplayStaysInSession ==
  [][\A c \in Callers :
       waiter'[c].pc = "replayed" /\ waiter[c].pc # "replayed"
         => /\ IsAuthTicketCurrent(auth', waiter'[c].ticket)
            /\ waiter'[c].ticket = waiter[c].ticket
            /\ waiter'[c].tok = auth'.access]_vars

=============================================================================
