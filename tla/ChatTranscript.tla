--------------------------- MODULE ChatTranscript ---------------------------
(***************************************************************************)
(* The transcript of a chat room on the mobile app: the reducer that       *)
(* merges pages, catch-up reads, live events and the user's own mutations  *)
(* by change_sequence (transcriptReducer.ts), and the reads and mutations  *)
(* that feed it (useTripChat.ts), over the feed that ChatFeed promises.    *)
(*                                                                         *)
(* Messages are numbered in the order they were posted.  The trip counts   *)
(* the changes of its chat; a row carries the count of its last change     *)
(* (seq), of the last change of its content (body) and of its reactions    *)
(* (reacts), so that equal rows show the same.  The server publishes a     *)
(* change after the commit, from whichever process made it, so that events *)
(* may overtake one another.                                               *)
(***************************************************************************)
EXTENDS Integers, FiniteSets, FiniteSetsExt, ChatFeed

CONSTANTS
  MaxMessages,  \* bound: messages of the room
  MaxChanges,   \* bound: changes of the room
  PageSize,     \* HISTORY_PAGE_SIZE and RECONCILIATION_PAGE_SIZE
  MaxPages      \* RECONCILIATION_MAX_PAGES

ASSUME TranscriptBounds ==
  /\ MaxMessages \in Nat /\ MaxChanges \in Nat
  /\ PageSize \in Nat \ {0} /\ MaxPages \in Nat \ {0}

VARIABLES
  srv,   \* the room on the server
  wire,  \* events published and not yet delivered
  t,     \* the transcript
  h      \* reads, mutation and catch-up of the hook

transcriptVars == <<feed, wanted, running, srv, wire, t, h>>

Ids == 1..MaxMessages
NoRow == [seq |-> 0, body |-> 0, reacts |-> 0, deleted |-> FALSE, sender |-> "none"]
NoPatch == [full |-> NoRow, reacts |-> 0]
Known(rows, i) == rows[i] # NoRow

-----------------------------------------------------------------------------
(* The reducer.                                                            *)

\* Mutant: rows are taken in the order they arrive.
ReplaceByArrival(current, incoming) == ~(current.deleted /\ ~incoming.deleted)

\* shouldReplaceFullMessage.
ShouldReplace(current, incoming) ==
  /\ ~(current.deleted /\ ~incoming.deleted)
  /\ \/ incoming.seq > current.seq
     \/ incoming.seq = current.seq /\ incoming.deleted /\ ~current.deleted

WithReaction(row, reacts) ==
  IF row.deleted \/ reacts <= row.seq THEN row
  ELSE [row EXCEPT !.reacts = reacts, !.seq = reacts]

RetainFull(d, row) ==
  IF d.full # NoRow /\ ~ShouldReplace(d.full, row) THEN d
  ELSE [full |-> row, reacts |-> IF row.deleted THEN 0 ELSE d.reacts]

RetainReaction(d, reacts) ==
  IF d.full.deleted \/ d.full.seq >= reacts \/ d.reacts >= reacts THEN d
  ELSE [d EXCEPT !.reacts = reacts]

\* materializeDeferredPatch.
Materialize(row, d) ==
  WithReaction(IF d.full # NoRow /\ ShouldReplace(row, d.full) THEN d.full ELSE row, d.reacts)

\* Whether row i enters the transcript; upsert admits rows not yet known.
Eligible(s, i, row, upsert) ==
  /\ i \notin s.hidden
  /\ IF Known(s.rows, i) THEN ShouldReplace(s.rows[i], row) ELSE upsert

\* mergeMessages; page is a set of pairs of a message and its row.
Merge(s, page, upsert) ==
  LET taken == {p \in page : Eligible(s, p[1], p[2], upsert)}
      kept  == {p \in page : p[1] \notin s.hidden /\ ~Known(s.rows, p[1]) /\ ~upsert}
      Row(i) == LET p == CHOOSE p \in taken : p[1] = i IN
                IF Known(s.rows, i) THEN p[2] ELSE Materialize(p[2], s.deferred[i])
      rows == [i \in Ids |-> IF \E p \in taken : p[1] = i THEN Row(i) ELSE s.rows[i]]
      removed == {p[1] : p \in {q \in taken : rows[q[1]].deleted}}
  IN [s EXCEPT
        !.rows = rows,
        !.deferred = [i \in Ids |->
           IF \E p \in taken : p[1] = i THEN NoPatch
           ELSE IF \E p \in kept : p[1] = i
                THEN RetainFull(@[i], (CHOOSE p \in kept : p[1] = i)[2]) ELSE @[i]],
        !.reacting = @ \ removed,
        !.pending = IF \E p \in taken : rows[p[1]].sender = "own" THEN "none" ELSE @]

\* REACTION_PATCH.
ReactionPatch(s, i, reacts) ==
  IF i \in s.hidden THEN s
  ELSE IF Known(s.rows, i) THEN [s EXCEPT !.rows[i] = WithReaction(@, reacts)]
  ELSE [s EXCEPT !.deferred[i] = RetainReaction(@, reacts)]

\* HIDE_MESSAGES.
Hide(s, i) ==
  [s EXCEPT !.hidden = @ \cup {i}, !.rows[i] = NoRow, !.deferred[i] = NoPatch,
            !.reacting = @ \ {i}, !.deleting = @ \ {i}]

\* DELETE_SUCCESS, then DELETE_END.
Deleted(s, i, row) ==
  IF i \in s.hidden \/ ~Known(s.rows, i) \/ i \notin s.deleting
  THEN [s EXCEPT !.deleting = @ \ {i}]
  ELSE [s EXCEPT !.rows[i] = IF row.seq > @.seq THEN row ELSE @,
                 !.reacting = @ \ {i}, !.deleting = @ \ {i}]

\* SUSPEND_ACCESS.
Suspend(s) ==
  [s EXCEPT !.pending = IF @ = "sending" THEN "failed" ELSE @,
            !.reacting = {}, !.deleting = {}]

\* REACTION_SUCCESS; an operation whose overlay is gone changes nothing.
ReactionSettles(s, i, reacts) ==
  IF i \notin s.reacting \/ ~Known(s.rows, i) THEN s
  ELSE [s EXCEPT !.rows[i] = WithReaction(@, reacts), !.reacting = @ \ {i}]

EmptyTranscript ==
  [rows |-> [i \in Ids |-> NoRow], deferred |-> [i \in Ids |-> NoPatch], hidden |-> {},
   pending |-> "none", reacting |-> {}, deleting |-> {}, older |-> 0]

NoRead == [state |-> "none", page |-> {}, more |-> FALSE]
Asked == [NoRead EXCEPT !.state = "asked"]
NoCall == [state |-> "none", kind |-> "none", id |-> 0, row |-> NoRow]

\* base is the floor that catch-up has reconciled: the latest message, and
\* the latest change; live rows do not move it.
NoWork ==
  [loaded |-> FALSE, base |-> [latest |-> 0, cursor |-> 0],
   phase |-> "none", pages |-> 0, retry |-> FALSE,
   reads |-> [k \in {"initial", "older", "run"} |-> NoRead],
   call |-> NoCall, sent |-> FALSE, gone |-> {}]

-----------------------------------------------------------------------------
(* The server.                                                             *)

Posted == 1..srv.count
Visible == Posted \ srv.hidden
Change == srv.seq + 1

Event(kind, i, row) == [kind |-> kind, id |-> i, row |-> row]

Commit(kind, i, row) ==
  /\ srv' = [srv EXCEPT !.seq = Change, !.rows[i] = row,
                        !.count = IF i > @ THEN i ELSE @]
  /\ wire' = IF i \in srv.hidden THEN wire ELSE wire \cup {Event(kind, i, row)}

Redrafted(i) == [srv.rows[i] EXCEPT !.seq = Change, !.body = Change]
Reacted(i) == [srv.rows[i] EXCEPT !.seq = Change, !.reacts = Change]
Tombstone(i) == [srv.rows[i] EXCEPT !.seq = Change, !.body = Change, !.reacts = 0, !.deleted = TRUE]
NewRow(sender) == [NoRow EXCEPT !.seq = Change, !.body = Change, !.sender = sender]

\* Others post, react, delete; an AI draft changes the row that shows it.
OthersChange ==
  /\ srv.seq < MaxChanges
  /\ \/ /\ srv.count < MaxMessages
        /\ \E sender \in {"user", "ai"} : Commit("message", srv.count + 1, NewRow(sender))
     \/ \E i \in Posted :
          \/ srv.rows[i].sender = "ai" /\ Commit("message", i, Redrafted(i))
          \/ ~srv.rows[i].deleted /\ Commit("reaction", i, Reacted(i))
          \/ srv.rows[i].sender = "user" /\ ~srv.rows[i].deleted /\ Commit("deleted", i, Tombstone(i))
  /\ UNCHANGED <<feedVars, t, h>>

Rows(S) == {<<i, srv.rows[i]>> : i \in S}
Answer(S, left) == [state |-> "answered", page |-> Rows(S), more |-> left # {}]

\* The first page of S, in the order of rank.
AnswerPage(S, rank) ==
  LET page == {i \in S : Cardinality({j \in S : rank[j] < rank[i]}) < PageSize}
  IN Answer(page, S \ page)

History(before) == AnswerPage({i \in Visible : before = 0 \/ i < before}, [i \in Ids |-> -i])
GapFill(since) == AnswerPage({i \in Visible : i > since}, [i \in Ids |-> i])
ChangedSince(cursor) ==
  AnswerPage({i \in Visible : srv.rows[i].seq > cursor}, [i \in Ids |-> srv.rows[i].seq])

ServerAnswers(k) ==
  /\ h.reads[k].state = "asked"
  /\ h' = [h EXCEPT !.reads[k] =
             CASE k = "initial" -> History(0)
               [] k = "older" -> History(t.older)
               [] k = "run" /\ h.phase = "first" -> History(0)
               [] k = "run" /\ h.phase = "gap" -> GapFill(h.base.latest)
               [] k = "run" /\ h.phase = "update" -> ChangedSince(h.base.cursor)]
  /\ UNCHANGED <<feedVars, srv, wire, t>>

-----------------------------------------------------------------------------
(* Catch-up runs.                                                          *)

\* Mutant: rows that came live move the floor as well.
LastKnown(page) == Max({p[1] : p \in page} \cup {i \in Ids : Known(t.rows, i)} \cup {0})

Last(page) == Max({p[1] : p \in page} \cup {0})
Cursor(page) == Max({p[2].seq : p \in page} \cup {0})
Oldest(r) == IF r.more THEN Min({p[1] : p \in r.page}) ELSE 0

StartRun(g) ==
  [g EXCEPT !.phase = IF g.base.latest = 0 THEN "first" ELSE "gap",
            !.pages = MaxPages, !.reads["run"] = Asked, !.retry = FALSE]

StopRun(g) == [g EXCEPT !.phase = "none", !.pages = 0, !.reads["run"] = NoRead]

\* The feed stays live, a run owed starts now if it can.
StartOwed(g, owed, busy) ==
  IF owed /\ g.loaded /\ ~busy
  THEN h' = StartRun(g) /\ StayLive /\ running' /\ ~wanted'
  ELSE h' = g /\ StayLive /\ running' = busy /\ wanted' = owed

Ends(g) == StartOwed(StopRun(g), wanted, FALSE)

Continue(g) == h' = [g EXCEPT !.reads["run"] = Asked] /\ UNCHANGED feedVars

\* A page that leaves more takes one of MaxPages; the last one gives up.
NextPage(base) ==
  IF h.pages > 1 THEN Continue([h EXCEPT !.pages = @ - 1, !.base = base])
  ELSE Ends([h EXCEPT !.base = base, !.retry = TRUE])

BeginUpdate(base) == Continue([h EXCEPT !.phase = "update", !.pages = MaxPages, !.base = base])

\* The room was never loaded: the history stands for the gap.
TakeFirst(r) ==
  LET base == [latest |-> Last(r.page),
               cursor |-> IF h.base.cursor = 0 THEN Cursor(r.page) ELSE h.base.cursor]
  IN /\ t' = [Merge(t, r.page, TRUE) EXCEPT !.older = Oldest(r)]
     /\ IF base.cursor = 0 THEN Ends([h EXCEPT !.base = base]) ELSE BeginUpdate(base)

\* Messages newer than the floor.
TakeGap(r) ==
  LET base == [h.base EXCEPT !.latest = IF r.page = {} THEN @ ELSE Last(r.page)]
  IN /\ t' = Merge(t, r.page, TRUE)
     /\ IF r.more THEN NextPage(base) ELSE BeginUpdate(base)

\* Changes after the cursor, of messages that are known.
TakeUpdate(r) ==
  LET base == [h.base EXCEPT !.cursor = IF r.page = {} THEN @ ELSE Cursor(r.page)]
  IN /\ t' = Merge(t, r.page, FALSE)
     /\ IF r.more THEN NextPage(base) ELSE Ends([h EXCEPT !.base = base, !.retry = FALSE])

\* A page of a run arrives: it is dropped if the run is no longer current, and
\* otherwise what it reconciled is the floor of the next one.
RunReceives ==
  /\ h.reads["run"].state = "answered"
  /\ \/ feed # "live" /\ h' = StopRun(h) /\ UNCHANGED <<feedVars, t>>
     \/ feed = "live" /\ h.phase = "first" /\ TakeFirst(h.reads["run"])
     \/ feed = "live" /\ h.phase = "gap" /\ TakeGap(h.reads["run"])
     \/ feed = "live" /\ h.phase = "update" /\ TakeUpdate(h.reads["run"])
  /\ UNCHANGED <<srv, wire>>

RunFails ==
  /\ h.phase # "none"
  /\ IF feed # "live" THEN h' = StopRun(h) /\ UNCHANGED feedVars
     ELSE Ends([h EXCEPT !.retry = TRUE])
  /\ UNCHANGED <<srv, wire, t>>

RetryRun ==
  /\ feed = "live" /\ h.retry /\ h.phase = "none"
  /\ h' = StartRun(h) /\ StayLive /\ running' /\ ~wanted'
  /\ UNCHANGED <<srv, wire, t>>

-----------------------------------------------------------------------------
(* The feed.                                                               *)

FeedGoesLive ==
  /\ GoLive
  /\ IF h.loaded /\ h.phase = "none"
     THEN h' = StartRun(h) /\ running' /\ ~wanted'
     ELSE h' = [h EXCEPT !.retry = FALSE] /\ wanted' /\ running' = (h.phase # "none")
  /\ UNCHANGED <<srv, wire, t>>

\* The subscription is retried by the user and leaves a run alone; is lost,
\* which aborts it; or access is uncertain, which aborts everything.
FeedGoesOff(how) ==
  /\ how \in {"retried", "lost", "suspended"}
  /\ GoOff
  /\ LET g == [(IF how = "retried" THEN h ELSE StopRun(h)) EXCEPT !.retry = FALSE] IN
     IF how = "suspended"
     THEN /\ t' = Suspend(t)
          /\ h' = [g EXCEPT !.reads = [k \in DOMAIN @ |-> NoRead], !.call = NoCall]
     ELSE h' = g /\ UNCHANGED t
  /\ UNCHANGED <<srv, wire>>

\* While the feed is off an event may find nobody.
EventLost(e) ==
  /\ feed # "live" /\ e \in wire
  /\ wire' = wire \ {e} /\ UNCHANGED <<feedVars, srv, t, h>>

\* KICKED: nothing of the room is left, and nothing enters it any more.
Kicked ==
  /\ Shut
  /\ t' = EmptyTranscript
  /\ h' = [NoWork EXCEPT !.loaded = h.loaded]
  /\ UNCHANGED <<srv, wire>>

EventArrives(e) ==
  /\ feed # "shut" /\ e \in wire
  /\ wire' = wire \ {e}
  /\ t' = CASE e.kind = "message" -> Merge(t, {<<e.id, e.row>>}, TRUE)
            [] e.kind = "deleted" -> Merge(t, {<<e.id, e.row>>}, FALSE)
            [] e.kind = "reaction" -> ReactionPatch(t, e.id, e.row.reacts)
  /\ UNCHANGED <<feedVars, srv, h>>

-----------------------------------------------------------------------------
(* The history.                                                            *)

LoadInitial ==
  /\ feed # "shut" /\ ~h.loaded /\ h.reads["initial"] = NoRead
  /\ h' = [h EXCEPT !.reads["initial"] = Asked]
  /\ UNCHANGED <<feedVars, srv, wire, t>>

InitialArrives ==
  /\ h.reads["initial"].state = "answered"
  /\ LET r == h.reads["initial"]
         g == [h EXCEPT !.loaded = TRUE, !.reads["initial"] = NoRead,
                        !.base = [latest |-> Last(r.page), cursor |-> Cursor(r.page)]]
     IN /\ t' = [Merge(t, r.page, TRUE) EXCEPT !.older = Oldest(r)]
        /\ IF feed = "live" THEN StartOwed(g, wanted, g.phase # "none")
           ELSE h' = g /\ UNCHANGED feedVars
  /\ UNCHANGED <<srv, wire>>

LoadOlder ==
  /\ feed # "shut" /\ h.reads["older"] = NoRead /\ t.older # 0
  /\ h' = [h EXCEPT !.reads["older"] = Asked]
  /\ UNCHANGED <<feedVars, srv, wire, t>>

OlderArrives ==
  /\ h.reads["older"].state = "answered"
  /\ t' = [Merge(t, h.reads["older"].page, TRUE) EXCEPT !.older = Oldest(h.reads["older"])]
  /\ h' = [h EXCEPT !.reads["older"] = NoRead]
  /\ UNCHANGED <<feedVars, srv, wire>>

ReadFails(k) ==
  /\ k \in {"initial", "older"} /\ h.reads[k].state = "asked"
  /\ h' = [h EXCEPT !.reads[k] = NoRead]
  /\ UNCHANGED <<feedVars, srv, wire, t>>

-----------------------------------------------------------------------------
(* The user's mutations, one at a time.                                    *)

Calls(kind, i) == h' = [h EXCEPT !.call = [NoCall EXCEPT !.state = "asked", !.kind = kind, !.id = i],
                                !.sent = @ \/ kind = "send"]

MayMutate == feed # "shut" /\ h.loaded /\ h.call = NoCall

Sends == {"send", "resend"}

\* A message is sent once, and again while it has failed, under one client id.
Send ==
  /\ MayMutate
  /\ t.pending = IF h.sent THEN "failed" ELSE "none"
  /\ t' = [t EXCEPT !.pending = "sending"]
  /\ Calls(IF h.sent THEN "resend" ELSE "send", 0)
  /\ UNCHANGED <<feedVars, srv, wire>>

Mutate(kind, i) ==
  /\ MayMutate
  /\ CASE kind = "react" ->
            /\ Known(t.rows, i) /\ ~t.rows[i].deleted /\ i \notin t.reacting
            /\ t' = [t EXCEPT !.reacting = @ \cup {i}]
       [] kind = "delete" ->
            /\ Known(t.rows, i) /\ t.rows[i].sender = "own" /\ ~t.rows[i].deleted
            /\ t' = [t EXCEPT !.deleting = @ \cup {i}]
       [] kind = "hide" -> Known(t.rows, i) /\ UNCHANGED t
  /\ Calls(kind, i)
  /\ UNCHANGED <<feedVars, srv, wire>>

OwnPosted == {i \in Posted : srv.rows[i].sender = "own"}

AnsweredWith(row) == h' = [h EXCEPT !.call.state = "answered", !.call.row = row]

ServerMutates ==
  /\ h.call.state = "asked"
  /\ LET i == h.call.id
         Apply(kind, j, row) == srv.seq < MaxChanges /\ Commit(kind, j, row) /\ AnsweredWith(row)
         Replay(row) == AnsweredWith(row) /\ UNCHANGED <<srv, wire>>
     IN CASE h.call.kind \in Sends ->
               IF OwnPosted # {} THEN \E j \in OwnPosted : Replay(srv.rows[j])
               ELSE srv.count < MaxMessages /\ Apply("message", srv.count + 1, NewRow("own"))
          [] h.call.kind = "react" ->
               i \in Visible /\ ~srv.rows[i].deleted /\ Apply("reaction", i, Reacted(i))
          [] h.call.kind = "delete" ->
               IF srv.rows[i].deleted THEN Replay(srv.rows[i])
               ELSE Apply("deleted", i, Tombstone(i))
          [] h.call.kind = "hide" ->
               /\ srv' = [srv EXCEPT !.hidden = @ \cup {i}]
               /\ AnsweredWith(srv.rows[i]) /\ UNCHANGED wire
  /\ UNCHANGED <<feedVars, t>>

CallReturns ==
  /\ h.call.state = "answered"
  /\ LET i == h.call.id row == h.call.row IN
     /\ t' = CASE h.call.kind \in Sends ->
                    [Merge(t, {<<CHOOSE j \in OwnPosted : TRUE, row>>}, TRUE) EXCEPT !.pending = "none"]
               [] h.call.kind = "react" -> ReactionSettles(t, i, row.reacts)
               [] h.call.kind = "delete" -> Deleted(t, i, row)
               [] h.call.kind = "hide" -> Hide(t, i)
     /\ h' = [h EXCEPT !.call = NoCall,
                       !.gone = IF h.call.kind = "hide" THEN @ \cup {i} ELSE @]
  /\ UNCHANGED <<feedVars, srv, wire>>

\* The server refuses, or its answer is lost.  A first attempt that is refused
\* leaves no message behind; an event that came first settles the attempt.
CallFails(blocked) ==
  /\ h.call # NoCall
  /\ blocked => h.call.kind \in Sends /\ h.call.state = "asked"
  /\ t' = CASE h.call.kind \in Sends ->
                 [t EXCEPT !.pending = IF @ # "sending" THEN @
                                       ELSE IF blocked /\ h.call.kind = "send" THEN "none"
                                       ELSE "failed"]
            [] h.call.kind = "react" -> [t EXCEPT !.reacting = @ \ {h.call.id}]
            [] h.call.kind = "delete" -> [t EXCEPT !.deleting = @ \ {h.call.id}]
            [] h.call.kind = "hide" -> t
  /\ h' = [h EXCEPT !.call = NoCall]
  /\ UNCHANGED <<feedVars, srv, wire>>

-----------------------------------------------------------------------------
TranscriptInit ==
  /\ FeedInit
  /\ srv = [count |-> 0, seq |-> 0, hidden |-> {}, rows |-> [i \in Ids |-> NoRow]]
  /\ wire = {} /\ t = EmptyTranscript /\ h = NoWork

TranscriptNext ==
  \/ OthersChange \/ RunReceives \/ RunFails \/ RetryRun \/ FeedGoesLive \/ Kicked
  \/ LoadInitial \/ InitialArrives \/ LoadOlder \/ OlderArrives \/ Send
  \/ ServerMutates \/ CallReturns
  \/ \E how \in {"retried", "lost", "suspended"} : FeedGoesOff(how)
  \/ \E k \in {"initial", "older", "run"} : ServerAnswers(k)
  \/ \E k \in {"initial", "older"} : ReadFails(k)
  \/ \E e \in wire : EventArrives(e) \/ EventLost(e)
  \/ \E kind \in {"react", "delete", "hide"}, i \in Ids : Mutate(kind, i)
  \/ \E blocked \in BOOLEAN : CallFails(blocked)

TranscriptSpec == TranscriptInit /\ [][TranscriptNext]_transcriptVars

-----------------------------------------------------------------------------
\* Type invariant; while the feed is live the phase of the run tells whether
\* it runs.
TranscriptTypeOK ==
  /\ t.pending \in {"none", "sending", "failed"} /\ t.older \in 0..MaxMessages
  /\ t.reacting \subseteq Ids /\ t.deleting \subseteq Ids /\ t.hidden \subseteq Ids
  /\ h.phase \in {"none", "first", "gap", "update"} /\ h.pages \in 0..MaxPages
  /\ feed = "live" => running = (h.phase # "none")

\* Nothing is under way and nothing was given up.
CaughtUp ==
  /\ feed = "live" /\ h.loaded /\ ~wanted /\ ~running /\ ~h.retry
  /\ wire = {} /\ h.call = NoCall /\ \A k \in DOMAIN h.reads : h.reads[k] = NoRead

Shown == {i \in Ids : Known(t.rows, i)}

\* Whatever was lost, reordered or retried on the way: once a live feed has
\* caught up the transcript has every message down to its oldest page, deleted
\* or not as on the server and with the server's reactions.  A row a live event
\* put below that page may be stale until the page that holds it is read.
TranscriptConverges ==
  CaughtUp =>
    \A i \in Visible : i >= t.older =>
      /\ Known(t.rows, i)
      /\ t.rows[i].seq = srv.rows[i].seq
      /\ t.rows[i].reacts = srv.rows[i].reacts
      /\ t.rows[i].deleted = srv.rows[i].deleted

\* A message the user hid stays away, whichever page or event brings it
\* again; and a message is shown once, as pending or as confirmed.
OneBubble ==
  /\ \A i \in Shown : i \notin h.gone
  /\ t.pending # "none" => \A i \in Shown : t.rows[i].sender # "own"

\* A row never goes back to an earlier change, and a deleted one stays deleted.
RowsNeverRegress ==
  [][\A i \in Ids : Known(t.rows, i) /\ Known(t.rows, i)' =>
       t'.rows[i].seq >= t.rows[i].seq /\ (t.rows[i].deleted => t'.rows[i].deleted)]_transcriptVars

\* What is on the screen, whatever arrives in whatever order (mergeMessages
\* and the optimistic actions of transcriptReducer).
TranscriptSteady == []OneBubble /\ RowsNeverRegress

\* The content that is shown does not depend on the order in which changes
\* arrive (transcriptReducer.test.ts: "uses change_sequence instead of
\* timestamps or arrival order for full rows").
ContentConverges ==
  CaughtUp => \A i \in Visible : i >= t.older => t.rows[i].body = srv.rows[i].body

=============================================================================
