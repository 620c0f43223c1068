------------------------- MODULE NotificationInbox -------------------------
(***************************************************************************)
(* The notifications of one signed-in user on one phone: the list, its     *)
(* unread badge and the overlays by which the provider merges pushed       *)
(* events, pages, counts and its own changes in whatever order they come   *)
(* (NotificationsProvider.tsx, realtimeReducer.ts).                        *)
(*                                                                         *)
(* A notification is its number in the order of creation.  What the phone  *)
(* tells apart of a row is whether it is read and whether it offers to     *)
(* answer an invitation.  Requests are sent, served and answered in three  *)
(* steps; a request that a newer one of its kind supersedes is dropped     *)
(* when that is sent, as its answer is when it arrives.  The provider is   *)
(* mounted anew for another user and drops what the old one asked, so that *)
(* this is the life of one.  Errors, spinners and the order of rows are    *)
(* left out; a lock is released with the answer, a little before the code  *)
(* does it.                                                                *)
(***************************************************************************)
EXTENDS Integers, FiniteSetsExt

CONSTANTS
  Before,       \* notifications that are there when the provider is mounted
  MaxNotes,     \* bound: notifications of the user
  Invitations,  \* which of them are invitations
  NotesPerPage, \* NotificationCursorPagination.page_size
  MaxMoves      \* bound: what comes, and what the user does on any device

ASSUME InboxBounds ==
  MaxNotes \in Nat /\ Before \in 0..MaxNotes /\ Invitations \subseteq 1..MaxNotes
  /\ NotesPerPage \in Nat \ {0} /\ MaxMoves \in Nat

VARIABLES
  notes,   \* the table of the server
  pushes,  \* events on their way, in no order
  inbox,   \* the reducer's state, the overrides and the cursor
  calls,   \* requests under way
  tale     \* history: what was lost, swept too early, answered; moves

inboxVars == <<notes, pushes, inbox, calls, tale>>

NoteIds == 1..MaxNotes
Unknown == -1

Empty == [i \in {} |-> 0]

Only(S, f) == [i \in DOMAIN f \cap S |-> f[i]]

\* What f says, and g of the rest.
Over(f, g) == [i \in DOMAIN f \cup DOMAIN g |-> IF i \in DOMAIN f THEN f[i] ELSE g[i]]

Put(f, i, x) == Over([j \in {i} |-> x], f)

Unread(rows) == Cardinality({i \in DOMAIN rows : ~rows[i].read})

MarkRead(rows, S) == [i \in DOMAIN rows |-> [rows[i] EXCEPT !.read = @ \/ i \in S]]

-----------------------------------------------------------------------------
(* The server.                                                             *)

FreshNote(i) == [read |-> FALSE, offers |-> i \in Invitations]

PushOf(event, ids, offers) == [event |-> event, ids |-> ids, offers |-> offers]

\* A notification comes, or the user does one thing more.
Move == tale.moves < MaxMoves /\ tale' = [tale EXCEPT !.moves = @ + 1]

\* create_notification; the envelope is built right after the commit.
Notify ==
  /\ Cardinality(DOMAIN notes) < MaxNotes
  /\ LET i == Cardinality(DOMAIN notes) + 1
     IN /\ notes' = Put(notes, i, FreshNote(i))
        /\ pushes' = pushes \cup {PushOf("created", {i}, i \in Invitations)}
  /\ Move /\ UNCHANGED <<inbox, calls>>

\* mark_notification_read: only the request that changes the row pushes.
ServeRead(i) ==
  /\ notes' = MarkRead(notes, {i})
  /\ pushes' = IF notes[i].read THEN pushes ELSE pushes \cup {PushOf("read", {i}, FALSE)}

\* mark_all_notifications_read; the event does not say which rows it means.
ServeReadAll ==
  /\ notes' = MarkRead(notes, NoteIds)
  /\ pushes' = IF Unread(notes) = 0 THEN pushes
               ELSE pushes \cup {PushOf("read_all", DOMAIN notes, FALSE)}

\* Another device of the user; an invitation also closes when the trip does.
OtherDevice ==
  /\ \/ \E i \in DOMAIN notes : ~notes[i].read /\ ServeRead(i)
     \/ Unread(notes) > 0 /\ ServeReadAll
     \/ /\ \E i \in DOMAIN notes :
             notes[i].offers /\ notes' = [notes EXCEPT ![i].offers = FALSE]
        /\ UNCHANGED pushes
  /\ Move /\ UNCHANGED <<inbox, calls>>

\* One page in descending order, below a cursor; the next cursor, or 0.
PageBelow(cursor) ==
  LET older == {i \in DOMAIN notes : i < cursor}
      page == {i \in older : Cardinality({j \in older : j >= i}) <= NotesPerPage}
  IN [rows |-> Only(page, notes), next |-> IF older = page THEN 0 ELSE Min(page)]

-----------------------------------------------------------------------------
(* The reducer.                                                            *)

Adjust(badge, delta) ==
  IF badge = Unknown THEN Unknown ELSE IF badge + delta < 0 THEN 0 ELSE badge + delta

\* The badge is not below the unread rows that are loaded.
CommitRealtimeState(p) ==
  IF p.badge # Unknown /\ p.badge < Unread(p.list) THEN [p EXCEPT !.badge = Unknown] ELSE p

\* An override never makes a row unread, nor an invitation open.
NoOverride == [ver |-> 0, read |-> FALSE, closed |-> FALSE]
OverrideOf(p, i) == IF i \in DOMAIN p.overrides THEN p.overrides[i] ELSE NoOverride

Overridden(row, o) == [read |-> row.read \/ o.read, offers |-> row.offers /\ ~o.closed]

\* applyResponseOverrides: a response yields to what happened after its request.
OverLater(p, rows, ver) ==
  [i \in DOMAIN rows |->
     IF OverrideOf(p, i).ver > ver THEN Overridden(rows[i], OverrideOf(p, i)) ELSE rows[i]]

\* The rows of S are known to be read as of the next version.
ReadOverride(p, S) ==
  [p EXCEPT !.overrides =
     Over([i \in S |-> [OverrideOf(p, i) EXCEPT !.read = TRUE, !.ver = p.version]], @)]

ReadAsOfNow(p, S) ==
  LET v == p.version + 1
  IN ReadOverride([p EXCEPT !.version = v, !.list = MarkRead(@, S),
                            !.readBy = Over([i \in S |-> v], @)], S)

\* applyCreatedEvent; a push arrives once.
ApplyCreated(p, i, offers) ==
  LET row == Overridden([read |-> FALSE, offers |-> offers], OverrideOf(p, i))
      loaded == i \in DOMAIN p.list
      known == (loaded /\ p.list[i].read) \/ i \in DOMAIN p.readBy
      effective == [row EXCEPT !.read = @ \/ known]
      v == p.version + 1
  IN [p EXCEPT !.list = Put(@, i, effective),
               !.badge = Adjust(@, IF loaded \/ effective.read THEN 0 ELSE 1),
               !.version = v,
               !.created = Put(@, i, [ver |-> v, row |-> effective])]

\* applyReadEvent: a row counts once, one that is not loaded makes the badge unknown.
ApplyRead(p, i) ==
  IF i \in DOMAIN p.readBy THEN ReadOverride([p EXCEPT !.list = MarkRead(@, {i})], {i})
  ELSE ReadAsOfNow([p EXCEPT !.badge =
         IF i \notin DOMAIN p.list THEN Unknown ELSE Adjust(@, IF p.list[i].read THEN 0 ELSE -1)],
         {i})

KnownIds(p) == DOMAIN p.list \cup DOMAIN p.created \cup DOMAIN p.readBy

ApplyReadAll(p) == [ReadAsOfNow(p, KnownIds(p)) EXCEPT !.badge = 0]

ApplyEvent(p, e) ==
  CommitRealtimeState(
       CASE e.event = "created" -> ApplyCreated(p, CHOOSE i \in e.ids : TRUE, e.offers)
         [] e.event = "read" -> ApplyRead(p, CHOOSE i \in e.ids : TRUE)
         [] OTHER -> ApplyReadAll(p))

\* mergeFirstPage, and the overrides that the page covers.
MergeFirstPage(p, page, ver) ==
  LET rows == OverLater(p, page.rows, ver)
      late == {i \in DOMAIN p.created : p.created[i].ver > ver}
      arrived == [i \in late |->
        [p.created[i].row EXCEPT !.read = @ \/ (i \in DOMAIN rows /\ rows[i].read)]]
      merged == MarkRead(Over(arrived, rows), DOMAIN p.readBy)
  IN CommitRealtimeState([p EXCEPT
       !.list = merged, !.cursor = page.next,
       !.created = Only(late, @),
       !.readBy = Only({i \in DOMAIN @ : @[i] > ver}, @),
       !.overrides = Only({i \in DOMAIN @ : @[i].ver > ver}, @)])

\* loadMore: rows that are not on the list yet.
AppendPage(p, page, ver) ==
  CommitRealtimeState([p EXCEPT !.list = Over(@, OverLater(p, page.rows, ver)), !.cursor = page.next])

\* mergeUnreadCount: a count is taken only if nothing has happened since it was
\* asked; zero says of the rows known then that they are read.
MergeUnreadCount(p, n, ver, known) ==
  IF ver # p.version THEN p
  ELSE IF n > 0 THEN CommitRealtimeState([p EXCEPT !.badge = n])
  ELSE CommitRealtimeState([ReadAsOfNow(p, known) EXCEPT !.badge = 0])

\* applyLocalReadAllConfirmation
ConfirmReadAll(p, visible, updated, ambiguous) ==
  CommitRealtimeState([ReadAsOfNow(p, visible) EXCEPT
            !.badge = IF ambiguous THEN Unknown ELSE Adjust(@, -updated)])

\* applyLocalOverride: the invitation is answered, or found closed.
CloseInvitation(p, i) ==
  LET o == [OverrideOf(p, i) EXCEPT !.closed = TRUE, !.ver = p.version + 1]
  IN CommitRealtimeState([p EXCEPT !.version = @ + 1, !.overrides = Put(@, i, o),
                      !.list = [j \in DOMAIN @ |-> IF j = i THEN Overridden(@[j], o) ELSE @[j]]])

-----------------------------------------------------------------------------
(* Requests.  The count loop asks again as long as events came meanwhile;  *)
(* `behind` is its request once another count has superseded that.         *)

NoPage == [pc |-> "none", ver |-> 0, from |-> 0, page |-> [rows |-> Empty, next |-> 0]]
NoCount == [pc |-> "none", ver |-> 0, n |-> 0, known |-> {}, loop |-> FALSE]
NoReadAll == [pc |-> "none", visible |-> {}, n |-> 0, ambiguous |-> FALSE]

\* loadFirstPage: a page further down that is being loaded is given up.
LoadFirstPage(c, p) ==
  [c EXCEPT !.first = [NoPage EXCEPT !.pc = "sent", !.ver = p.version, !.from = MaxNotes + 1],
            !.more = NoPage, !.asked = TRUE]

\* reconcileUnreadCount
Reconcile(c, p, loop) ==
  [c EXCEPT !.count = [NoCount EXCEPT !.pc = "sent", !.ver = p.version,
                                      !.known = DOMAIN p.list, !.loop = loop],
            !.behind = @ \/ (c.count.loop /\ ~loop)]

\* Mutant: a count under way is taken to cover an event that comes meanwhile.
ReconcileOnlyWhenIdle(c, p) ==
  IF c.count.loop \/ c.behind THEN c ELSE Reconcile(c, p, TRUE)

\* requestRealtimeCountReconcile
ReconcileOnEvent(c, p) ==
  IF c.count.loop \/ c.behind THEN [c EXCEPT !.wanted = TRUE] ELSE Reconcile(c, p, TRUE)

\* The request of the loop has come back.
LoopGoesOn(c, p) == IF c.wanted THEN Reconcile([c EXCEPT !.wanted = FALSE], p, TRUE) ELSE c

LoadAll(c, p) == Reconcile(LoadFirstPage(c, p), p, FALSE)

\* Focus, pull to refresh, a return to the foreground.
Refresh ==
  /\ Move
  /\ calls' \in {LoadAll(calls, inbox)}
                \cup (IF calls.asked THEN {} ELSE {Reconcile(calls, inbox, FALSE)})
  /\ UNCHANGED <<notes, pushes, inbox>>

LoadMore ==
  /\ calls.first.pc = "none" /\ calls.more.pc = "none" /\ inbox.cursor # 0
  /\ calls' = [calls EXCEPT !.more = [NoPage EXCEPT !.pc = "sent", !.ver = inbox.version,
                                                    !.from = inbox.cursor]]
  /\ Move /\ UNCHANGED <<notes, pushes, inbox>>

ServePage(kind) ==
  /\ calls[kind].pc = "sent"
  /\ calls' = [calls EXCEPT ![kind].pc = "served", ![kind].page = PageBelow(calls[kind].from)]
  /\ UNCHANGED <<notes, pushes, inbox, tale>>

ServeCount ==
  /\ calls.count.pc = "sent"
  /\ calls' = [calls EXCEPT !.count.pc = "served", !.count.n = Unread(notes)]
  /\ tale' = [tale EXCEPT !.missed = FALSE]
  /\ UNCHANGED <<notes, pushes, inbox>>

\* A page that fails changes nothing, whether the server saw the request or not.
FirstPageReturns ==
  /\ \/ /\ calls.first.pc = "served"
        /\ inbox' = MergeFirstPage(inbox, calls.first.page, calls.first.ver)
     \/ calls.first.pc = "sent" /\ inbox' = inbox
  /\ calls' = [calls EXCEPT !.first = NoPage]
  /\ UNCHANGED <<notes, pushes, tale>>

MoreReturns ==
  /\ \/ /\ calls.more.pc = "served"
        /\ inbox' = AppendPage(inbox, calls.more.page, calls.more.ver)
     \/ calls.more.pc = "sent" /\ inbox' = inbox
  /\ calls' = [calls EXCEPT !.more = NoPage]
  /\ UNCHANGED <<notes, pushes, tale>>

\* A count that fails leaves the badge as it is.
CountReturns ==
  /\ \/ /\ calls.count.pc = "served" /\ UNCHANGED tale
        /\ inbox' = MergeUnreadCount(inbox, calls.count.n, calls.count.ver, calls.count.known)
     \/ /\ calls.count.pc = "sent" /\ inbox' = inbox
        /\ tale' = [tale EXCEPT !.missed = TRUE]
  /\ LET c == [calls EXCEPT !.count = NoCount]
     IN calls' = IF calls.count.loop THEN LoopGoesOn(c, inbox') ELSE c
  /\ UNCHANGED <<notes, pushes>>

SupersededCountReturns ==
  /\ calls.behind
  /\ calls' = LoopGoesOn([calls EXCEPT !.behind = FALSE], inbox)
  /\ UNCHANGED <<notes, pushes, inbox, tale>>

-----------------------------------------------------------------------------
(* Events.                                                                 *)

Deliver(e) ==
  LET p == ApplyEvent(inbox, e)
      c == [calls EXCEPT !.all.ambiguous = @ \/ (e.event = "read_all" /\ calls.all.pc # "none")]
  IN /\ pushes' = pushes \ {e} /\ inbox' = p
     /\ calls' = ReconcileOnEvent(
                   IF e.event = "read_all" /\ c.asked THEN LoadFirstPage(c, p) ELSE c, p)
     /\ tale' = [tale EXCEPT
          !.swept = IF e.event = "read_all" THEN @ \cup (KnownIds(inbox) \ e.ids) ELSE @,
          !.enveloped = IF e.event = "created" THEN @ \cup e.ids ELSE @]
     /\ UNCHANGED notes

\* No socket is open, or the push fails.
Lose(e) ==
  /\ pushes' = pushes \ {e} /\ tale' = [tale EXCEPT !.missed = TRUE]
  /\ UNCHANGED <<notes, inbox, calls>>

-----------------------------------------------------------------------------
(* What the user changes.                                                  *)

\* markRead
StartRead(i) ==
  /\ i \in DOMAIN inbox.list /\ ~inbox.list[i].read /\ calls.read[i] = "none"
  /\ calls' = [calls EXCEPT !.read[i] = "sent"]
  /\ Move /\ UNCHANGED <<notes, pushes, inbox>>

ReadServed(i) ==
  /\ calls.read[i] = "sent" /\ ServeRead(i)
  /\ calls' = [calls EXCEPT !.read[i] = "served"]
  /\ UNCHANGED <<inbox, tale>>

\* A success is handled as if the event had come.
ReadReturns(i) ==
  /\ \/ /\ calls.read[i] = "served"
        /\ inbox' = ApplyEvent(inbox, PushOf("read", {i}, FALSE))
        /\ calls' = Reconcile([calls EXCEPT !.read[i] = "none"], inbox', FALSE)
     \/ /\ calls.read[i] # "none" /\ inbox' = inbox
        /\ calls' = [calls EXCEPT !.read[i] = "none"]
  /\ UNCHANGED <<notes, pushes, tale>>

\* markAllRead: what was on the list when it began is read when it succeeds.
StartReadAll ==
  /\ calls.all.pc = "none" /\ (Unread(inbox.list) > 0 \/ inbox.badge # 0)
  /\ calls' = [calls EXCEPT !.all = [NoReadAll EXCEPT !.pc = "sent",
                                                      !.visible = DOMAIN inbox.list]]
  /\ Move /\ UNCHANGED <<notes, pushes, inbox>>

ReadAllServed ==
  /\ calls.all.pc = "sent" /\ ServeReadAll
  /\ calls' = [calls EXCEPT !.all.pc = "served", !.all.n = Unread(notes)]
  /\ UNCHANGED <<inbox, tale>>

ReadAllReturns ==
  /\ LET c == [calls EXCEPT !.all = NoReadAll]
     IN \/ /\ calls.all.pc = "served"
           /\ inbox' = ConfirmReadAll(inbox, calls.all.visible, calls.all.n, calls.all.ambiguous)
           /\ calls' = LoadAll(c, inbox')
        \/ calls.all.pc # "none" /\ inbox' = inbox /\ calls' = c
  /\ UNCHANGED <<notes, pushes, tale>>

\* respondToInvitation
StartAnswer(i) ==
  /\ i \in DOMAIN inbox.list /\ inbox.list[i].offers /\ calls.answer[i] = "none"
  /\ calls' = [calls EXCEPT !.answer[i] = "sent"]
  /\ Move /\ UNCHANGED <<notes, pushes, inbox>>

\* accept_invitation, decline_invitation; one who is a member all the same is left out.
AnswerServed(i) ==
  /\ calls.answer[i] = "sent"
  /\ calls' = [calls EXCEPT !.answer[i] = IF notes[i].offers THEN "served" ELSE "refused"]
  /\ notes' = [notes EXCEPT ![i].offers = FALSE]
  /\ UNCHANGED <<pushes, inbox, tale>>

\* 404 and 409 close the invitation too; no other error does.
AnswerReturns(i) ==
  /\ \/ /\ calls.answer[i] = "served"
        /\ inbox' = CloseInvitation(inbox, i)
        /\ calls' = [calls EXCEPT !.answer[i] = "reading"]
        /\ tale' = [tale EXCEPT !.answered = @ \cup {i}]
     \/ /\ calls.answer[i] = "refused"
        /\ inbox' = CloseInvitation(inbox, i)
        /\ calls' = LoadAll([calls EXCEPT !.answer[i] = "none"], inbox')
        /\ tale' = [tale EXCEPT !.answered = @ \cup {i}]
     \/ /\ calls.answer[i] \in {"sent", "served", "refused"}
        /\ calls' = [calls EXCEPT !.answer[i] = "none"]
        /\ UNCHANGED <<inbox, tale>>
  /\ UNCHANGED <<notes, pushes>>

AnsweredReadServed(i) ==
  /\ calls.answer[i] = "reading" /\ ServeRead(i)
  /\ calls' = [calls EXCEPT !.answer[i] = "read"]
  /\ UNCHANGED <<inbox, tale>>

AnsweredReadReturns(i) ==
  /\ \/ calls.answer[i] = "read" /\ inbox' = ApplyEvent(inbox, PushOf("read", {i}, FALSE))
     \/ calls.answer[i] \in {"reading", "read"} /\ inbox' = inbox
  /\ calls' = LoadAll([calls EXCEPT !.answer[i] = "none"], inbox')
  /\ UNCHANGED <<notes, pushes, tale>>

-----------------------------------------------------------------------------
\* The provider asks for the count when it is mounted; the events of what is
\* there by then are gone.
InboxInit ==
  /\ notes = [i \in 1..Before |-> FreshNote(i)]
  /\ pushes = {}
  /\ inbox = [list |-> Empty, badge |-> Unknown, version |-> 0, created |-> Empty,
              readBy |-> Empty, overrides |-> Empty, cursor |-> 0]
  /\ calls = Reconcile([first |-> NoPage, more |-> NoPage, count |-> NoCount, behind |-> FALSE,
                        wanted |-> FALSE, asked |-> FALSE, all |-> NoReadAll,
                        read |-> [i \in NoteIds |-> "none"], answer |-> [i \in NoteIds |-> "none"]],
                       inbox, FALSE)
  /\ tale = [missed |-> FALSE, swept |-> {}, enveloped |-> {}, answered |-> {}, moves |-> 0]

InboxNext ==
  \/ Notify \/ OtherDevice \/ Refresh \/ LoadMore
  \/ \E kind \in {"first", "more"} : ServePage(kind)
  \/ ServeCount \/ FirstPageReturns \/ MoreReturns \/ CountReturns \/ SupersededCountReturns
  \/ \E e \in pushes : Deliver(e) \/ Lose(e)
  \/ StartReadAll \/ ReadAllServed \/ ReadAllReturns
  \/ \E i \in NoteIds :
       \/ StartRead(i) \/ ReadServed(i) \/ ReadReturns(i)
       \/ StartAnswer(i) \/ AnswerServed(i) \/ AnswerReturns(i)
       \/ AnsweredReadServed(i) \/ AnsweredReadReturns(i)

InboxSpec == InboxInit /\ [][InboxNext]_inboxVars

-----------------------------------------------------------------------------
(* Properties.                                                             *)

Row == [read : BOOLEAN, offers : BOOLEAN]

\* Type invariant.
InboxTypeOK ==
  /\ \E n \in 0..MaxNotes : notes \in [1..n -> Row]
  /\ pushes \subseteq [event : {"created", "read", "read_all"}, ids : SUBSET NoteIds, offers : BOOLEAN]
  /\ \E S \in SUBSET NoteIds : inbox.list \in [S -> Row]
  /\ inbox.badge \in Nat \cup {Unknown} /\ inbox.version \in Nat /\ inbox.cursor \in 0..MaxNotes
  /\ \A i \in DOMAIN inbox.readBy : inbox.readBy[i] <= inbox.version
  /\ \A i \in DOMAIN inbox.overrides : inbox.overrides[i].ver <= inbox.version
  /\ calls.read \in [NoteIds -> {"none", "sent", "served"}]
  /\ calls.answer \in [NoteIds -> {"none", "sent", "served", "refused", "reading", "read"}]
  /\ ~(calls.behind /\ calls.count.loop) /\ (calls.wanted => calls.behind \/ calls.count.loop)

\* A row is shown as read only if it is; the one exception is what a read_all
\* event sweeps that is newer than the event.
ReadIsEarned ==
  \A i \in DOMAIN inbox.list : inbox.list[i].read => notes[i].read \/ i \in tale.swept

\* When all events and answers have arrived and no count failed since an event
\* was lost, the badge is the number of unread notifications or is withheld.
AtRest ==
  /\ pushes = {} /\ ~tale.missed /\ ~calls.behind
  /\ calls.first = NoPage /\ calls.more = NoPage /\ calls.count = NoCount /\ calls.all = NoReadAll
  /\ \A i \in NoteIds : calls.read[i] = "none" /\ calls.answer[i] = "none"

BadgeSettles ==
  AtRest => inbox.badge \in {Unread(notes), Unknown}

\* An invitation that was answered, or found closed, is offered again by no
\* page, however old; only a created envelope may.
AnswersHold ==
  \A i \in tale.answered \ tale.enveloped : i \in DOMAIN inbox.list => ~inbox.list[i].offers

\* What the list and the badge keep whatever order pages, counts, events and
\* the user's own changes come in (notificationRealtimeReducer, commitRealtimeState).
InboxSound == ReadIsEarned /\ BadgeSettles /\ AnswersHold

\* A row that is shown as read never turns unread while it stays, whatever page
\* comes late; one that a read_all event swept too early may.
ReadStays ==
  [][\A i \in (DOMAIN inbox.list \cap DOMAIN inbox'.list) \ tale.swept :
       inbox.list[i].read => inbox'.list[i].read]_inboxVars

=============================================================================
