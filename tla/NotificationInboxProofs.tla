---------------------- MODULE NotificationInboxProofs ----------------------
(***************************************************************************)
(* The notifications of a user on one phone, for any number of them, any   *)
(* size of a page and any order in which pages, counts, events and the     *)
(* user's own changes come: what is shown as read was read and stays so,   *)
(* an answered invitation is not offered again, and the badge settles on   *)
(* the number of unread notifications.                                     *)
(*                                                                         *)
(* The inductive invariant says of all that may still reach the list (rows *)
(* that came, marks, pages and counts under way, events) that it claims no *)
(* read that was not made; of a first page under way that it leaves read   *)
(* what is shown as read, for the page itself, a later mark or the row     *)
(* that came later says so; of a page that still offers an answered        *)
(* invitation that a later mark closes it; and of the badge that it is     *)
(* right unless an event, an answer or another count is still to come.     *)
(***************************************************************************)
EXTENDS NotificationInbox, FiniteSetTheorems, WellFoundedInduction, TLAPS

USE InboxBounds

(* Types.                                                                  *)

Partial(T) == UNION {[S -> T] : S \in SUBSET NoteIds}

Notices == [ver : Nat, row : Row]
Covers == [ver : Nat, read : BOOLEAN, closed : BOOLEAN]

Inboxes ==
  [list : Partial(Row), badge : Nat \cup {Unknown}, version : Nat, created : Partial(Notices),
   readBy : Partial(Nat), overrides : Partial(Covers), cursor : 0..MaxNotes]

Pages == [rows : Partial(Row), next : 0..MaxNotes]
PageCalls == [pc : {"none", "sent", "served"}, ver : Nat, from : 0..(MaxNotes + 1), page : Pages]
CountCalls == [pc : {"none", "sent", "served"}, ver : Nat, n : Nat, known : SUBSET NoteIds,
               loop : BOOLEAN]
ReadAllCalls == [pc : {"none", "sent", "served"}, visible : SUBSET NoteIds, n : Nat,
                 ambiguous : BOOLEAN]

Calls ==
  [first : PageCalls, more : PageCalls, count : CountCalls, behind : BOOLEAN, wanted : BOOLEAN,
   asked : BOOLEAN, all : ReadAllCalls, read : [NoteIds -> {"none", "sent", "served"}],
   answer : [NoteIds -> {"none", "sent", "served", "refused", "reading", "read"}]]

Tales == [missed : BOOLEAN, swept : SUBSET NoteIds, enveloped : SUBSET NoteIds,
          answered : SUBSET NoteIds, moves : Nat]

Pushes == [event : {"created", "read", "read_all"}, ids : SUBSET NoteIds, offers : BOOLEAN]

\* The numbers of the notifications are those up to how many there are.
NotesTyped == \E n \in 0..MaxNotes : notes \in [1..n -> Row]

Types ==
  NotesTyped /\ pushes \subseteq Pushes /\ inbox \in Inboxes /\ calls \in Calls /\ tale \in Tales

\* A loop has one request, and wants another only while it has it; a page
\* further down is given up for the first one; a page comes with the answer.
PageComes(c) == c.pc # "served" => c.page = NoPage.page

OneLoop ==
  /\ ~(calls.behind /\ calls.count.loop)
  /\ calls.wanted => calls.behind \/ calls.count.loop
  /\ calls.first.pc # "none" => calls.more.pc = "none"
  /\ PageComes(calls.first) /\ PageComes(calls.more)

-----------------------------------------------------------------------------
(* What may be shown.                                                      *)

\* Nothing is of a later version than p is.
Dated(p) ==
  /\ \A i \in DOMAIN p.created : p.created[i].ver <= p.version
  /\ \A i \in DOMAIN p.readBy : p.readBy[i] <= p.version
  /\ \A i \in DOMAIN p.overrides : p.overrides[i].ver <= p.version

Versions ==
  Dated(inbox) /\ calls.first.ver <= inbox.version /\ calls.more.ver <= inbox.version

\* i may be shown as read.
Earned(i) == i \in DOMAIN notes /\ (notes[i].read \/ i \in tale.swept)

InboxEarned ==
  /\ \A i \in DOMAIN inbox.list : i \in DOMAIN notes /\ (inbox.list[i].read => Earned(i))
  /\ \A i \in DOMAIN inbox.created :
       i \in DOMAIN notes /\ (inbox.created[i].row.read => Earned(i))
  /\ \A i \in DOMAIN inbox.readBy : Earned(i)
  /\ \A i \in DOMAIN inbox.overrides :
       i \in DOMAIN notes /\ (inbox.overrides[i].read => Earned(i))

\* All of S is read.
AllRead(S) == S \subseteq DOMAIN notes /\ \A i \in S : notes[i].read

PushTrue(e) ==
  /\ e.event \in {"created", "read"} => \E i \in DOMAIN notes : e.ids = {i}
  /\ e.event \in {"read", "read_all"} => AllRead(e.ids)

PageTrue(c) ==
  \A i \in DOMAIN c.page.rows : i \in DOMAIN notes /\ (c.page.rows[i].read => notes[i].read)

\* What the requests for one row have come to.
RowTrue(i) ==
  /\ calls.read[i] # "none" => i \in DOMAIN notes
  /\ calls.read[i] = "served" => notes[i].read
  /\ calls.answer[i] # "none" => i \in DOMAIN notes
  /\ calls.answer[i] = "read" => notes[i].read
  /\ calls.answer[i] \in {"served", "refused"} => ~notes[i].offers

CallsTrue ==
  /\ PageTrue(calls.first) /\ PageTrue(calls.more)
  /\ calls.count.known \subseteq DOMAIN notes
  /\ calls.count.pc = "served" /\ calls.count.n = 0 => AllRead(calls.count.known)
  /\ calls.all.visible \subseteq DOMAIN notes
  /\ calls.all.pc = "served" => AllRead(calls.all.visible)
  /\ \A i \in NoteIds : RowTrue(i)

\* i was read, or closed, after the request for a page.
ReadAfter(i, ver) ==
  i \in DOMAIN inbox.overrides /\ inbox.overrides[i].read /\ inbox.overrides[i].ver > ver
ClosedAfter(i, ver) ==
  i \in DOMAIN inbox.overrides /\ inbox.overrides[i].closed /\ inbox.overrides[i].ver > ver

\* i came after the request for the first page.
Late(i) == i \in DOMAIN inbox.created /\ inbox.created[i].ver > calls.first.ver

\* The first page, when it is merged, leaves i read if it leaves it.
PageKeeps(i) ==
  LET rows == calls.first.page.rows
  IN \/ i \in DOMAIN inbox.readBy
     \/ i \in DOMAIN rows /\ (rows[i].read \/ ReadAfter(i, calls.first.ver))
     \/ IF Late(i) THEN inbox.created[i].row.read ELSE i \notin DOMAIN rows

FirstPageKeeps ==
  calls.first.pc # "none" =>
    /\ \A i \in DOMAIN inbox.list \ tale.swept : inbox.list[i].read => PageKeeps(i)
    /\ \A i \in DOMAIN inbox.overrides :
         inbox.overrides[i].read /\ Late(i) =>
           i \in DOMAIN inbox.readBy \/ inbox.created[i].row.read

\* A page that still offers i is older than what closed it.
PageClosed(c, i) ==
  i \in DOMAIN c.page.rows /\ c.page.rows[i].offers => ClosedAfter(i, c.ver)

AnswersClosed ==
  /\ DOMAIN inbox.created \subseteq tale.enveloped
  /\ \A i \in tale.answered :
       /\ i \in DOMAIN notes /\ ~notes[i].offers
       /\ PageClosed(calls.first, i) /\ PageClosed(calls.more, i)

-----------------------------------------------------------------------------
(* The badge.                                                              *)

Answering == \E i \in NoteIds : calls.answer[i] \in {"reading", "read"}

\* Another count is to come, or one was missed.
Busy == pushes # {} \/ tale.missed \/ calls.wanted \/ Answering \/ calls.count.pc = "sent"

CountIsCurrent ==
  calls.count.pc # "none" /\ calls.count.ver # inbox.version => calls.wanted \/ Answering

\* The count that will be taken as it comes.
Taken == calls.count.pc = "served" /\ calls.count.ver = inbox.version

BadgeSettling ==
  /\ Busy \/ Taken \/ inbox.badge \in {Unread(notes), Unknown}
  /\ Busy \/ (Taken => calls.count.n = Unread(notes))

\* What may reach the list, and what the badge is to be.
Shown ==
  /\ Versions /\ InboxEarned /\ FirstPageKeeps /\ AnswersClosed /\ AnswersHold
Counted == CountIsCurrent /\ BadgeSettling

PushesTrue == \A e \in pushes : PushTrue(e)

Heard == OneLoop /\ PushesTrue /\ CallsTrue

InboxInv == Types /\ Heard /\ Shown /\ Counted

-----------------------------------------------------------------------------
(* Partial functions.                                                      *)

LEMMA PartialIs ==
  ASSUME NEW T, NEW f \in Partial(T)
  PROVE  /\ DOMAIN f \subseteq NoteIds /\ f \in [DOMAIN f -> T]
         /\ \A i \in DOMAIN f : f[i] \in T
BY DEF Partial

LEMMA IsPartial ==
  ASSUME NEW T, NEW S \in SUBSET NoteIds, NEW f \in [S -> T]
  PROVE  f \in Partial(T) /\ DOMAIN f = S
BY DEF Partial

LEMMA EmptyPartial ==
  ASSUME NEW T
  PROVE  Empty \in Partial(T) /\ DOMAIN Empty = {}
<1>1. Empty \in [{} -> T]
  BY DEF Empty
<1> QED BY <1>1, IsPartial

LEMMA OverIs ==
  ASSUME NEW T, NEW f \in Partial(T), NEW g \in Partial(T)
  PROVE  /\ Over(f, g) \in Partial(T)
         /\ \A i : i \in DOMAIN Over(f, g) <=> i \in DOMAIN f \/ i \in DOMAIN g
         /\ \A i \in DOMAIN f : Over(f, g)[i] = f[i]
         /\ \A i \in DOMAIN g : i \notin DOMAIN f => Over(f, g)[i] = g[i]
<1>1. Over(f, g) \in [DOMAIN f \cup DOMAIN g -> T]
  BY PartialIs DEF Over
<1>2. DOMAIN f \cup DOMAIN g \in SUBSET NoteIds
  BY PartialIs
<1>3. Over(f, g) \in Partial(T)
  BY <1>1, <1>2, IsPartial
<1> QED BY <1>3 DEF Over

LEMMA PutIs ==
  ASSUME NEW T, NEW f \in Partial(T), NEW i \in NoteIds, NEW x \in T
  PROVE  /\ Put(f, i, x) \in Partial(T)
         /\ \A j : j \in DOMAIN Put(f, i, x) <=> j \in DOMAIN f \/ j = i
         /\ Put(f, i, x)[i] = x
         /\ \A j \in DOMAIN f : j # i => Put(f, i, x)[j] = f[j]
<1>1. PICK g : g = [j \in {i} |-> x]
  OBVIOUS
<1>2. g \in [{i} -> T] /\ DOMAIN g = {i} /\ g[i] = x /\ {i} \in SUBSET NoteIds
  BY <1>1
<1>3. g \in Partial(T) /\ \A j : j \in DOMAIN g <=> j = i
  BY <1>2, IsPartial
<1>4. Put(f, i, x) = Over(g, f)
  BY <1>1 DEF Put
<1> QED BY <1>2, <1>3, <1>4, OverIs

LEMMA OnlyIs ==
  ASSUME NEW T, NEW f \in Partial(T), NEW S
  PROVE  /\ Only(S, f) \in Partial(T)
         /\ \A i : i \in DOMAIN Only(S, f) <=> i \in DOMAIN f /\ i \in S
         /\ \A i \in DOMAIN Only(S, f) : Only(S, f)[i] = f[i]
<1>1. Only(S, f) \in [DOMAIN f \cap S -> T] /\ DOMAIN f \cap S \in SUBSET NoteIds
  BY PartialIs DEF Only
<1>2. Only(S, f) \in Partial(T)
  BY <1>1, IsPartial
<1> QED BY <1>2 DEF Only

LEMMA MarkReadIs ==
  ASSUME NEW f \in Partial(Row), NEW S
  PROVE  /\ MarkRead(f, S) \in Partial(Row) /\ DOMAIN MarkRead(f, S) = DOMAIN f
         /\ \A i \in DOMAIN f : /\ MarkRead(f, S)[i].read <=> f[i].read \/ i \in S
                                /\ MarkRead(f, S)[i].offers = f[i].offers
<1> DEFINE Row1(i) == [f[i] EXCEPT !.read = @ \/ i \in S]
<1>1. ASSUME NEW i \in DOMAIN f
      PROVE  /\ Row1(i) \in Row
             /\ Row1(i).read <=> f[i].read \/ i \in S
             /\ Row1(i).offers = f[i].offers
  <2>1. PICK r : r = f[i]
    OBVIOUS
  <2>2. PICK b : b = (r.read \/ i \in S)
    OBVIOUS
  <2>3. b \in BOOLEAN /\ (b <=> (r.read \/ i \in S))
    BY <2>2, Zenon
  <2>4. r \in Row
    BY <2>1, PartialIs
  <2>5. Row1(i) = [r EXCEPT !.read = b]
    BY <2>1, <2>2
  <2>6. /\ [r EXCEPT !.read = b] \in Row /\ [r EXCEPT !.read = b].read = b
        /\ [r EXCEPT !.read = b].offers = r.offers
    BY <2>3, <2>4 DEF Row
  <2> HIDE DEF Row1
  <2> QED BY <2>1, <2>3, <2>5, <2>6, Zenon
<1>2. MarkRead(f, S) = [i \in DOMAIN f |-> Row1(i)]
  BY DEF MarkRead
<1> HIDE DEF Row1
<1>3. DOMAIN f \in SUBSET NoteIds
  BY PartialIs
<1>4. \A i \in DOMAIN f : Row1(i) \in Row
  BY <1>1
<1>5. MarkRead(f, S) \in [DOMAIN f -> Row]
  BY <1>2, <1>4
<1>6. \A i \in DOMAIN f : MarkRead(f, S)[i] = Row1(i)
  BY <1>2
<1>7. MarkRead(f, S) \in Partial(Row) /\ DOMAIN MarkRead(f, S) = DOMAIN f
  BY <1>3, <1>5, IsPartial
<1> QED BY <1>1, <1>6, <1>7, Zenon

LEMMA Dates ==
  ASSUME NEW c \in Partial(Notices), NEW o \in Partial(Covers)
  PROVE  /\ \A i \in DOMAIN c : c[i].ver \in Nat
         /\ \A i \in DOMAIN o : o[i].ver \in Nat
<1>1. \A n \in Notices : n.ver \in Nat
  BY DEF Notices
<1>2. \A m \in Covers : m.ver \in Nat
  BY DEF Covers
<1>3. \A i \in DOMAIN c : c[i] \in Notices
  BY PartialIs
<1>4. \A i \in DOMAIN o : o[i] \in Covers
  BY PartialIs
<1> QED BY <1>1, <1>2, <1>3, <1>4

-----------------------------------------------------------------------------
(* The reducer.                                                            *)

\* q has these fields.
Holds(q, l, b, v, c, r, o, k) ==
  /\ q \in Inboxes
  /\ q.list = l /\ q.badge = b /\ q.version = v /\ q.created = c /\ q.readBy = r
  /\ q.overrides = o /\ q.cursor = k

LEMMA InboxIs ==
  ASSUME NEW p \in Inboxes
  PROVE  /\ p.list \in Partial(Row) /\ p.badge \in Nat \cup {Unknown} /\ p.version \in Nat
         /\ p.created \in Partial(Notices) /\ p.readBy \in Partial(Nat)
         /\ p.overrides \in Partial(Covers) /\ p.cursor \in 0..MaxNotes
BY DEF Inboxes

LEMMA InboxExcept ==
  ASSUME NEW p \in Inboxes, NEW l \in Partial(Row), NEW b \in Nat \cup {Unknown}, NEW v \in Nat,
         NEW c \in Partial(Notices), NEW r \in Partial(Nat), NEW o \in Partial(Covers),
         NEW k \in 0..MaxNotes
  PROVE  /\ Holds([p EXCEPT !.list = l, !.badge = b, !.version = v, !.created = c],
                  l, b, v, c, p.readBy, p.overrides, p.cursor)
         /\ Holds([p EXCEPT !.version = v, !.list = l, !.readBy = r],
                  l, p.badge, v, p.created, r, p.overrides, p.cursor)
         /\ Holds([p EXCEPT !.version = v, !.overrides = o, !.list = l],
                  l, p.badge, v, p.created, p.readBy, o, p.cursor)
         /\ Holds([p EXCEPT !.list = l, !.cursor = k, !.created = c, !.readBy = r, !.overrides = o],
                  l, p.badge, p.version, c, r, o, k)
         /\ Holds([p EXCEPT !.list = l, !.cursor = k],
                  l, p.badge, p.version, p.created, p.readBy, p.overrides, k)
         /\ Holds([p EXCEPT !.overrides = o],
                  p.list, p.badge, p.version, p.created, p.readBy, o, p.cursor)
         /\ Holds([p EXCEPT !.list = l],
                  l, p.badge, p.version, p.created, p.readBy, p.overrides, p.cursor)
         /\ Holds([p EXCEPT !.badge = b],
                  p.list, b, p.version, p.created, p.readBy, p.overrides, p.cursor)
<1>1. /\ p.list \in Partial(Row) /\ p.badge \in Nat \cup {Unknown} /\ p.version \in Nat
      /\ p.created \in Partial(Notices) /\ p.readBy \in Partial(Nat)
      /\ p.overrides \in Partial(Covers) /\ p.cursor \in 0..MaxNotes
  BY InboxIs
<1>2. Holds([p EXCEPT !.list = l, !.badge = b, !.version = v, !.created = c],
            l, b, v, c, p.readBy, p.overrides, p.cursor)
  BY <1>1 DEF Holds, Inboxes
<1>3. Holds([p EXCEPT !.version = v, !.list = l, !.readBy = r],
            l, p.badge, v, p.created, r, p.overrides, p.cursor)
  BY <1>1 DEF Holds, Inboxes
<1>4. Holds([p EXCEPT !.version = v, !.overrides = o, !.list = l],
            l, p.badge, v, p.created, p.readBy, o, p.cursor)
  BY <1>1 DEF Holds, Inboxes
<1>5. Holds([p EXCEPT !.list = l, !.cursor = k, !.created = c, !.readBy = r, !.overrides = o],
            l, p.badge, p.version, c, r, o, k)
  BY <1>1 DEF Holds, Inboxes
<1>6. Holds([p EXCEPT !.list = l, !.cursor = k],
            l, p.badge, p.version, p.created, p.readBy, p.overrides, k)
  BY <1>1 DEF Holds, Inboxes
<1>7. /\ Holds([p EXCEPT !.overrides = o],
               p.list, p.badge, p.version, p.created, p.readBy, o, p.cursor)
      /\ Holds([p EXCEPT !.list = l],
               l, p.badge, p.version, p.created, p.readBy, p.overrides, p.cursor)
      /\ Holds([p EXCEPT !.badge = b],
               p.list, b, p.version, p.created, p.readBy, p.overrides, p.cursor)
  BY <1>1 DEF Holds, Inboxes
<1> QED BY <1>2, <1>3, <1>4, <1>5, <1>6, <1>7

LEMMA Overlaid ==
  ASSUME NEW r \in Row, NEW o \in Covers
  PROVE  /\ Overridden(r, o) \in Row
         /\ Overridden(r, o).read <=> r.read \/ o.read
         /\ Overridden(r, o).offers <=> r.offers /\ ~o.closed
<1>1. PICK a : a = (r.read \/ o.read)
  OBVIOUS
<1>2. PICK b : b = (r.offers /\ ~o.closed)
  OBVIOUS
<1>3. a \in BOOLEAN /\ b \in BOOLEAN /\ (a <=> r.read \/ o.read) /\ (b <=> r.offers /\ ~o.closed)
  BY <1>1, <1>2, Zenon
<1>4. Overridden(r, o) = [read |-> a, offers |-> b]
  BY <1>1, <1>2 DEF Overridden
<1>5. /\ [read |-> a, offers |-> b] \in Row /\ [read |-> a, offers |-> b].read = a
      /\ [read |-> a, offers |-> b].offers = b
  BY <1>3 DEF Row
<1> QED BY <1>3, <1>4, <1>5, Zenon

\* A mark of p, or none.
LEMMA OverrideIs ==
  ASSUME NEW p \in Inboxes, NEW i
  PROVE  /\ OverrideOf(p, i) \in Covers
         /\ OverrideOf(p, i).read <=> (i \in DOMAIN p.overrides /\ p.overrides[i].read)
         /\ OverrideOf(p, i).closed <=> (i \in DOMAIN p.overrides /\ p.overrides[i].closed)
         /\ i \in DOMAIN p.overrides => OverrideOf(p, i) = p.overrides[i]
         /\ i \notin DOMAIN p.overrides => OverrideOf(p, i) = NoOverride
<1>1. p.overrides \in Partial(Covers)
  BY InboxIs
<1>2. \A j \in DOMAIN p.overrides : p.overrides[j] \in Covers
  BY <1>1, PartialIs
<1>3. NoOverride \in Covers /\ ~NoOverride.read /\ ~NoOverride.closed
  BY DEF NoOverride, Covers
<1>4. CASE i \in DOMAIN p.overrides
  <2>1. OverrideOf(p, i) = p.overrides[i]
    BY <1>4 DEF OverrideOf
  <2> QED BY <1>2, <1>4, <2>1, Zenon
<1>5. CASE i \notin DOMAIN p.overrides
  <2>1. OverrideOf(p, i) = NoOverride
    BY <1>5 DEF OverrideOf
  <2> QED BY <1>3, <1>5, <2>1, Zenon
<1> QED BY <1>4, <1>5

\* The marks of p, those of S as read.
ReadMarks(o, p, S) ==
  /\ o \in Partial(Covers)
  /\ \A i : i \in DOMAIN o <=> i \in DOMAIN p.overrides \/ i \in S
  /\ \A i \in S : /\ o[i].ver = p.version /\ o[i].read
                  /\ i \in DOMAIN p.overrides /\ p.overrides[i].closed => o[i].closed
  /\ \A i \in DOMAIN p.overrides : i \notin S => o[i] = p.overrides[i]

LEMMA ReadOverrideIs ==
  ASSUME NEW p \in Inboxes, NEW S \in SUBSET NoteIds
  PROVE  \E o : /\ ReadMarks(o, p, S)
                /\ Holds(ReadOverride(p, S), p.list, p.badge, p.version, p.created, p.readBy, o,
                         p.cursor)
<1> DEFINE mark(i) == [OverrideOf(p, i) EXCEPT !.read = TRUE, !.ver = p.version]
<1>1. ASSUME NEW i \in S
      PROVE  /\ mark(i) \in Covers /\ mark(i).ver = p.version /\ mark(i).read
             /\ i \in DOMAIN p.overrides /\ p.overrides[i].closed => mark(i).closed
  <2>1. PICK m : m = OverrideOf(p, i)
    OBVIOUS
  <2>2. m \in Covers /\ p.version \in Nat
    BY <2>1, OverrideIs, InboxIs
  <2>3. PICK x : x = [m EXCEPT !.read = TRUE, !.ver = p.version]
    OBVIOUS
  <2>4. x \in Covers /\ x.ver = p.version /\ x.read = TRUE /\ x.closed = m.closed
    BY <2>2, <2>3 DEF Covers
  <2>5. mark(i) = x
    BY <2>1, <2>3
  <2>6. i \in DOMAIN p.overrides /\ p.overrides[i].closed => m.closed
    BY <2>1, OverrideIs
  <2> HIDE DEF mark
  <2> QED BY <2>4, <2>5, <2>6, Zenon
<1> HIDE DEF mark
<1>2. PICK g : g = [i \in S |-> mark(i)]
  OBVIOUS
<1>3. g \in Partial(Covers) /\ DOMAIN g = S /\ \A i \in S : g[i] = mark(i)
  <2>1. g \in [S -> Covers] /\ \A i \in S : g[i] = mark(i)
    BY <1>1, <1>2
  <2>2. g \in Partial(Covers) /\ DOMAIN g = S
    BY <2>1, IsPartial
  <2> QED BY <2>1, <2>2
<1>4. PICK o : o = Over(g, p.overrides)
  OBVIOUS
<1>5. /\ o \in Partial(Covers)
      /\ \A i : i \in DOMAIN o <=> i \in DOMAIN p.overrides \/ i \in S
      /\ \A i \in S : o[i] = mark(i)
      /\ \A i \in DOMAIN p.overrides : i \notin S => o[i] = p.overrides[i]
  <2>1. p.overrides \in Partial(Covers)
    BY InboxIs
  <2> QED BY <1>3, <1>4, <2>1, OverIs
<1>6. ReadMarks(o, p, S)
  BY <1>1, <1>5 DEF ReadMarks
<1>7. ReadOverride(p, S) = [p EXCEPT !.overrides = o]
  BY <1>2, <1>4 DEF ReadOverride, mark
<1>8. Holds([p EXCEPT !.overrides = o], p.list, p.badge, p.version, p.created, p.readBy, o,
            p.cursor)
  <2>1. /\ p.list \in Partial(Row) /\ p.badge \in Nat \cup {Unknown} /\ p.version \in Nat
        /\ p.created \in Partial(Notices) /\ p.readBy \in Partial(Nat) /\ p.cursor \in 0..MaxNotes
    BY InboxIs
  <2> QED BY <1>5, <2>1, InboxExcept
<1> QED BY <1>6, <1>7, <1>8

-----------------------------------------------------------------------------
(* What an event, an answer or the user makes of p: q, for which the rows  *)
(* of S were read, those of N came and those of C were closed.             *)

\* p says that i is read.
Claimed(p, i) ==
  \/ i \in DOMAIN p.list /\ p.list[i].read
  \/ i \in DOMAIN p.overrides /\ p.overrides[i].read
  \/ i \in DOMAIN p.readBy

ToldList(p, q, S, N, C) ==
  /\ \A i : i \in DOMAIN q.list <=> i \in DOMAIN p.list \/ i \in N
  /\ \A i \in DOMAIN p.list : p.list[i].read => q.list[i].read
  /\ \A i \in DOMAIN q.list :
       /\ q.list[i].read => i \in S \/ Claimed(p, i)
       /\ q.list[i].read => \/ i \in DOMAIN p.list /\ p.list[i].read
                            \/ i \in DOMAIN q.readBy \/ i \in N
                            \/ i \in C /\ q.overrides[i].read
       /\ q.list[i].offers => i \in N \/ (i \notin C /\ i \in DOMAIN p.list /\ p.list[i].offers)

ToldCreated(p, q, N) ==
  /\ \A i : i \in DOMAIN q.created <=> i \in DOMAIN p.created \/ i \in N
  /\ \A i \in DOMAIN p.created : i \notin N => q.created[i] = p.created[i]
  /\ \A i \in N : /\ q.created[i].ver = q.version /\ q.version > p.version
                  /\ q.created[i].row = q.list[i]
                  /\ i \in DOMAIN p.overrides /\ p.overrides[i].read => q.list[i].read

ToldReadBy(p, q, S) ==
  /\ \A i : i \in DOMAIN q.readBy <=> i \in DOMAIN p.readBy \/ i \in S
  /\ \A i \in DOMAIN q.readBy :
       q.readBy[i] = q.version \/ (i \in DOMAIN p.readBy /\ q.readBy[i] = p.readBy[i])

ToldOverrides(p, q, S, C) ==
  /\ \A i : i \in DOMAIN q.overrides <=> i \in DOMAIN p.overrides \/ i \in S \/ i \in C
  /\ \A i \in DOMAIN q.overrides : i \in S \/ i \in C => q.overrides[i].ver = q.version
  /\ \A i \in DOMAIN p.overrides : i \notin S /\ i \notin C => q.overrides[i] = p.overrides[i]
  /\ \A i \in DOMAIN p.overrides : /\ p.overrides[i].read => q.overrides[i].read
                                   /\ p.overrides[i].closed => q.overrides[i].closed
  /\ \A i \in DOMAIN q.overrides :
       q.overrides[i].read => i \in S \/ (i \in DOMAIN p.overrides /\ p.overrides[i].read)
  /\ \A i \in C : q.overrides[i].closed /\ q.version > p.version

Told(p, q, S, N, C) ==
  /\ q \in Inboxes /\ q.version >= p.version /\ q.cursor = p.cursor
  /\ ToldList(p, q, S, N, C) /\ ToldCreated(p, q, N)
  /\ ToldReadBy(p, q, S) /\ ToldOverrides(p, q, S, C)

LEMMA ToldNothing ==
  ASSUME NEW p \in Inboxes
  PROVE  Told(p, p, {}, {}, {})
<1>1. p.version \in Nat
  BY InboxIs
<1> QED BY <1>1 DEF Told, ToldList, ToldCreated, ToldReadBy, ToldOverrides, Claimed

\* The badge is told apart.
LEMMA ToldBadge ==
  ASSUME NEW p \in Inboxes, NEW p0 \in Inboxes, NEW q \in Inboxes, NEW r \in Inboxes,
         NEW S, NEW N, NEW C, Told(p0, q, S, N, C),
         p0.list = p.list, p0.version = p.version, p0.created = p.created, p0.readBy = p.readBy,
         p0.overrides = p.overrides, p0.cursor = p.cursor,
         r.list = q.list, r.version = q.version, r.created = q.created, r.readBy = q.readBy,
         r.overrides = q.overrides, r.cursor = q.cursor
  PROVE  Told(p, r, S, N, C)
BY DEF Told, ToldList, ToldCreated, ToldReadBy, ToldOverrides, Claimed

LEMMA ReadOverrideTold ==
  ASSUME NEW p \in Inboxes, NEW S \in SUBSET NoteIds, NEW l, l = MarkRead(p.list, S),
         \A i \in S : i \in DOMAIN p.readBy
  PROVE  /\ Told(p, ReadOverride([p EXCEPT !.list = l], S), S, {}, {})
         /\ ReadOverride([p EXCEPT !.list = l], S).badge = p.badge
<1>1. /\ l \in Partial(Row)
      /\ \A i : i \in DOMAIN l <=> i \in DOMAIN p.list
      /\ \A i \in DOMAIN p.list : /\ l[i].read <=> p.list[i].read \/ i \in S
                                  /\ l[i].offers = p.list[i].offers
  <2>1. p.list \in Partial(Row)
    BY InboxIs
  <2> QED BY <2>1, MarkReadIs
<1>2. PICK p1 : p1 = [p EXCEPT !.list = l]
  OBVIOUS
<1>3. Holds(p1, l, p.badge, p.version, p.created, p.readBy, p.overrides, p.cursor)
  <2>1. /\ p.badge \in Nat \cup {Unknown} /\ p.version \in Nat /\ p.created \in Partial(Notices)
        /\ p.readBy \in Partial(Nat) /\ p.overrides \in Partial(Covers) /\ p.cursor \in 0..MaxNotes
    BY InboxIs
  <2> QED BY <1>1, <1>2, <2>1, InboxExcept
<1>4. p1 \in Inboxes
  BY <1>3 DEF Holds
<1>5. PICK o : /\ ReadMarks(o, p1, S)
               /\ Holds(ReadOverride(p1, S), p1.list, p1.badge, p1.version, p1.created, p1.readBy,
                        o, p1.cursor)
  BY <1>4, ReadOverrideIs
<1>6. PICK q : q = ReadOverride(p1, S)
  OBVIOUS
<1>7. Holds(q, l, p.badge, p.version, p.created, p.readBy, o, p.cursor)
  BY <1>3, <1>5, <1>6 DEF Holds
<1>8. ReadMarks(o, p, S)
  BY <1>3, <1>5 DEF Holds, ReadMarks
<1>9. p.version \in Nat
  BY InboxIs
<1>10. ToldList(p, q, S, {}, {})
  BY <1>1, <1>7, Zenon DEF Holds, ToldList, Claimed
<1>11. ToldCreated(p, q, {}) /\ ToldReadBy(p, q, S)
  BY <1>7 DEF Holds, ToldCreated, ToldReadBy
<1>12. ToldOverrides(p, q, S, {})
  BY <1>7, <1>8, Zenon DEF Holds, ToldOverrides, ReadMarks
<1> QED BY <1>2, <1>6, <1>7, <1>9, <1>10, <1>11, <1>12 DEF Told, Holds

LEMMA ReadAsOfNowTold ==
  ASSUME NEW p \in Inboxes, NEW S \in SUBSET NoteIds
  PROVE  /\ Told(p, ReadAsOfNow(p, S), S, {}, {}) /\ ReadAsOfNow(p, S).badge = p.badge
         /\ ReadAsOfNow(p, S).version = p.version + 1
<1>1. PICK l : l = MarkRead(p.list, S)
  OBVIOUS
<1>2. PICK v : v = p.version + 1
  OBVIOUS
<1>3. PICK r : r = Over([i \in S |-> v], p.readBy)
  OBVIOUS
<1>4. /\ l \in Partial(Row)
      /\ \A i : i \in DOMAIN l <=> i \in DOMAIN p.list
      /\ \A i \in DOMAIN p.list : /\ l[i].read <=> p.list[i].read \/ i \in S
                                  /\ l[i].offers = p.list[i].offers
  <2>1. p.list \in Partial(Row)
    BY InboxIs
  <2> QED BY <1>1, <2>1, MarkReadIs
<1>5. /\ p.badge \in Nat \cup {Unknown} /\ p.version \in Nat /\ p.created \in Partial(Notices)
      /\ p.readBy \in Partial(Nat) /\ p.overrides \in Partial(Covers) /\ p.cursor \in 0..MaxNotes
  BY InboxIs
<1>6. v \in Nat
  BY <1>2, <1>5
<1>7. /\ r \in Partial(Nat)
      /\ \A i : i \in DOMAIN r <=> i \in DOMAIN p.readBy \/ i \in S
      /\ \A i \in DOMAIN r : r[i] = v \/ (i \in DOMAIN p.readBy /\ r[i] = p.readBy[i])
  <2>1. PICK g : g = [i \in S |-> v]
    OBVIOUS
  <2>2. g \in [S -> Nat] /\ DOMAIN g = S /\ \A i \in S : g[i] = v
    BY <1>6, <2>1
  <2>3. g \in Partial(Nat)
    BY <2>2, IsPartial
  <2>4. r = Over(g, p.readBy)
    BY <1>3, <2>1
  <2> QED BY <1>5, <2>2, <2>3, <2>4, OverIs
<1>8. PICK p1 : p1 = [p EXCEPT !.version = v, !.list = l, !.readBy = r]
  OBVIOUS
<1>9. Holds(p1, l, p.badge, v, p.created, r, p.overrides, p.cursor)
  BY <1>4, <1>5, <1>6, <1>7, <1>8, InboxExcept
<1>10. p1 \in Inboxes
  BY <1>9 DEF Holds
<1>11. PICK o : /\ ReadMarks(o, p1, S)
                /\ Holds(ReadOverride(p1, S), p1.list, p1.badge, p1.version, p1.created, p1.readBy,
                         o, p1.cursor)
  BY <1>10, ReadOverrideIs
<1>12. PICK q : q = ReadOverride(p1, S)
  OBVIOUS
<1>13. Holds(q, l, p.badge, v, p.created, r, o, p.cursor)
  BY <1>9, <1>11, <1>12 DEF Holds
<1>14. ReadAsOfNow(p, S) = q
  BY <1>1, <1>2, <1>3, <1>8, <1>12 DEF ReadAsOfNow
<1>15. ToldList(p, q, S, {}, {})
  BY <1>4, <1>7, <1>13, Zenon DEF Holds, ToldList, Claimed
<1>16. ToldCreated(p, q, {}) /\ ToldReadBy(p, q, S)
  BY <1>7, <1>13 DEF Holds, ToldCreated, ToldReadBy
<1>17. ToldOverrides(p, q, S, {})
  BY <1>9, <1>11, <1>13, Zenon DEF Holds, ToldOverrides, ReadMarks
<1>18. q.version >= p.version
  BY <1>2, <1>5, <1>13 DEF Holds
<1> QED BY <1>2, <1>13, <1>14, <1>15, <1>16, <1>17, <1>18 DEF Told, Holds

LEMMA Adjusted ==
  ASSUME NEW b \in Nat \cup {Unknown}, NEW d \in Int
  PROVE  Adjust(b, d) \in Nat \cup {Unknown}
BY DEF Adjust, Unknown

\* Commit changes nothing but the badge, and that only to unknown.
LEMMA Committed ==
  ASSUME NEW p \in Inboxes
  PROVE  \E b \in {p.badge, Unknown} :
           Holds(CommitRealtimeState(p), p.list, b, p.version, p.created, p.readBy, p.overrides,
                 p.cursor)
<1>1. /\ p.list \in Partial(Row) /\ p.badge \in Nat \cup {Unknown} /\ p.version \in Nat
      /\ p.created \in Partial(Notices) /\ p.readBy \in Partial(Nat)
      /\ p.overrides \in Partial(Covers) /\ p.cursor \in 0..MaxNotes
  BY InboxIs
<1>2. Unknown \in Nat \cup {Unknown}
  OBVIOUS
<1>3. Holds([p EXCEPT !.badge = Unknown], p.list, Unknown, p.version, p.created, p.readBy,
            p.overrides, p.cursor)
  BY <1>1, <1>2, InboxExcept
<1>4. Holds(p, p.list, p.badge, p.version, p.created, p.readBy, p.overrides, p.cursor)
  BY DEF Holds
<1>5. CommitRealtimeState(p) = p \/ CommitRealtimeState(p) = [p EXCEPT !.badge = Unknown]
  BY DEF CommitRealtimeState
<1> QED BY <1>3, <1>4, <1>5, Zenon

LEMMA CommitTold ==
  ASSUME NEW p \in Inboxes, NEW q \in Inboxes, NEW S, NEW N, NEW C, Told(p, q, S, N, C)
  PROVE  /\ Told(p, CommitRealtimeState(q), S, N, C)
         /\ CommitRealtimeState(q).badge \in {q.badge, Unknown}
         /\ CommitRealtimeState(q).version = q.version
<1>1. PICK r : r = CommitRealtimeState(q)
  OBVIOUS
<1>2. PICK b \in {q.badge, Unknown} :
        Holds(r, q.list, b, q.version, q.created, q.readBy, q.overrides, q.cursor)
  BY <1>1, Committed
<1>3. /\ r \in Inboxes /\ r.list = q.list /\ r.badge = b /\ r.version = q.version
      /\ r.created = q.created /\ r.readBy = q.readBy /\ r.overrides = q.overrides
      /\ r.cursor = q.cursor
  BY <1>2 DEF Holds
<1>4. Told(p, r, S, N, C)
  BY <1>3, ToldBadge
<1> QED BY <1>1, <1>2, <1>3, <1>4

\* The badge of p or of q is set besides.
LEMMA BadgeTold ==
  ASSUME NEW p \in Inboxes, NEW b \in Nat \cup {Unknown}, NEW S, NEW N, NEW C
  PROVE  /\ [p EXCEPT !.badge = b] \in Inboxes
         /\ \A q \in Inboxes : Told([p EXCEPT !.badge = b], q, S, N, C) => Told(p, q, S, N, C)
         /\ \A q \in Inboxes : Told(q, p, S, N, C) => Told(q, [p EXCEPT !.badge = b], S, N, C)
         /\ [p EXCEPT !.badge = b].badge = b
         /\ [p EXCEPT !.badge = b].version = p.version
<1>1. /\ p.list \in Partial(Row) /\ p.badge \in Nat \cup {Unknown} /\ p.version \in Nat
      /\ p.created \in Partial(Notices) /\ p.readBy \in Partial(Nat)
      /\ p.overrides \in Partial(Covers) /\ p.cursor \in 0..MaxNotes
  BY InboxIs
<1>2. PICK r : r = [p EXCEPT !.badge = b]
  OBVIOUS
<1>3. Holds(r, p.list, b, p.version, p.created, p.readBy, p.overrides, p.cursor)
  BY <1>1, <1>2, InboxExcept
<1>4. /\ r \in Inboxes /\ r.list = p.list /\ r.badge = b /\ r.version = p.version
      /\ r.created = p.created /\ r.readBy = p.readBy /\ r.overrides = p.overrides
      /\ r.cursor = p.cursor
  BY <1>3 DEF Holds
<1>5. ASSUME NEW q \in Inboxes, Told(r, q, S, N, C) PROVE Told(p, q, S, N, C)
  BY <1>4, <1>5, ToldBadge
<1>6. ASSUME NEW q \in Inboxes, Told(q, p, S, N, C) PROVE Told(q, r, S, N, C)
  BY <1>4, <1>6, ToldBadge
<1> QED BY <1>2, <1>4, <1>5, <1>6

LEMMA CreatedTold ==
  ASSUME NEW p \in Inboxes, NEW i \in NoteIds, NEW offers \in BOOLEAN
  PROVE  Told(p, ApplyCreated(p, i, offers), {}, {i}, {})
<1>1. PICK o : o = OverrideOf(p, i)
  OBVIOUS
<1>2. o \in Covers /\ (o.read <=> i \in DOMAIN p.overrides /\ p.overrides[i].read)
  BY <1>1, OverrideIs
<1>3. PICK fresh : fresh = [read |-> FALSE, offers |-> offers]
  OBVIOUS
<1>4. fresh \in Row /\ ~fresh.read
  BY <1>3 DEF Row
<1>5. PICK row : row = Overridden(fresh, o)
  OBVIOUS
<1>6. row \in Row /\ (row.read <=> fresh.read \/ o.read)
  BY <1>2, <1>4, <1>5, Overlaid
<1>7. PICK known : known = ((i \in DOMAIN p.list /\ p.list[i].read) \/ i \in DOMAIN p.readBy)
  OBVIOUS
<1>8. PICK r : r = (row.read \/ known)
  OBVIOUS
<1>9. r \in BOOLEAN /\ (r <=> row.read \/ known)
      /\ (known <=> (i \in DOMAIN p.list /\ p.list[i].read) \/ i \in DOMAIN p.readBy)
  BY <1>7, <1>8, Zenon
<1>10. PICK e : e = [row EXCEPT !.read = r]
  OBVIOUS
<1>11. e \in Row /\ e.read = r
  BY <1>6, <1>9, <1>10 DEF Row
<1>12. /\ p.list \in Partial(Row) /\ p.badge \in Nat \cup {Unknown} /\ p.version \in Nat
       /\ p.created \in Partial(Notices) /\ p.readBy \in Partial(Nat)
       /\ p.overrides \in Partial(Covers) /\ p.cursor \in 0..MaxNotes
  BY InboxIs
<1>13. PICK v : v = p.version + 1
  OBVIOUS
<1>14. PICK n : n = [ver |-> v, row |-> e]
  OBVIOUS
<1>15. v \in Nat /\ n \in Notices /\ n.ver = v /\ n.row = e
  BY <1>11, <1>12, <1>13, <1>14 DEF Notices
<1>16. PICK b : b = Adjust(p.badge, IF i \in DOMAIN p.list \/ e.read THEN 0 ELSE 1)
  OBVIOUS
<1>17. b \in Nat \cup {Unknown}
  <2>1. PICK d : d = IF i \in DOMAIN p.list \/ e.read THEN 0 ELSE 1
    OBVIOUS
  <2>2. d \in Int
    BY <2>1
  <2> QED BY <1>12, <1>16, <2>1, <2>2, Adjusted
<1>18. PICK l : l = Put(p.list, i, e)
  OBVIOUS
<1>19. PICK c : c = Put(p.created, i, n)
  OBVIOUS
<1>20. /\ l \in Partial(Row) /\ l[i] = e
       /\ \A j : j \in DOMAIN l <=> j \in DOMAIN p.list \/ j = i
       /\ \A j \in DOMAIN p.list : j # i => l[j] = p.list[j]
  BY <1>11, <1>12, <1>18, PutIs
<1>21. /\ c \in Partial(Notices) /\ c[i] = n
       /\ \A j : j \in DOMAIN c <=> j \in DOMAIN p.created \/ j = i
       /\ \A j \in DOMAIN p.created : j # i => c[j] = p.created[j]
  BY <1>12, <1>15, <1>19, PutIs
<1>22. PICK q : q = [p EXCEPT !.list = l, !.badge = b, !.version = v, !.created = c]
  OBVIOUS
<1>23. ApplyCreated(p, i, offers) = q
  BY <1>1, <1>3, <1>5, <1>7, <1>8, <1>10, <1>13, <1>14, <1>16, <1>18, <1>19, <1>22
  DEF ApplyCreated
<1>24. Holds(q, l, b, v, c, p.readBy, p.overrides, p.cursor)
  BY <1>12, <1>15, <1>17, <1>20, <1>21, <1>22, InboxExcept
<1>25. ToldList(p, q, {}, {i}, {})
  <2>1. e.read <=> Claimed(p, i)
    BY <1>2, <1>4, <1>6, <1>9, <1>11, Zenon DEF Claimed
  <2>2. i \in DOMAIN p.list /\ p.list[i].read => e.read
    BY <2>1 DEF Claimed
  <2> QED BY <1>20, <1>24, <2>1, <2>2 DEF Holds, ToldList, Claimed
<1>26. ToldCreated(p, q, {i})
  <2>1. i \in DOMAIN p.overrides /\ p.overrides[i].read => e.read
    BY <1>2, <1>4, <1>6, <1>9, <1>11, Zenon
  <2>2. v > p.version
    BY <1>12, <1>13
  <2> QED BY <1>15, <1>20, <1>21, <1>24, <2>1, <2>2 DEF Holds, ToldCreated
<1>27. ToldReadBy(p, q, {}) /\ ToldOverrides(p, q, {}, {})
  BY <1>24 DEF Holds, ToldReadBy, ToldOverrides
<1> QED BY <1>12, <1>13, <1>23, <1>24, <1>25, <1>26, <1>27 DEF Told, Holds

LEMMA ReadTold ==
  ASSUME NEW p \in Inboxes, NEW i \in NoteIds
  PROVE  Told(p, ApplyRead(p, i), {i}, {}, {})
<1>1. {i} \in SUBSET NoteIds
  OBVIOUS
<1>2. CASE i \in DOMAIN p.readBy
  <2>1. PICK l : l = MarkRead(p.list, {i})
    OBVIOUS
  <2>2. Told(p, ReadOverride([p EXCEPT !.list = l], {i}), {i}, {}, {})
    BY <1>1, <1>2, <2>1, ReadOverrideTold
  <2> QED BY <1>2, <2>1, <2>2 DEF ApplyRead
<1>3. CASE i \notin DOMAIN p.readBy
  <2>1. PICK d \in Int : d = IF i \in DOMAIN p.list /\ p.list[i].read THEN 0 ELSE -1
    OBVIOUS
  <2>2. PICK b : b = IF i \notin DOMAIN p.list THEN Unknown
                     ELSE Adjust(p.badge, IF p.list[i].read THEN 0 ELSE -1)
    OBVIOUS
  <2>3. b \in Nat \cup {Unknown}
    <3>1. p.badge \in Nat \cup {Unknown}
      BY InboxIs
    <3>2. Adjust(p.badge, d) \in Nat \cup {Unknown}
      BY <3>1, Adjusted
    <3> QED BY <2>1, <2>2, <3>2
  <2>4. PICK p1 : p1 = [p EXCEPT !.badge = b]
    OBVIOUS
  <2>5. p1 \in Inboxes
    BY <2>3, <2>4, BadgeTold
  <2>6. PICK q : q = ReadAsOfNow(p1, {i})
    OBVIOUS
  <2>7. Told(p1, q, {i}, {}, {})
    BY <1>1, <2>5, <2>6, ReadAsOfNowTold
  <2>8. q \in Inboxes
    BY <2>7 DEF Told
  <2>9. Told(p, q, {i}, {}, {})
    BY <2>3, <2>4, <2>7, <2>8, BadgeTold
  <2>10. ApplyRead(p, i) = q
    BY <1>3, <2>2, <2>4, <2>6 DEF ApplyRead
  <2> QED BY <2>9, <2>10
<1> QED BY <1>2, <1>3

LEMMA KnownIdsAre ==
  ASSUME NEW p \in Inboxes
  PROVE  /\ KnownIds(p) \in SUBSET NoteIds
         /\ \A i \in KnownIds(p) :
              i \in DOMAIN p.list \/ i \in DOMAIN p.created \/ i \in DOMAIN p.readBy
BY InboxIs, PartialIs DEF KnownIds

LEMMA ReadAllTold ==
  ASSUME NEW p \in Inboxes, NEW S, S = KnownIds(p)
  PROVE  Told(p, ApplyReadAll(p), S, {}, {})
<1>1. S \in SUBSET NoteIds
  BY KnownIdsAre
<1>2. PICK q : q = ReadAsOfNow(p, S)
  OBVIOUS
<1>3. Told(p, q, S, {}, {})
  BY <1>1, <1>2, ReadAsOfNowTold
<1>4. q \in Inboxes
  BY <1>3 DEF Told
<1>5. PICK b \in Nat \cup {Unknown} : b = 0
  OBVIOUS
<1>6. Told(p, [q EXCEPT !.badge = b], S, {}, {})
  BY <1>3, <1>4, BadgeTold
<1> QED BY <1>2, <1>5, <1>6 DEF ApplyReadAll

LEMMA TheOne ==
  ASSUME NEW i
  PROVE  (CHOOSE j \in {i} : TRUE) = i
OBVIOUS

\* The rows that an event says are read, and those that it brings.
SaidRead(p, e) ==
  IF e.event = "created" THEN {} ELSE IF e.event = "read" THEN e.ids ELSE KnownIds(p)
Brought(e) == IF e.event = "created" THEN e.ids ELSE {}

LEMMA EventTold ==
  ASSUME NEW p \in Inboxes, NEW e \in Pushes,
         e.event \in {"created", "read"} => \E i \in NoteIds : e.ids = {i}
  PROVE  Told(p, ApplyEvent(p, e), SaidRead(p, e), Brought(e), {})
<1>1. PICK S : S = SaidRead(p, e)
  OBVIOUS
<1>2. PICK N : N = Brought(e)
  OBVIOUS
<1>3. ASSUME NEW q, ApplyEvent(p, e) = CommitRealtimeState(q), Told(p, q, S, N, {})
      PROVE  Told(p, ApplyEvent(p, e), S, N, {})
  <2>1. q \in Inboxes
    BY <1>3 DEF Told
  <2> QED BY <1>3, <2>1, CommitTold
<1>4. e.event \in {"created", "read", "read_all"} /\ e.offers \in BOOLEAN
  BY DEF Pushes
<1>5. CASE e.event = "created"
  <2>1. PICK i \in NoteIds : e.ids = {i}
    BY <1>5
  <2>2. (CHOOSE j \in e.ids : TRUE) = i
    BY <2>1, TheOne
  <2>3. Told(p, ApplyCreated(p, i, e.offers), {}, {i}, {})
    BY <1>4, CreatedTold
  <2>4. S = {} /\ N = {i}
    BY <1>1, <1>2, <1>5, <2>1 DEF SaidRead, Brought
  <2>5. ApplyEvent(p, e) = CommitRealtimeState(ApplyCreated(p, i, e.offers))
    BY <1>5, <2>2 DEF ApplyEvent
  <2> QED BY <1>1, <1>2, <1>3, <2>3, <2>4, <2>5
<1>6. CASE e.event = "read"
  <2>1. PICK i \in NoteIds : e.ids = {i}
    BY <1>6
  <2>2. (CHOOSE j \in e.ids : TRUE) = i
    BY <2>1, TheOne
  <2>3. Told(p, ApplyRead(p, i), {i}, {}, {})
    BY ReadTold
  <2>4. S = {i} /\ N = {}
    BY <1>1, <1>2, <1>6, <2>1 DEF SaidRead, Brought
  <2>5. ApplyEvent(p, e) = CommitRealtimeState(ApplyRead(p, i))
    BY <1>6, <2>2 DEF ApplyEvent
  <2> QED BY <1>1, <1>2, <1>3, <2>3, <2>4, <2>5
<1>7. CASE e.event = "read_all"
  <2>1. S = KnownIds(p) /\ N = {}
    BY <1>1, <1>2, <1>7 DEF SaidRead, Brought
  <2>2. Told(p, ApplyReadAll(p), S, {}, {})
    BY <2>1, ReadAllTold
  <2>3. ApplyEvent(p, e) = CommitRealtimeState(ApplyReadAll(p))
    BY <1>7 DEF ApplyEvent
  <2> QED BY <1>1, <1>2, <1>3, <2>1, <2>2, <2>3
<1> QED BY <1>4, <1>5, <1>6, <1>7

\* A count that comes too late says nothing; zero says that the known rows are read.
LEMMA CountTold ==
  ASSUME NEW p \in Inboxes, NEW n \in Nat, NEW ver, NEW known \in SUBSET NoteIds
  PROVE  LET q == MergeUnreadCount(p, n, ver, known)
         IN /\ Told(p, q, {}, {}, {}) \/ (n = 0 /\ Told(p, q, known, {}, {}))
            /\ ver = p.version => q.badge \in {n, Unknown}
            /\ ver # p.version => q = p
<1>1. CASE ver # p.version
  BY <1>1, ToldNothing DEF MergeUnreadCount
<1>2. CASE ver = p.version /\ n > 0
  <2>1. PICK q : q = [p EXCEPT !.badge = n]
    OBVIOUS
  <2>2. /\ q \in Inboxes /\ q.badge = n
        /\ Told(p, p, {}, {}, {}) => Told(p, q, {}, {}, {})
    BY <2>1, BadgeTold
  <2>3. Told(p, q, {}, {}, {})
    BY <2>2, ToldNothing
  <2>4. MergeUnreadCount(p, n, ver, known) = CommitRealtimeState(q)
    BY <1>2, <2>1 DEF MergeUnreadCount
  <2>5. Told(p, CommitRealtimeState(q), {}, {}, {}) /\ CommitRealtimeState(q).badge \in {n, Unknown}
    BY <2>2, <2>3, CommitTold
  <2> QED BY <1>2, <2>4, <2>5
<1>3. CASE ver = p.version /\ n = 0
  <2>1. PICK r : r = ReadAsOfNow(p, known)
    OBVIOUS
  <2>2. Told(p, r, known, {}, {})
    BY <2>1, ReadAsOfNowTold
  <2>3. r \in Inboxes
    BY <2>2 DEF Told
  <2>4. PICK q : q = [r EXCEPT !.badge = n]
    OBVIOUS
  <2>5. q \in Inboxes /\ q.badge = n /\ Told(p, q, known, {}, {})
    BY <2>2, <2>3, <2>4, BadgeTold
  <2>6. MergeUnreadCount(p, n, ver, known) = CommitRealtimeState(q)
    BY <1>3, <2>1, <2>4 DEF MergeUnreadCount
  <2>7. /\ Told(p, CommitRealtimeState(q), known, {}, {})
        /\ CommitRealtimeState(q).badge \in {n, Unknown}
    BY <2>5, CommitTold
  <2> QED BY <1>3, <2>6, <2>7
<1> QED BY <1>1, <1>2, <1>3

LEMMA ConfirmTold ==
  ASSUME NEW p \in Inboxes, NEW S \in SUBSET NoteIds, NEW n \in Nat, NEW ambiguous \in BOOLEAN
  PROVE  Told(p, ConfirmReadAll(p, S, n, ambiguous), S, {}, {})
<1>1. PICK r : r = ReadAsOfNow(p, S)
  OBVIOUS
<1>2. Told(p, r, S, {}, {})
  BY <1>1, ReadAsOfNowTold
<1>3. r \in Inboxes
  BY <1>2 DEF Told
<1>4. PICK b : b = IF ambiguous THEN Unknown ELSE Adjust(r.badge, -n)
  OBVIOUS
<1>5. b \in Nat \cup {Unknown}
  <2>1. r.badge \in Nat \cup {Unknown}
    BY <1>3, InboxIs
  <2>2. PICK d \in Int : d = -n
    OBVIOUS
  <2>3. Adjust(r.badge, d) \in Nat \cup {Unknown}
    BY <2>1, Adjusted
  <2> QED BY <1>4, <2>2, <2>3
<1>6. PICK q : q = [r EXCEPT !.badge = b]
  OBVIOUS
<1>7. q \in Inboxes /\ Told(p, q, S, {}, {})
  BY <1>2, <1>3, <1>5, <1>6, BadgeTold
<1>8. ConfirmReadAll(p, S, n, ambiguous) = CommitRealtimeState(q)
  BY <1>1, <1>4, <1>6 DEF ConfirmReadAll
<1> QED BY <1>7, <1>8, CommitTold

LEMMA CloseTold ==
  ASSUME NEW p \in Inboxes, NEW i \in NoteIds
  PROVE  /\ Told(p, CloseInvitation(p, i), {}, {}, {i})
         /\ CloseInvitation(p, i).badge \in {p.badge, Unknown}
<1>1. PICK m : m = OverrideOf(p, i)
  OBVIOUS
<1>2. m \in Covers /\ (m.read <=> i \in DOMAIN p.overrides /\ p.overrides[i].read)
  BY <1>1, OverrideIs
<1>3. /\ p.list \in Partial(Row) /\ p.badge \in Nat \cup {Unknown} /\ p.version \in Nat
      /\ p.created \in Partial(Notices) /\ p.readBy \in Partial(Nat)
      /\ p.overrides \in Partial(Covers) /\ p.cursor \in 0..MaxNotes
  BY InboxIs
<1>4. PICK v : v = p.version + 1
  OBVIOUS
<1>5. PICK x : x = [m EXCEPT !.closed = TRUE, !.ver = v]
  OBVIOUS
<1>6. v \in Nat /\ x \in Covers /\ x.ver = v /\ x.closed = TRUE /\ x.read = m.read
  <2>1. v \in Nat /\ m \in Covers
    BY <1>2, <1>3, <1>4
  <2> QED BY <1>5, <2>1 DEF Covers
<1>7. PICK o : o = Put(p.overrides, i, x)
  OBVIOUS
<1>8. /\ o \in Partial(Covers) /\ o[i] = x
      /\ \A j : j \in DOMAIN o <=> j \in DOMAIN p.overrides \/ j = i
      /\ \A j \in DOMAIN p.overrides : j # i => o[j] = p.overrides[j]
  BY <1>3, <1>6, <1>7, PutIs
<1>9. PICK l : l = [j \in DOMAIN p.list |-> IF j = i THEN Overridden(p.list[j], x) ELSE p.list[j]]
  OBVIOUS
<1>10. /\ l \in Partial(Row)
       /\ \A j : j \in DOMAIN l <=> j \in DOMAIN p.list
       /\ \A j \in DOMAIN p.list : j # i => l[j] = p.list[j]
       /\ i \in DOMAIN p.list => /\ l[i].read <=> p.list[i].read \/ m.read
                                 /\ ~l[i].offers
  <2>1. DOMAIN p.list \in SUBSET NoteIds /\ \A j \in DOMAIN p.list : p.list[j] \in Row
    BY <1>3, PartialIs
  <2>2. ASSUME NEW r \in Row
        PROVE  /\ Overridden(r, x) \in Row
               /\ Overridden(r, x).read <=> r.read \/ m.read
               /\ ~Overridden(r, x).offers
    BY <1>6, Overlaid
  <2>3. l \in [DOMAIN p.list -> Row]
    BY <1>9, <2>1, <2>2
  <2>4. l \in Partial(Row) /\ DOMAIN l = DOMAIN p.list
    BY <2>1, <2>3, IsPartial
  <2>5. /\ \A j \in DOMAIN p.list : j # i => l[j] = p.list[j]
        /\ i \in DOMAIN p.list => l[i] = Overridden(p.list[i], x)
    BY <1>9
  <2>6. ASSUME i \in DOMAIN p.list
        PROVE  (l[i].read <=> p.list[i].read \/ m.read) /\ ~l[i].offers
    <3>1. PICK r \in Row : r = p.list[i]
      BY <2>1, <2>6
    <3>2. l[i] = Overridden(r, x)
      BY <2>5, <2>6, <3>1
    <3> QED BY <2>2, <3>1, <3>2, Zenon
  <2> QED BY <2>4, <2>5, <2>6
<1>11. PICK q : q = [p EXCEPT !.version = v, !.overrides = o, !.list = l]
  OBVIOUS
<1>12. Holds(q, l, p.badge, v, p.created, p.readBy, o, p.cursor)
  BY <1>3, <1>6, <1>8, <1>10, <1>11, InboxExcept
<1>13. CloseInvitation(p, i) = CommitRealtimeState(q)
  BY <1>1, <1>4, <1>5, <1>7, <1>9, <1>11 DEF CloseInvitation
<1>14. ToldList(p, q, {}, {}, {i})
  BY <1>2, <1>6, <1>8, <1>10, <1>12 DEF Holds, ToldList, Claimed
<1>15. ToldCreated(p, q, {}) /\ ToldReadBy(p, q, {})
  BY <1>12 DEF Holds, ToldCreated, ToldReadBy
<1>16. ToldOverrides(p, q, {}, {i})
  <2>1. v > p.version
    BY <1>3, <1>4
  <2>2. \A j \in DOMAIN p.overrides : /\ p.overrides[j].read => o[j].read
                                      /\ p.overrides[j].closed => o[j].closed
    BY <1>2, <1>6, <1>8
  <2>3. \A j \in DOMAIN o : o[j].read => j \in DOMAIN p.overrides /\ p.overrides[j].read
    BY <1>2, <1>6, <1>8
  <2> QED BY <1>6, <1>8, <1>12, <2>1, <2>2, <2>3 DEF Holds, ToldOverrides
<1>17. Told(p, q, {}, {}, {i}) /\ q \in Inboxes /\ q.badge = p.badge
  BY <1>3, <1>4, <1>12, <1>14, <1>15, <1>16 DEF Told, Holds
<1> QED BY <1>13, <1>17, CommitTold

-----------------------------------------------------------------------------
(* What a step leaves of what is shown.                                    *)

\* A read is not taken back and a closed invitation not opened.
NotesGrow ==
  \A i \in DOMAIN notes : /\ i \in DOMAIN notes'
                          /\ notes[i].read => notes'[i].read
                          /\ notes'[i].offers => notes[i].offers

\* The request for a page is given up, or asks as of p.
Renewed(d, p) ==
  /\ d.pc # "served" /\ d.page = NoPage.page /\ d.ver <= p.version
  /\ d.pc = "sent" => d.ver = p.version

Moved(S, N, C) ==
  /\ NotesGrow /\ Told(inbox, inbox', S, N, C)
  /\ \A i \in S : Earned(i)'
  /\ \A i \in N : i \in DOMAIN notes' /\ i \in tale'.enveloped
  /\ \A i \in C : i \in DOMAIN notes' /\ ~notes'[i].offers
  /\ tale.swept \subseteq tale'.swept /\ tale.enveloped \subseteq tale'.enveloped
  /\ \A i \in tale'.answered : i \in tale.answered \/ i \in C
  /\ calls'.first = calls.first \/ Renewed(calls'.first, inbox')
  /\ calls'.more = calls.more \/ Renewed(calls'.more, inbox')

LEMMA EarnedStays ==
  ASSUME NotesGrow, tale.swept \subseteq tale'.swept, NEW i, Earned(i)
  PROVE  Earned(i)'
BY DEF NotesGrow, Earned

\* Why a row of q is read: S, or what p said.
LEMMA ClaimedEarned ==
  ASSUME InboxEarned, NEW i, Claimed(inbox, i)
  PROVE  Earned(i)
BY DEF InboxEarned, Claimed

LEMMA VersionsStep ==
  ASSUME Types, Types', Versions, NEW S, NEW N, NEW C, Moved(S, N, C)
  PROVE  Versions'
<1>1. /\ inbox.version \in Nat /\ inbox'.version \in Nat
      /\ calls.first.ver \in Nat /\ calls.more.ver \in Nat
  BY DEF Types, Inboxes, Calls, PageCalls
<1>2. inbox.version <= inbox'.version
  BY <1>1 DEF Moved, Told
<1>3. inbox.created \in Partial(Notices) /\ inbox.overrides \in Partial(Covers)
  BY DEF Types, Inboxes
<1>4. \A i \in DOMAIN inbox.readBy : inbox.readBy[i] \in Nat
  <2>1. inbox.readBy \in Partial(Nat)
    BY DEF Types, Inboxes
  <2> QED BY <2>1, PartialIs
<1>5. /\ \A i \in DOMAIN inbox.created : inbox.created[i].ver \in Nat
      /\ \A i \in DOMAIN inbox.overrides : inbox.overrides[i].ver \in Nat
  BY <1>3, Dates
<1>6. \A i \in DOMAIN inbox'.created : inbox'.created[i].ver <= inbox'.version
  BY <1>1, <1>2, <1>5 DEF Moved, Told, ToldCreated, Versions, Dated
<1>7. \A i \in DOMAIN inbox'.readBy : inbox'.readBy[i] <= inbox'.version
  BY <1>1, <1>2, <1>4 DEF Moved, Told, ToldReadBy, Versions, Dated
<1>8. \A i \in DOMAIN inbox'.overrides : inbox'.overrides[i].ver <= inbox'.version
  BY <1>1, <1>2, <1>5 DEF Moved, Told, ToldOverrides, Versions, Dated
<1>9. calls'.first.ver <= inbox'.version /\ calls'.more.ver <= inbox'.version
  BY <1>1, <1>2 DEF Moved, Renewed, Versions
<1> QED BY <1>6, <1>7, <1>8, <1>9 DEF Versions, Dated

LEMMA InboxEarnedStep ==
  ASSUME InboxEarned, NEW S, NEW N, NEW C, Moved(S, N, C)
  PROVE  InboxEarned'
<1>1. NotesGrow /\ Told(inbox, inbox', S, N, C) /\ tale.swept \subseteq tale'.swept
  BY DEF Moved
<1>2. \A i : Claimed(inbox, i) => Earned(i)'
  BY <1>1, ClaimedEarned, EarnedStays
<1>3. \A i : i \in DOMAIN notes => i \in DOMAIN notes'
  BY <1>1 DEF NotesGrow
<1>4. \A i \in S : Earned(i)' /\ i \in DOMAIN notes'
  BY DEF Moved, Earned
<1>5. \A i \in DOMAIN inbox'.list : i \in DOMAIN notes' /\ (inbox'.list[i].read => Earned(i)')
  BY <1>1, <1>2, <1>3, <1>4 DEF Moved, Told, ToldList, InboxEarned
<1>6. \A i \in DOMAIN inbox'.created :
        i \in DOMAIN notes' /\ (inbox'.created[i].row.read => Earned(i)')
  <2>1. ASSUME NEW i \in DOMAIN inbox'.created, i \in N
        PROVE  i \in DOMAIN notes' /\ (inbox'.created[i].row.read => Earned(i)')
    <3>1. i \in DOMAIN inbox'.list /\ inbox'.created[i].row = inbox'.list[i]
      BY <1>1, <2>1 DEF Told, ToldCreated, ToldList
    <3> QED BY <1>5, <3>1
  <2>2. ASSUME NEW i \in DOMAIN inbox'.created, i \notin N
        PROVE  i \in DOMAIN notes' /\ (inbox'.created[i].row.read => Earned(i)')
    <3>1. i \in DOMAIN inbox.created /\ inbox'.created[i] = inbox.created[i]
      BY <1>1, <2>2 DEF Told, ToldCreated
    <3>2. i \in DOMAIN notes /\ (inbox.created[i].row.read => Earned(i))
      BY <3>1 DEF InboxEarned
    <3> QED BY <1>1, <1>3, <3>1, <3>2, EarnedStays
  <2> QED BY <2>1, <2>2
<1>7. \A i \in DOMAIN inbox'.readBy : Earned(i)'
  BY <1>1, <1>2, <1>4 DEF Told, ToldReadBy, Claimed
<1>8. \A i \in DOMAIN inbox'.overrides :
        i \in DOMAIN notes' /\ (inbox'.overrides[i].read => Earned(i)')
  BY <1>1, <1>2, <1>3, <1>4 DEF Moved, Told, ToldOverrides, Claimed, InboxEarned
<1> QED BY <1>5, <1>6, <1>7, <1>8 DEF InboxEarned

LEMMA NoRowsThere ==
  DOMAIN NoPage.page.rows = {}
BY DEF NoPage, Empty

LEMMA FirstPageKeepsStep ==
  ASSUME Types, Types', Versions, Versions', FirstPageKeeps,
         NEW S, NEW N, NEW C, Moved(S, N, C)
  PROVE  FirstPageKeeps'
<1>1. Told(inbox, inbox', S, N, C) /\ tale.swept \subseteq tale'.swept
  BY DEF Moved
<1>2. /\ inbox.version \in Nat /\ inbox'.version \in Nat /\ inbox.version <= inbox'.version
      /\ calls.first.ver \in Nat /\ calls.first.ver <= inbox.version
  BY <1>1 DEF Types, Inboxes, Calls, PageCalls, Versions, Told
<1>3. \A i \in DOMAIN inbox'.created : inbox'.created[i].ver \in Nat
  <2>1. inbox'.created \in Partial(Notices) /\ inbox'.overrides \in Partial(Covers)
    BY DEF Types, Inboxes
  <2> QED BY <2>1, Dates
<1>4. CASE Renewed(calls'.first, inbox')
  <2>1. SUFFICES ASSUME calls'.first.pc # "none" PROVE FirstPageKeeps'
    BY DEF FirstPageKeeps
  <2>2. calls'.first.ver = inbox'.version /\ DOMAIN calls'.first.page.rows = {}
    <3>1. calls'.first.pc = "sent"
      BY <1>4, <2>1 DEF Renewed, Types, Calls, PageCalls
    <3> QED BY <1>4, <3>1, NoRowsThere DEF Renewed
  <2>3. \A i : ~Late(i)'
    BY <1>2, <1>3, <2>2 DEF Late, Versions, Dated
  <2> QED BY <2>2, <2>3 DEF FirstPageKeeps, PageKeeps
<1>5. CASE calls'.first = calls.first
  <2>1. SUFFICES ASSUME calls.first.pc # "none" PROVE FirstPageKeeps'
    BY <1>5 DEF FirstPageKeeps
  <2>2. \A i \in DOMAIN inbox.readBy : i \in DOMAIN inbox'.readBy
    BY <1>1 DEF Told, ToldReadBy
  <2>3. \A i : ReadAfter(i, calls.first.ver) => ReadAfter(i, calls.first.ver)'
    <3>1. SUFFICES ASSUME NEW i, ReadAfter(i, calls.first.ver)
                   PROVE  ReadAfter(i, calls.first.ver)'
      OBVIOUS
    <3>2. /\ i \in DOMAIN inbox.overrides /\ inbox.overrides[i].read
          /\ inbox.overrides[i].ver > calls.first.ver /\ inbox.overrides[i].ver <= inbox.version
      BY <3>1 DEF ReadAfter, Versions, Dated
    <3>3. inbox.overrides[i].ver \in Nat
      <4>1. inbox.created \in Partial(Notices) /\ inbox.overrides \in Partial(Covers)
        BY DEF Types, Inboxes
      <4> QED BY <3>2, <4>1, Dates
    <3>4. i \in DOMAIN inbox'.overrides /\ inbox'.overrides[i].read
      BY <1>1, <3>2 DEF Told, ToldOverrides
    <3>5. inbox'.overrides[i].ver = inbox'.version \/ inbox'.overrides[i] = inbox.overrides[i]
      BY <1>1, <3>2, <3>4 DEF Told, ToldOverrides
    <3>6. inbox'.overrides[i].ver > calls.first.ver
      BY <1>2, <3>2, <3>3, <3>5
    <3> QED BY <1>5, <3>4, <3>6 DEF ReadAfter
  <2>4. \A i \in N : /\ Late(i)' /\ inbox'.created[i].row = inbox'.list[i]
                     /\ i \in DOMAIN inbox.overrides /\ inbox.overrides[i].read
                          => inbox'.created[i].row.read
    BY <1>1, <1>2, <1>5 DEF Told, ToldCreated, Late
  <2>5. \A i : i \notin N => /\ Late(i)' <=> Late(i)
                             /\ Late(i) => inbox'.created[i] = inbox.created[i]
    BY <1>1, <1>5 DEF Told, ToldCreated, Late
  <2>6. \A i \in DOMAIN inbox'.overrides : inbox'.overrides[i].read /\ Late(i)' =>
          i \in DOMAIN inbox'.readBy \/ inbox'.created[i].row.read
    <3>1. ASSUME NEW i \in DOMAIN inbox'.overrides, inbox'.overrides[i].read, Late(i)'
          PROVE  i \in DOMAIN inbox'.readBy \/ inbox'.created[i].row.read
      <4>1. i \in DOMAIN inbox'.readBy \/ (i \in DOMAIN inbox.overrides /\ inbox.overrides[i].read)
        BY <1>1, <3>1 DEF Told, ToldOverrides, ToldReadBy
      <4>2. i \notin N /\ i \in DOMAIN inbox.overrides /\ inbox.overrides[i].read
              => i \in DOMAIN inbox.readBy \/ inbox.created[i].row.read
        BY <2>1, <2>5, <3>1 DEF FirstPageKeeps
      <4> QED BY <2>2, <2>4, <2>5, <3>1, <4>1, <4>2
    <3> QED BY <3>1
  <2>7. ASSUME NEW i \in DOMAIN inbox'.list \ tale'.swept, inbox'.list[i].read
        PROVE  PageKeeps(i)'
    <3>1. CASE i \in DOMAIN inbox'.readBy
      BY <3>1 DEF PageKeeps
    <3>2. CASE i \in N
      <4>1. Late(i)' /\ inbox'.created[i].row.read
        BY <2>4, <2>7, <3>2
      <4> QED BY <4>1 DEF PageKeeps
    <3>3. CASE i \notin N /\ i \in DOMAIN inbox.list /\ inbox.list[i].read
      <4>1. PageKeeps(i)
        BY <1>1, <2>1, <2>7, <3>3 DEF FirstPageKeeps
      <4>2. Late(i) => (inbox'.created[i].row.read <=> inbox.created[i].row.read)
        BY <2>5, <3>3
      <4> QED BY <1>5, <2>2, <2>3, <2>5, <3>3, <4>1, <4>2, Zenon DEF PageKeeps
    <3>4. CASE i \notin N /\ i \in C /\ inbox'.overrides[i].read
      <4>1. i \in DOMAIN inbox'.overrides /\ ReadAfter(i, calls.first.ver)'
        BY <1>1, <1>2, <1>5, <3>4 DEF Told, ToldOverrides, ReadAfter
      <4>2. Late(i)' => i \in DOMAIN inbox'.readBy \/ inbox'.created[i].row.read
        BY <2>6, <3>4, <4>1
      <4> QED BY <1>5, <4>1, <4>2, Zenon DEF PageKeeps
    <3> QED BY <1>1, <2>7, <3>1, <3>2, <3>3, <3>4 DEF Told, ToldList
  <2> QED BY <2>6, <2>7 DEF FirstPageKeeps
<1> QED BY <1>4, <1>5 DEF Moved

LEMMA AnswersStep ==
  ASSUME Types, Types', Versions, AnswersClosed, AnswersHold,
         NEW S, NEW N, NEW C, Moved(S, N, C)
  PROVE  AnswersClosed' /\ AnswersHold'
<1>1. Told(inbox, inbox', S, N, C) /\ NotesGrow
  BY DEF Moved
<1>2. /\ inbox.version \in Nat /\ inbox'.version \in Nat /\ inbox.version <= inbox'.version
      /\ calls.first.ver \in Nat /\ calls.first.ver <= inbox.version
      /\ calls.more.ver \in Nat /\ calls.more.ver <= inbox.version
  BY <1>1 DEF Types, Inboxes, Calls, PageCalls, Versions, Told
<1>3. \A i \in DOMAIN inbox.overrides : inbox.overrides[i].ver \in Nat
  <2>1. inbox.created \in Partial(Notices) /\ inbox.overrides \in Partial(Covers)
    BY DEF Types, Inboxes
  <2> QED BY <2>1, Dates
<1>4. ASSUME NEW i, NEW ver \in Nat, ver <= inbox.version, i \in C \/ ClosedAfter(i, ver)
      PROVE  ClosedAfter(i, ver)'
  <2>1. CASE i \in C
    BY <1>1, <1>2, <1>4, <2>1 DEF Told, ToldOverrides, ClosedAfter
  <2>2. CASE i \notin C /\ ClosedAfter(i, ver)
    <3>1. /\ i \in DOMAIN inbox.overrides /\ inbox.overrides[i].closed
          /\ inbox.overrides[i].ver > ver /\ inbox.overrides[i].ver <= inbox.version
      BY <2>2 DEF ClosedAfter, Versions, Dated
    <3>2. i \in DOMAIN inbox'.overrides /\ inbox'.overrides[i].closed
      BY <1>1, <3>1 DEF Told, ToldOverrides
    <3>3. inbox'.overrides[i].ver = inbox'.version \/ inbox'.overrides[i] = inbox.overrides[i]
      BY <1>1, <3>1, <3>2 DEF Told, ToldOverrides
    <3>4. inbox'.overrides[i].ver > ver
      BY <1>2, <1>3, <3>1, <3>3
    <3> QED BY <3>2, <3>4 DEF ClosedAfter
  <2> QED BY <1>4, <2>1, <2>2
<1>5. \A i \in tale'.answered :
        \/ i \in C /\ i \in DOMAIN notes' /\ ~notes'[i].offers
        \/ i \in tale.answered /\ i \in DOMAIN notes' /\ ~notes'[i].offers
  <2>1. \A i \in tale.answered : i \in DOMAIN notes' /\ ~notes'[i].offers
    BY <1>1 DEF AnswersClosed, NotesGrow
  <2> QED BY <2>1 DEF Moved
<1>6. ASSUME NEW i \in tale'.answered
      PROVE  PageClosed(calls.first, i)' /\ PageClosed(calls.more, i)'
  <2>1. ASSUME Renewed(calls'.first, inbox') PROVE PageClosed(calls.first, i)'
    BY <2>1, NoRowsThere DEF Renewed, PageClosed
  <2>2. ASSUME Renewed(calls'.more, inbox') PROVE PageClosed(calls.more, i)'
    BY <2>2, NoRowsThere DEF Renewed, PageClosed
  <2>3. ASSUME calls'.first = calls.first PROVE PageClosed(calls.first, i)'
    <3>1. SUFFICES ASSUME i \in DOMAIN calls.first.page.rows, calls.first.page.rows[i].offers
                   PROVE  ClosedAfter(i, calls.first.ver)'
      BY <2>3 DEF PageClosed
    <3>2. i \in C \/ ClosedAfter(i, calls.first.ver)
      BY <1>5, <1>6, <3>1 DEF AnswersClosed, PageClosed
    <3>3. PICK ver \in Nat : ver = calls.first.ver
      BY <1>2
    <3>4. ClosedAfter(i, ver)'
      BY <1>2, <1>4, <3>2, <3>3
    <3> QED BY <2>3, <3>3, <3>4
  <2>4. ASSUME calls'.more = calls.more PROVE PageClosed(calls.more, i)'
    <3>1. SUFFICES ASSUME i \in DOMAIN calls.more.page.rows, calls.more.page.rows[i].offers
                   PROVE  ClosedAfter(i, calls.more.ver)'
      BY <2>4 DEF PageClosed
    <3>2. i \in C \/ ClosedAfter(i, calls.more.ver)
      BY <1>5, <1>6, <3>1 DEF AnswersClosed, PageClosed
    <3>3. PICK ver \in Nat : ver = calls.more.ver
      BY <1>2
    <3>4. ClosedAfter(i, ver)'
      BY <1>2, <1>4, <3>2, <3>3
    <3> QED BY <2>4, <3>3, <3>4
  <2>5. calls'.first = calls.first \/ Renewed(calls'.first, inbox')
    BY DEF Moved
  <2>6. calls'.more = calls.more \/ Renewed(calls'.more, inbox')
    BY DEF Moved
  <2> QED BY <2>1, <2>2, <2>3, <2>4, <2>5, <2>6, Zenon
<1>7. DOMAIN inbox'.created \subseteq tale'.enveloped
  BY <1>1 DEF Moved, Told, ToldCreated, AnswersClosed
<1>8. AnswersHold'
  <2>1. SUFFICES ASSUME NEW i \in tale'.answered \ tale'.enveloped, i \in DOMAIN inbox'.list,
                        inbox'.list[i].offers
                 PROVE  FALSE
    BY DEF AnswersHold
  <2>2. i \notin N /\ i \notin tale.enveloped
    BY <2>1 DEF Moved
  <2>3. i \notin C /\ i \in DOMAIN inbox.list /\ inbox.list[i].offers
    BY <1>1, <2>1, <2>2 DEF Told, ToldList
  <2>4. i \in tale.answered
    BY <1>5, <2>1, <2>3
  <2> QED BY <2>2, <2>3, <2>4 DEF AnswersHold
<1> QED BY <1>5, <1>6, <1>7, <1>8 DEF AnswersClosed

LEMMA ShownStep ==
  ASSUME Types, Types', Shown, NEW S, NEW N, NEW C, Moved(S, N, C)
  PROVE  Shown'
<1>1. Versions'
  BY VersionsStep DEF Shown
<1>2. InboxEarned'
  BY InboxEarnedStep DEF Shown
<1>3. FirstPageKeeps'
  BY <1>1, FirstPageKeepsStep DEF Shown
<1>4. AnswersClosed' /\ AnswersHold'
  BY AnswersStep DEF Shown
<1> QED BY <1>1, <1>2, <1>3, <1>4 DEF Shown

-----------------------------------------------------------------------------
(* Pages.                                                                  *)

LEMMA OverLaterIs ==
  ASSUME NEW p \in Inboxes, NEW rows \in Partial(Row), NEW ver \in Nat
  PROVE  /\ OverLater(p, rows, ver) \in Partial(Row)
         /\ \A i : i \in DOMAIN OverLater(p, rows, ver) <=> i \in DOMAIN rows
         /\ \A i \in DOMAIN rows :
              /\ OverLater(p, rows, ver)[i].read <=>
                   \/ rows[i].read
                   \/ i \in DOMAIN p.overrides /\ p.overrides[i].read /\ p.overrides[i].ver > ver
              /\ OverLater(p, rows, ver)[i].offers <=>
                   /\ rows[i].offers
                   /\ ~(i \in DOMAIN p.overrides /\ p.overrides[i].closed /\ p.overrides[i].ver > ver)
<1> DEFINE row(i) == IF OverrideOf(p, i).ver > ver THEN Overridden(rows[i], OverrideOf(p, i))
                     ELSE rows[i]
           l == OverLater(p, rows, ver)
<1>1. DOMAIN rows \in SUBSET NoteIds /\ \A i \in DOMAIN rows : rows[i] \in Row
  BY PartialIs
<1>2. l = [i \in DOMAIN rows |-> row(i)]
  BY DEF OverLater
<1>3. ASSUME NEW i \in DOMAIN rows
      PROVE  /\ row(i) \in Row
             /\ row(i).read <=>
                  \/ rows[i].read
                  \/ i \in DOMAIN p.overrides /\ p.overrides[i].read /\ p.overrides[i].ver > ver
             /\ row(i).offers <=>
                  /\ rows[i].offers
                  /\ ~(i \in DOMAIN p.overrides /\ p.overrides[i].closed /\ p.overrides[i].ver > ver)
  <2>1. PICK r \in Row : r = rows[i]
    BY <1>1
  <2>2. PICK o : o = OverrideOf(p, i)
    OBVIOUS
  <2>3. /\ o \in Covers
        /\ o.read <=> (i \in DOMAIN p.overrides /\ p.overrides[i].read)
        /\ o.closed <=> (i \in DOMAIN p.overrides /\ p.overrides[i].closed)
        /\ i \in DOMAIN p.overrides => o = p.overrides[i]
        /\ i \notin DOMAIN p.overrides => o = NoOverride
    BY <2>2, OverrideIs
  <2>4. CASE o.ver > ver
    <3>1. row(i) = Overridden(r, o)
      BY <2>1, <2>2, <2>4
    <3>2. i \in DOMAIN p.overrides /\ p.overrides[i].ver > ver
      BY <2>3, <2>4 DEF NoOverride
    <3>3. /\ Overridden(r, o) \in Row
          /\ Overridden(r, o).read <=> r.read \/ o.read
          /\ Overridden(r, o).offers <=> r.offers /\ ~o.closed
      BY <2>3, Overlaid
    <3> HIDE DEF row
    <3> QED BY <2>1, <2>3, <3>1, <3>2, <3>3, Zenon
  <2>5. CASE ~(o.ver > ver)
    <3>1. row(i) = r
      BY <2>1, <2>2, <2>5
    <3>2. ~(i \in DOMAIN p.overrides /\ p.overrides[i].ver > ver)
      BY <2>3, <2>5
    <3> HIDE DEF row
    <3> QED BY <2>1, <3>1, <3>2, Zenon
  <2> QED BY <2>4, <2>5
<1> HIDE DEF row
<1>4. l \in [DOMAIN rows -> Row] /\ \A i \in DOMAIN rows : l[i] = row(i)
  BY <1>2, <1>3
<1> HIDE DEF l
<1>5. l \in Partial(Row) /\ DOMAIN l = DOMAIN rows
  BY <1>1, <1>4, IsPartial
<1>6. ASSUME NEW i \in DOMAIN rows
      PROVE  /\ l[i].read <=>
                  \/ rows[i].read
                  \/ i \in DOMAIN p.overrides /\ p.overrides[i].read /\ p.overrides[i].ver > ver
             /\ l[i].offers <=>
                  /\ rows[i].offers
                  /\ ~(i \in DOMAIN p.overrides /\ p.overrides[i].closed /\ p.overrides[i].ver > ver)
  <2>1. l[i] = row(i)
    BY <1>4
  <2> QED BY <1>3, <2>1
<1> QED BY <1>5, <1>6 DEF l

\* The list of p with a further page: what was there, and the rows of the page.
Appended(q, p, page, ver) ==
  /\ q \in Inboxes /\ q.version = p.version /\ q.created = p.created /\ q.readBy = p.readBy
  /\ q.overrides = p.overrides /\ q.badge \in {p.badge, Unknown}
  /\ \A i : i \in DOMAIN q.list <=> i \in DOMAIN p.list \/ i \in DOMAIN page.rows
  /\ \A i \in DOMAIN p.list : q.list[i] = p.list[i]
  /\ \A i \in DOMAIN page.rows : i \notin DOMAIN p.list =>
       /\ q.list[i].read <=>
            \/ page.rows[i].read
            \/ i \in DOMAIN p.overrides /\ p.overrides[i].read /\ p.overrides[i].ver > ver
       /\ q.list[i].offers <=>
            /\ page.rows[i].offers
            /\ ~(i \in DOMAIN p.overrides /\ p.overrides[i].closed /\ p.overrides[i].ver > ver)

LEMMA AppendIs ==
  ASSUME NEW p \in Inboxes, NEW page \in Pages, NEW ver \in Nat
  PROVE  Appended(AppendPage(p, page, ver), p, page, ver)
<1>1. /\ p.list \in Partial(Row) /\ p.badge \in Nat \cup {Unknown} /\ p.version \in Nat
      /\ p.created \in Partial(Notices) /\ p.readBy \in Partial(Nat)
      /\ p.overrides \in Partial(Covers) /\ p.cursor \in 0..MaxNotes
  BY InboxIs
<1>2. page.rows \in Partial(Row) /\ page.next \in 0..MaxNotes
  BY DEF Pages
<1>3. PICK rows : rows = OverLater(p, page.rows, ver)
  OBVIOUS
<1>4. /\ rows \in Partial(Row)
      /\ \A i : i \in DOMAIN rows <=> i \in DOMAIN page.rows
      /\ \A i \in DOMAIN page.rows :
           /\ rows[i].read <=>
                \/ page.rows[i].read
                \/ i \in DOMAIN p.overrides /\ p.overrides[i].read /\ p.overrides[i].ver > ver
           /\ rows[i].offers <=>
                /\ page.rows[i].offers
                /\ ~(i \in DOMAIN p.overrides /\ p.overrides[i].closed /\ p.overrides[i].ver > ver)
  BY <1>2, <1>3, OverLaterIs
<1>5. PICK l : l = Over(p.list, rows)
  OBVIOUS
<1>6. /\ l \in Partial(Row)
      /\ \A i : i \in DOMAIN l <=> i \in DOMAIN p.list \/ i \in DOMAIN rows
      /\ \A i \in DOMAIN p.list : l[i] = p.list[i]
      /\ \A i \in DOMAIN rows : i \notin DOMAIN p.list => l[i] = rows[i]
  BY <1>1, <1>4, <1>5, OverIs
<1>7. PICK q : q = [p EXCEPT !.list = l, !.cursor = page.next]
  OBVIOUS
<1>8. Holds(q, l, p.badge, p.version, p.created, p.readBy, p.overrides, page.next)
  BY <1>1, <1>2, <1>6, <1>7, InboxExcept
<1>9. q \in Inboxes
  BY <1>8 DEF Holds
<1>10. PICK r : r = CommitRealtimeState(q)
  OBVIOUS
<1>11. PICK b \in {q.badge, Unknown} :
         Holds(r, q.list, b, q.version, q.created, q.readBy, q.overrides, q.cursor)
  BY <1>9, <1>10, Committed
<1>12. AppendPage(p, page, ver) = r
  BY <1>3, <1>5, <1>7, <1>10 DEF AppendPage
<1>13. /\ r \in Inboxes /\ r.version = p.version /\ r.created = p.created /\ r.readBy = p.readBy
       /\ r.overrides = p.overrides /\ r.badge \in {p.badge, Unknown} /\ r.list = l
  BY <1>8, <1>11 DEF Holds
<1>14. \A i \in DOMAIN page.rows : i \notin DOMAIN p.list => r.list[i] = rows[i]
  BY <1>4, <1>6, <1>13
<1>15. \A i : i \in DOMAIN r.list <=> i \in DOMAIN p.list \/ i \in DOMAIN page.rows
  BY <1>4, <1>6, <1>13
<1>16. \A i \in DOMAIN p.list : r.list[i] = p.list[i]
  BY <1>6, <1>13
<1>17. Appended(r, p, page, ver)
  BY <1>4, <1>13, <1>14, <1>15, <1>16 DEF Appended
<1> QED BY <1>12, <1>17


\* i came to p after ver.
Came(p, i, ver) == i \in DOMAIN p.created /\ p.created[i].ver > ver

\* The page, the marks that are later than it and what came after it.
Merged(q, p, page, ver) ==
  /\ q \in Inboxes /\ q.version = p.version /\ q.badge \in {p.badge, Unknown}
  /\ \A i : i \in DOMAIN q.list <=> i \in DOMAIN page.rows \/ Came(p, i, ver)
  /\ \A i \in DOMAIN q.list :
       /\ q.list[i].read <=>
            \/ i \in DOMAIN p.readBy
            \/ Came(p, i, ver) /\ p.created[i].row.read
            \/ /\ i \in DOMAIN page.rows
               /\ \/ page.rows[i].read
                  \/ i \in DOMAIN p.overrides /\ p.overrides[i].read /\ p.overrides[i].ver > ver
       /\ q.list[i].offers =>
            \/ Came(p, i, ver)
            \/ /\ i \in DOMAIN page.rows /\ page.rows[i].offers
               /\ ~(i \in DOMAIN p.overrides /\ p.overrides[i].closed /\ p.overrides[i].ver > ver)
  /\ \A i \in DOMAIN q.created : i \in DOMAIN p.created /\ q.created[i] = p.created[i]
  /\ \A i \in DOMAIN q.readBy : i \in DOMAIN p.readBy /\ q.readBy[i] = p.readBy[i]
  /\ \A i \in DOMAIN q.overrides : i \in DOMAIN p.overrides /\ q.overrides[i] = p.overrides[i]
  /\ \A i \in DOMAIN p.overrides : p.overrides[i].ver > ver => i \in DOMAIN q.overrides

LEMMA MergeIs ==
  ASSUME NEW p \in Inboxes, NEW page \in Pages, NEW ver \in Nat
  PROVE  Merged(MergeFirstPage(p, page, ver), p, page, ver)
<1>1. /\ p.list \in Partial(Row) /\ p.badge \in Nat \cup {Unknown} /\ p.version \in Nat
      /\ p.created \in Partial(Notices) /\ p.readBy \in Partial(Nat)
      /\ p.overrides \in Partial(Covers) /\ p.cursor \in 0..MaxNotes
  BY InboxIs
<1>2. page.rows \in Partial(Row) /\ page.next \in 0..MaxNotes
  BY DEF Pages
<1>3. PICK rows : rows = OverLater(p, page.rows, ver)
  OBVIOUS
<1>4. /\ rows \in Partial(Row)
      /\ \A i : i \in DOMAIN rows <=> i \in DOMAIN page.rows
      /\ \A i \in DOMAIN page.rows :
           /\ rows[i].read <=>
                \/ page.rows[i].read
                \/ i \in DOMAIN p.overrides /\ p.overrides[i].read /\ p.overrides[i].ver > ver
           /\ rows[i].offers <=>
                /\ page.rows[i].offers
                /\ ~(i \in DOMAIN p.overrides /\ p.overrides[i].closed /\ p.overrides[i].ver > ver)
  BY <1>2, <1>3, OverLaterIs
<1>5. PICK late : late = {i \in DOMAIN p.created : p.created[i].ver > ver}
  OBVIOUS
<1>6. PICK arrived : arrived = [i \in late |->
        [p.created[i].row EXCEPT !.read = @ \/ (i \in DOMAIN rows /\ rows[i].read)]]
  OBVIOUS
<1>7. /\ arrived \in Partial(Row)
      /\ \A i : i \in DOMAIN arrived <=> Came(p, i, ver)
      /\ \A i \in DOMAIN arrived :
           arrived[i].read <=> p.created[i].row.read \/ (i \in DOMAIN rows /\ rows[i].read)
  <2> DEFINE row(i) == [p.created[i].row EXCEPT !.read = @ \/ (i \in DOMAIN rows /\ rows[i].read)]
  <2>1. late \in SUBSET NoteIds /\ \A i \in DOMAIN p.created : p.created[i] \in Notices
    BY <1>1, <1>5, PartialIs
  <2>2. \A i : i \in late <=> Came(p, i, ver)
    BY <1>5 DEF Came
  <2>3. ASSUME NEW i \in late
        PROVE  /\ row(i) \in Row
               /\ row(i).read <=> p.created[i].row.read \/ (i \in DOMAIN rows /\ rows[i].read)
    <3>1. PICK r : r = p.created[i].row
      OBVIOUS
    <3>2. r \in Row
      BY <1>5, <2>1, <3>1 DEF Notices
    <3>3. PICK b : b = (r.read \/ (i \in DOMAIN rows /\ rows[i].read))
      OBVIOUS
    <3>4. b \in BOOLEAN /\ (b <=> r.read \/ (i \in DOMAIN rows /\ rows[i].read))
      BY <3>3, Zenon
    <3>5. PICK x : x = [r EXCEPT !.read = b]
      OBVIOUS
    <3>6. x \in Row /\ x.read = b
      BY <3>2, <3>4, <3>5 DEF Row
    <3>7. row(i) = x
      BY <3>1, <3>3, <3>5
    <3> HIDE DEF row
    <3> QED BY <3>1, <3>4, <3>6, <3>7, Zenon
  <2>4. arrived = [i \in late |-> row(i)]
    BY <1>6
  <2> HIDE DEF row
  <2>5. arrived \in [late -> Row] /\ \A i \in late : arrived[i] = row(i)
    BY <2>3, <2>4
  <2>6. arrived \in Partial(Row) /\ DOMAIN arrived = late
    BY <2>1, <2>5, IsPartial
  <2>7. ASSUME NEW i \in DOMAIN arrived
        PROVE arrived[i].read <=> p.created[i].row.read \/ (i \in DOMAIN rows /\ rows[i].read)
    <3>1. i \in late
      BY <2>6, <2>7
    <3> QED BY <2>3, <2>5, <3>1, Zenon
  <2> QED BY <2>2, <2>6, <2>7, Zenon
<1>8. PICK a : a = Over(arrived, rows)
  OBVIOUS
<1>9. /\ a \in Partial(Row)
      /\ \A i : i \in DOMAIN a <=> i \in DOMAIN arrived \/ i \in DOMAIN rows
      /\ \A i \in DOMAIN arrived : a[i] = arrived[i]
      /\ \A i \in DOMAIN rows : i \notin DOMAIN arrived => a[i] = rows[i]
  BY <1>4, <1>7, <1>8, OverIs
<1>10. PICK S : S = DOMAIN p.readBy
  OBVIOUS
<1>11. PICK l : l = MarkRead(a, S)
  OBVIOUS
<1>12. /\ l \in Partial(Row) /\ DOMAIN l = DOMAIN a
       /\ \A i \in DOMAIN a : /\ l[i].read <=> a[i].read \/ i \in S
                              /\ l[i].offers = a[i].offers
  BY <1>9, <1>11, MarkReadIs
<1>13. PICK c : c = Only(late, p.created)
  OBVIOUS
<1>14. PICK kept : kept = {i \in DOMAIN p.readBy : p.readBy[i] > ver}
  OBVIOUS
<1>15. PICK r : r = Only(kept, p.readBy)
  OBVIOUS
<1>16. PICK marks : marks = {i \in DOMAIN p.overrides : p.overrides[i].ver > ver}
  OBVIOUS
<1>17. PICK o : o = Only(marks, p.overrides)
  OBVIOUS
<1>18. /\ c \in Partial(Notices)
       /\ \A i \in DOMAIN c : i \in DOMAIN p.created /\ c[i] = p.created[i]
  BY <1>1, <1>13, OnlyIs
<1>19. /\ r \in Partial(Nat)
       /\ \A i \in DOMAIN r : i \in DOMAIN p.readBy /\ r[i] = p.readBy[i]
  BY <1>1, <1>15, OnlyIs
<1>20. /\ o \in Partial(Covers)
       /\ \A i : i \in DOMAIN o <=> i \in DOMAIN p.overrides /\ i \in marks
       /\ \A i \in DOMAIN o : i \in DOMAIN p.overrides /\ o[i] = p.overrides[i]
  BY <1>1, <1>17, OnlyIs
<1>21. PICK q : q = [p EXCEPT !.list = l, !.cursor = page.next, !.created = c, !.readBy = r,
                              !.overrides = o]
  OBVIOUS
<1>22. Holds(q, l, p.badge, p.version, c, r, o, page.next)
  BY <1>1, <1>2, <1>12, <1>18, <1>19, <1>20, <1>21, InboxExcept
<1>23. q \in Inboxes
  BY <1>22 DEF Holds
<1>24. PICK m : m = CommitRealtimeState(q)
  OBVIOUS
<1>25. PICK b \in {q.badge, Unknown} :
         Holds(m, q.list, b, q.version, q.created, q.readBy, q.overrides, q.cursor)
  BY <1>23, <1>24, Committed
<1>26. MergeFirstPage(p, page, ver) = m
  BY <1>3, <1>5, <1>6, <1>8, <1>10, <1>11, <1>13, <1>14, <1>15, <1>16, <1>17, <1>21, <1>24
  DEF MergeFirstPage
<1>27. /\ m \in Inboxes /\ m.version = p.version /\ m.badge \in {p.badge, Unknown} /\ m.list = l
       /\ m.created = c /\ m.readBy = r /\ m.overrides = o
  BY <1>22, <1>25 DEF Holds
<1>28. \A i : i \in DOMAIN l <=> i \in DOMAIN page.rows \/ Came(p, i, ver)
  BY <1>4, <1>7, <1>9, <1>12
<1>29. ASSUME NEW i \in DOMAIN l
       PROVE  /\ l[i].read <=>
                   \/ i \in DOMAIN p.readBy
                   \/ Came(p, i, ver) /\ p.created[i].row.read
                   \/ /\ i \in DOMAIN page.rows
                      /\ \/ page.rows[i].read
                         \/ /\ i \in DOMAIN p.overrides /\ p.overrides[i].read
                            /\ p.overrides[i].ver > ver
              /\ l[i].offers =>
                   \/ Came(p, i, ver)
                   \/ /\ i \in DOMAIN page.rows /\ page.rows[i].offers
                      /\ ~(i \in DOMAIN p.overrides /\ p.overrides[i].closed
                           /\ p.overrides[i].ver > ver)
  <2>1. i \in DOMAIN a /\ (l[i].read <=> a[i].read \/ i \in DOMAIN p.readBy)
        /\ l[i].offers = a[i].offers
    BY <1>10, <1>12, <1>29
  <2>2. CASE Came(p, i, ver)
    <3>1. i \in DOMAIN arrived /\ a[i] = arrived[i]
      BY <1>7, <1>9, <2>2
    <3>2. a[i].read <=> p.created[i].row.read \/ (i \in DOMAIN rows /\ rows[i].read)
      BY <1>7, <3>1
    <3> QED BY <1>4, <2>1, <2>2, <3>2, Zenon
  <2>3. CASE ~Came(p, i, ver)
    <3>1. i \in DOMAIN rows /\ i \in DOMAIN page.rows /\ a[i] = rows[i]
      BY <1>4, <1>7, <1>9, <2>1, <2>3
    <3> QED BY <1>4, <2>1, <2>3, <3>1, Zenon
  <2> QED BY <2>2, <2>3
<1>30. \A i \in DOMAIN p.overrides : p.overrides[i].ver > ver => i \in DOMAIN o
  BY <1>16, <1>20
<1>31. Merged(m, p, page, ver)
  BY <1>18, <1>19, <1>20, <1>27, <1>28, <1>29, <1>30 DEF Merged
<1> QED BY <1>26, <1>31

LEMMA LeastExists ==
  ASSUME NEW S \in SUBSET Nat, S # {}
  PROVE  \E i \in S : \A j \in S : i <= j
<1>1. PICK Below : Below = {pair \in Nat \X Nat : pair[1] < pair[2]}
  OBVIOUS
<1>2. IsWellFoundedOn(Below, Nat)
  BY <1>1, NatLessThanWellFounded DEF OpToRel
<1>3. PICK i \in S : \A j \in S : ~(<<j, i>> \in Below)
  BY <1>2, WFMin
<1>4. \A j \in S : ~(j < i)
  <2>1. \A j \in Nat : j < i => <<j, i>> \in Below
    BY <1>1
  <2> QED BY <1>3, <2>1
<1> QED BY <1>4

LEMMA MinIs ==
  ASSUME NEW S \in SUBSET Nat, S # {}
  PROVE  Min(S) \in S
<1>1. \E i \in S : \A j \in S : i <= j
  BY LeastExists
<1> QED BY <1>1, Zenon DEF Min

LEMMA NotesAre ==
  ASSUME NotesTyped
  PROVE  /\ notes \in Partial(Row) /\ IsFiniteSet(DOMAIN notes)
         /\ DOMAIN notes = 1..Cardinality(DOMAIN notes)
         /\ Cardinality(DOMAIN notes) \in 0..MaxNotes
         /\ notes \in [1..Cardinality(DOMAIN notes) -> Row]
<1>1. PICK n \in 0..MaxNotes : notes \in [1..n -> Row]
  BY DEF NotesTyped
<1>2. n \in Int /\ 1..n \in SUBSET NoteIds
  BY DEF NoteIds
<1>3. notes \in Partial(Row) /\ DOMAIN notes = 1..n
  BY <1>1, <1>2, IsPartial
<1>4. IsFiniteSet(1..n) /\ Cardinality(1..n) = IF 1 > n THEN 0 ELSE n - 1 + 1
  <2>1. 1 \in Int
    OBVIOUS
  <2> QED BY <1>2, <2>1, FS_Interval
<1>5. Cardinality(1..n) = n
  BY <1>1, <1>4
<1> QED BY <1>1, <1>3, <1>4, <1>5

\* A page, as it is served: rows of the table.
LEMMA PageIs ==
  ASSUME NotesTyped, NEW cursor \in 0..(MaxNotes + 1)
  PROVE  /\ PageBelow(cursor) \in Pages
         /\ \A i \in DOMAIN PageBelow(cursor).rows :
              i \in DOMAIN notes /\ PageBelow(cursor).rows[i] = notes[i]
<1> DEFINE older == {i \in DOMAIN notes : i < cursor}
           page == {i \in older : Cardinality({j \in older : j >= i}) <= NotesPerPage}
           rows == Only(page, notes)
           next == IF older = page THEN 0 ELSE Min(page)
<1>1. PICK n \in 0..MaxNotes : notes \in [1..n -> Row] /\ DOMAIN notes = 1..n
  BY NotesAre
<1>2. notes \in Partial(Row)
  BY NotesAre
<1>3. /\ rows \in Partial(Row)
      /\ \A i \in DOMAIN rows : i \in DOMAIN notes /\ rows[i] = notes[i]
  <2> HIDE DEF page
  <2> QED BY <1>2, OnlyIs
<1>4. next \in 0..MaxNotes
  <2>1. CASE older = page
    BY <2>1
  <2>2. CASE older # page
    <3>1. PICK k \in older : k \notin page
      BY <2>2
    <3>2. PICK m \in 1..n : m \in older /\ \A i \in older : i <= m
      <4>1. CASE n < cursor
        BY <1>1, <3>1, <4>1
      <4>2. CASE n >= cursor
        BY <1>1, <3>1, <4>2
      <4> QED BY <1>1, <4>1, <4>2
    <3>3. {j \in older : j >= m} = {m}
      BY <1>1, <3>2
    <3>4. Cardinality({j \in older : j >= m}) = 1
      BY <3>3, FS_Singleton
    <3>5. m \in page
      BY <3>2, <3>4
    <3>6. page \in SUBSET Nat /\ page # {} /\ page \subseteq 1..n
      <4>1. page \subseteq older /\ older \subseteq 1..n
        BY <1>1
      <4> HIDE DEF page, older
      <4> QED BY <3>5, <4>1
    <3>7. Min(page) \in page
      <4> HIDE DEF page
      <4> QED BY <3>6, MinIs
    <3>8. next = Min(page)
      BY <2>2
    <3> QED BY <3>6, <3>7, <3>8
  <2> QED BY <2>1, <2>2
<1>5. PageBelow(cursor) = [rows |-> rows, next |-> next]
  BY DEF PageBelow
<1> HIDE DEF rows, next
<1> QED BY <1>3, <1>4, <1>5 DEF Pages

-----------------------------------------------------------------------------
(* Requests.                                                               *)

LEMMA CallsAre ==
  ASSUME NEW c \in Calls
  PROVE  /\ c.first \in PageCalls /\ c.more \in PageCalls /\ c.count \in CountCalls
         /\ c.behind \in BOOLEAN /\ c.wanted \in BOOLEAN /\ c.asked \in BOOLEAN
         /\ c.all \in ReadAllCalls /\ c.read \in [NoteIds -> {"none", "sent", "served"}]
         /\ c.answer \in [NoteIds -> {"none", "sent", "served", "refused", "reading", "read"}]
BY DEF Calls

\* All but pages and the count.
SameRows(d, c) == d.all = c.all /\ d.read = c.read /\ d.answer = c.answer

\* A count was asked for.
CountAsked(d, c, p, loop) ==
  /\ d \in Calls /\ SameRows(d, c) /\ d.first = c.first /\ d.more = c.more /\ d.asked = c.asked
  /\ d.count.pc = "sent" /\ d.count.ver = p.version /\ d.count.known = DOMAIN p.list
  /\ d.count.loop = loop /\ d.wanted = c.wanted
  /\ d.behind <=> c.behind \/ (c.count.loop /\ ~loop)

LEMMA ReconcileIs ==
  ASSUME NEW c \in Calls, NEW p \in Inboxes, NEW loop \in BOOLEAN
  PROVE  CountAsked(Reconcile(c, p, loop), c, p, loop)
<1>1. PICK known : known = DOMAIN p.list
  OBVIOUS
<1>2. p.version \in Nat /\ known \in SUBSET NoteIds
  BY <1>1, InboxIs, PartialIs
<1>3. PICK count : count = [NoCount EXCEPT !.pc = "sent", !.ver = p.version, !.known = known,
                                           !.loop = loop]
  OBVIOUS
<1>4. /\ count \in CountCalls /\ count.pc = "sent" /\ count.ver = p.version
      /\ count.known = known /\ count.loop = loop
  BY <1>2, <1>3 DEF NoCount, CountCalls
<1>5. c.behind \in BOOLEAN /\ c.count.loop \in BOOLEAN
  BY DEF Calls, CountCalls
<1>6. PICK b : b = (c.behind \/ (c.count.loop /\ ~loop))
  OBVIOUS
<1>7. b \in BOOLEAN /\ (b <=> c.behind \/ (c.count.loop /\ ~loop))
  BY <1>5, <1>6, Zenon
<1>8. PICK d : d = [c EXCEPT !.count = count, !.behind = b]
  OBVIOUS
<1>9. /\ d \in Calls /\ d.first = c.first /\ d.more = c.more /\ d.asked = c.asked
      /\ d.all = c.all /\ d.read = c.read /\ d.answer = c.answer /\ d.wanted = c.wanted
      /\ d.count = count /\ d.behind = b
  BY <1>4, <1>7, <1>8 DEF Calls
<1>10. Reconcile(c, p, loop) = d
  BY <1>1, <1>3, <1>6, <1>8 DEF Reconcile
<1>11. CountAsked(d, c, p, loop)
  BY <1>1, <1>4, <1>7, <1>9, Zenon DEF CountAsked, SameRows
<1> QED BY <1>10, <1>11

\* The first page was asked for, and a further one given up.
FirstAsked(d, c, p) ==
  /\ d \in Calls /\ SameRows(d, c) /\ d.count = c.count /\ d.behind = c.behind
  /\ d.wanted = c.wanted /\ Renewed(d.first, p) /\ Renewed(d.more, p) /\ d.more.pc = "none"

LEMMA NoPageIs ==
  NoPage \in PageCalls /\ NoPage.pc = "none" /\ NoPage.ver = 0
<1>1. Empty \in Partial(Row)
  BY EmptyPartial
<1>2. [rows |-> Empty, next |-> 0] \in Pages
  BY <1>1, InboxBounds DEF Pages
<1> QED BY <1>2, InboxBounds DEF NoPage, PageCalls

LEMMA LoadFirstPageIs ==
  ASSUME NEW c \in Calls, NEW p \in Inboxes
  PROVE  FirstAsked(LoadFirstPage(c, p), c, p)
<1>1. p.version \in Nat /\ MaxNotes + 1 \in 0..(MaxNotes + 1)
  BY InboxIs, InboxBounds
<1>2. PICK none \in PageCalls : none = NoPage /\ none.pc = "none" /\ none.ver = 0
  BY NoPageIs
<1>3. PICK f : f = [none EXCEPT !.pc = "sent", !.ver = p.version, !.from = MaxNotes + 1]
  OBVIOUS
<1>4. f \in PageCalls /\ f.pc = "sent" /\ f.ver = p.version /\ f.page = none.page
  BY <1>1, <1>3 DEF PageCalls
<1>5. PICK d : d = [c EXCEPT !.first = f, !.more = none, !.asked = TRUE]
  OBVIOUS
<1>6. /\ d \in Calls /\ d.all = c.all /\ d.read = c.read /\ d.answer = c.answer
      /\ d.count = c.count /\ d.behind = c.behind /\ d.wanted = c.wanted
      /\ d.first = f /\ d.more = none
  BY <1>2, <1>4, <1>5 DEF Calls
<1>7. LoadFirstPage(c, p) = d
  BY <1>2, <1>3, <1>5 DEF LoadFirstPage
<1>8. Renewed(f, p) /\ Renewed(none, p)
  BY <1>1, <1>2, <1>4 DEF Renewed
<1> QED BY <1>2, <1>6, <1>7, <1>8 DEF FirstAsked, SameRows

\* Both were asked for.
AllAsked(d, c, p) ==
  /\ d \in Calls /\ SameRows(d, c) /\ d.wanted = c.wanted
  /\ Renewed(d.first, p) /\ Renewed(d.more, p) /\ d.more.pc = "none"
  /\ d.count.pc = "sent" /\ d.count.ver = p.version /\ d.count.known = DOMAIN p.list
  /\ ~d.count.loop /\ (d.behind <=> c.behind \/ c.count.loop)

LEMMA LoadAllIs ==
  ASSUME NEW c \in Calls, NEW p \in Inboxes
  PROVE  AllAsked(LoadAll(c, p), c, p)
<1>1. PICK e : e = LoadFirstPage(c, p)
  OBVIOUS
<1>2. FirstAsked(e, c, p) /\ e \in Calls
  BY <1>1, LoadFirstPageIs DEF FirstAsked
<1>3. CountAsked(Reconcile(e, p, FALSE), e, p, FALSE)
  BY <1>2, ReconcileIs
<1>4. LoadAll(c, p) = Reconcile(e, p, FALSE)
  BY <1>1 DEF LoadAll
<1>5. PICK d : d = Reconcile(e, p, FALSE)
  OBVIOUS
<1>6. AllAsked(d, c, p)
  BY <1>2, <1>3, <1>5 DEF AllAsked, FirstAsked, CountAsked, SameRows
<1> QED BY <1>4, <1>5, <1>6

\* An event asks the loop, or begins one.
Heeded(d, c, p) ==
  /\ d \in Calls /\ SameRows(d, c) /\ d.first = c.first /\ d.more = c.more
  /\ \/ /\ c.count.loop \/ c.behind
        /\ d.wanted /\ d.count = c.count /\ d.behind = c.behind
     \/ ~(c.count.loop \/ c.behind) /\ CountAsked(d, c, p, TRUE)

LEMMA ReconcileOnEventIs ==
  ASSUME NEW c \in Calls, NEW p \in Inboxes
  PROVE  Heeded(ReconcileOnEvent(c, p), c, p)
<1>1. PICK d : d = ReconcileOnEvent(c, p)
  OBVIOUS
<1>2. CASE c.count.loop \/ c.behind
  <2>1. d = [c EXCEPT !.wanted = TRUE]
    BY <1>1, <1>2 DEF ReconcileOnEvent
  <2>2. /\ d \in Calls /\ d.all = c.all /\ d.read = c.read /\ d.answer = c.answer
        /\ d.first = c.first /\ d.more = c.more
        /\ d.wanted = TRUE /\ d.count = c.count /\ d.behind = c.behind
    BY <2>1 DEF Calls
  <2> QED BY <1>1, <1>2, <2>2 DEF Heeded, SameRows
<1>3. CASE ~(c.count.loop \/ c.behind)
  <2>1. CountAsked(Reconcile(c, p, TRUE), c, p, TRUE)
    BY ReconcileIs
  <2>2. d = Reconcile(c, p, TRUE)
    BY <1>1, <1>3 DEF ReconcileOnEvent
  <2>3. CountAsked(d, c, p, TRUE)
    BY <2>1, <2>2
  <2> QED BY <1>1, <1>3, <2>3 DEF Heeded, CountAsked
<1> QED BY <1>2, <1>3

\* The loop asks again if it is wanted.
Continued(d, c, p) ==
  /\ d \in Calls /\ SameRows(d, c) /\ d.first = c.first /\ d.more = c.more
  /\ \/ ~c.wanted /\ d = c
     \/ /\ c.wanted /\ ~d.wanted /\ d.behind = c.behind
        /\ d.count.pc = "sent" /\ d.count.ver = p.version /\ d.count.known = DOMAIN p.list
        /\ d.count.loop

LEMMA LoopGoesOnIs ==
  ASSUME NEW c \in Calls, NEW p \in Inboxes
  PROVE  Continued(LoopGoesOn(c, p), c, p)
<1>1. PICK d : d = LoopGoesOn(c, p)
  OBVIOUS
<1>2. CASE ~c.wanted
  BY <1>2 DEF LoopGoesOn, Continued, SameRows
<1>3. CASE c.wanted
  <2>1. PICK e : e = [c EXCEPT !.wanted = FALSE]
    OBVIOUS
  <2>2. /\ e \in Calls /\ e.all = c.all /\ e.read = c.read /\ e.answer = c.answer
        /\ e.first = c.first /\ e.more = c.more
        /\ e.wanted = FALSE /\ e.count = c.count /\ e.behind = c.behind
    BY <2>1 DEF Calls
  <2>3. CountAsked(Reconcile(e, p, TRUE), e, p, TRUE)
    BY <2>2, ReconcileIs
  <2>4. d = Reconcile(e, p, TRUE)
    BY <1>1, <1>3, <2>1 DEF LoopGoesOn
  <2>5. CountAsked(d, e, p, TRUE)
    BY <2>3, <2>4
  <2>6. d.behind \in BOOLEAN /\ c.behind \in BOOLEAN
    BY <2>5 DEF CountAsked, Calls
  <2>7. d.behind = c.behind
    BY <2>2, <2>5, <2>6 DEF CountAsked
  <2> QED BY <1>1, <1>3, <2>2, <2>5, <2>7 DEF Continued, SameRows, CountAsked
<1> QED BY <1>2, <1>3

-----------------------------------------------------------------------------
(* The server.                                                             *)

LEMMA UnreadSame ==
  ASSUME NEW f, NEW g, DOMAIN f = DOMAIN g,
         \A i \in DOMAIN f : f[i].read <=> g[i].read
  PROVE  Unread(f) = Unread(g)
<1>1. {i \in DOMAIN f : ~f[i].read} = {i \in DOMAIN g : ~g[i].read}
  OBVIOUS
<1> QED BY <1>1 DEF Unread

LEMMA UnreadIs ==
  ASSUME NEW f \in Partial(Row)
  PROVE  /\ Unread(f) \in Nat
         /\ Unread(f) = 0 => \A i \in DOMAIN f : f[i].read
<1>1. PICK S : S = {i \in DOMAIN f : ~f[i].read}
  OBVIOUS
<1>2. IsFiniteSet(NoteIds)
  <2>1. 1 \in Int /\ MaxNotes \in Int
    BY InboxBounds
  <2> QED BY <2>1, FS_Interval DEF NoteIds
<1>3. S \in SUBSET NoteIds
  BY <1>1, PartialIs
<1>4. IsFiniteSet(S)
  BY <1>2, <1>3, FS_Subset
<1>5. Cardinality(S) \in Nat /\ (Cardinality(S) = 0 => S = {})
  BY <1>4, FS_CardinalityType, FS_EmptySet
<1> QED BY <1>1, <1>5 DEF Unread

\* What was true of events and rows stays true; the count stays, or an event says so.
Served ==
  /\ NotesTyped' /\ NotesGrow /\ pushes' \subseteq Pushes /\ PushesTrue'
  /\ pushes' # {} \/ (pushes' = pushes /\ Unread(notes') = Unread(notes))

LEMMA PushesGrow ==
  ASSUME PushesTrue, NotesGrow, \A e \in pushes' : e \in pushes \/ PushTrue(e)'
  PROVE  PushesTrue'
<1>1. ASSUME NEW e \in pushes PROVE PushTrue(e)'
  BY <1>1 DEF PushesTrue, PushTrue, AllRead, NotesGrow
<1> QED BY <1>1 DEF PushesTrue

LEMMA PushIs ==
  ASSUME NEW event \in {"created", "read", "read_all"}, NEW ids \in SUBSET NoteIds,
         NEW offers \in BOOLEAN
  PROVE  /\ PushOf(event, ids, offers) \in Pushes
         /\ PushOf(event, ids, offers).event = event
         /\ PushOf(event, ids, offers).ids = ids
BY DEF PushOf, Pushes

\* Some rows are marked as read.
LEMMA NotesMarked ==
  ASSUME NotesTyped, NEW S, notes' = MarkRead(notes, S)
  PROVE  /\ NotesTyped' /\ NotesGrow /\ DOMAIN notes' = DOMAIN notes
         /\ \A i \in DOMAIN notes : /\ notes'[i].read <=> notes[i].read \/ i \in S
                                    /\ notes'[i].offers = notes[i].offers
<1>1. notes \in Partial(Row) /\ Cardinality(DOMAIN notes) \in 0..MaxNotes
      /\ DOMAIN notes = 1..Cardinality(DOMAIN notes)
  BY NotesAre
<1>2. /\ notes' \in Partial(Row) /\ DOMAIN notes' = DOMAIN notes
      /\ \A i \in DOMAIN notes : /\ notes'[i].read <=> notes[i].read \/ i \in S
                                 /\ notes'[i].offers = notes[i].offers
  BY <1>1, MarkReadIs
<1>3. NotesTyped'
  <2>1. notes' \in [1..Cardinality(DOMAIN notes) -> Row]
    BY <1>1, <1>2, PartialIs
  <2> QED BY <1>1, <2>1 DEF NotesTyped
<1>4. NotesGrow
  BY <1>2 DEF NotesGrow
<1> QED BY <1>2, <1>3, <1>4

LEMMA ServeReadIs ==
  ASSUME NotesTyped, pushes \subseteq Pushes, PushesTrue, NEW i \in DOMAIN notes, ServeRead(i)
  PROVE  Served /\ i \in DOMAIN notes' /\ notes'[i].read
<1>1. notes' = MarkRead(notes, {i})
  BY DEF ServeRead
<1>2. /\ NotesTyped' /\ NotesGrow /\ DOMAIN notes' = DOMAIN notes
      /\ \A j \in DOMAIN notes : notes'[j].read <=> notes[j].read \/ j \in {i}
  BY <1>1, NotesMarked
<1>3. i \in DOMAIN notes' /\ notes'[i].read
  BY <1>2
<1>4. i \in NoteIds
  BY NotesAre, PartialIs
<1>5. PICK e : e = PushOf("read", {i}, FALSE)
  OBVIOUS
<1>6. e \in Pushes /\ e.event = "read" /\ e.ids = {i}
  BY <1>4, <1>5, PushIs
<1>7. PushTrue(e)'
  BY <1>3, <1>6 DEF PushTrue, AllRead
<1>8. CASE notes[i].read
  <2>1. pushes' = pushes
    BY <1>8 DEF ServeRead
  <2>2. \A j \in DOMAIN notes : notes'[j].read <=> notes[j].read
    BY <1>2, <1>8
  <2>3. Unread(notes') = Unread(notes)
    BY <1>2, <2>2, UnreadSame
  <2>4. PushesTrue'
    BY <1>2, <2>1, PushesGrow
  <2> QED BY <1>2, <1>3, <2>1, <2>3, <2>4 DEF Served
<1>9. CASE ~notes[i].read
  <2>1. pushes' = pushes \cup {e}
    BY <1>5, <1>9 DEF ServeRead
  <2>2. PushesTrue'
    BY <1>2, <1>7, <2>1, PushesGrow
  <2> QED BY <1>2, <1>3, <1>6, <2>1, <2>2 DEF Served
<1> QED BY <1>8, <1>9

LEMMA ServeReadAllIs ==
  ASSUME NotesTyped, pushes \subseteq Pushes, PushesTrue, ServeReadAll
  PROVE  Served /\ DOMAIN notes' = DOMAIN notes /\ \A i \in DOMAIN notes' : notes'[i].read
<1>1. notes' = MarkRead(notes, NoteIds)
  BY DEF ServeReadAll
<1>2. /\ NotesTyped' /\ NotesGrow /\ DOMAIN notes' = DOMAIN notes
      /\ \A j \in DOMAIN notes : notes'[j].read <=> notes[j].read \/ j \in NoteIds
  BY <1>1, NotesMarked
<1>3. notes \in Partial(Row) /\ DOMAIN notes \subseteq NoteIds
  BY NotesAre, PartialIs
<1>4. \A i \in DOMAIN notes' : notes'[i].read
  BY <1>2, <1>3
<1>5. PICK ids : ids = DOMAIN notes
  OBVIOUS
<1>6. PICK e : e = PushOf("read_all", ids, FALSE)
  OBVIOUS
<1>7. e \in Pushes /\ e.event = "read_all" /\ e.ids = ids
  BY <1>3, <1>5, <1>6, PushIs
<1>8. PushTrue(e)'
  BY <1>2, <1>4, <1>5, <1>7 DEF PushTrue, AllRead
<1>9. CASE Unread(notes) = 0
  <2>1. pushes' = pushes
    BY <1>9 DEF ServeReadAll
  <2>2. \A j \in DOMAIN notes : notes'[j].read <=> notes[j].read
    BY <1>2, <1>3, <1>9, UnreadIs
  <2>3. Unread(notes') = Unread(notes)
    BY <1>2, <2>2, UnreadSame
  <2>4. PushesTrue'
    BY <1>2, <2>1, PushesGrow
  <2> QED BY <1>2, <1>4, <2>1, <2>3, <2>4 DEF Served
<1>10. CASE Unread(notes) # 0
  <2>1. pushes' = pushes \cup {e}
    BY <1>5, <1>6, <1>10 DEF ServeReadAll
  <2>2. PushesTrue'
    BY <1>2, <1>8, <2>1, PushesGrow
  <2> QED BY <1>2, <1>4, <1>7, <2>1, <2>2 DEF Served
<1> QED BY <1>9, <1>10

\* An invitation is closed.
LEMMA OfferClosed ==
  ASSUME NotesTyped, pushes \subseteq Pushes, PushesTrue, NEW i \in DOMAIN notes,
         notes' = [notes EXCEPT ![i].offers = FALSE], pushes' = pushes
  PROVE  Served /\ i \in DOMAIN notes' /\ ~notes'[i].offers
<1>1. PICK n \in 0..MaxNotes : notes \in [1..n -> Row] /\ DOMAIN notes = 1..n
  BY NotesAre
<1>2. PICK r \in Row : r = notes[i]
  BY <1>1
<1>3. PICK x : x = [r EXCEPT !.offers = FALSE]
  OBVIOUS
<1>4. x \in Row /\ x.read = r.read /\ x.offers = FALSE
  BY <1>3 DEF Row
<1>5. notes' = [notes EXCEPT ![i] = x]
  BY <1>2, <1>3
<1>6. /\ notes' \in [1..n -> Row] /\ DOMAIN notes' = DOMAIN notes /\ notes'[i] = x
      /\ \A j \in DOMAIN notes : j # i => notes'[j] = notes[j]
  BY <1>1, <1>4, <1>5
<1>7. \A j \in DOMAIN notes : notes'[j].read <=> notes[j].read
  BY <1>2, <1>4, <1>6
<1>8. NotesGrow
  BY <1>2, <1>4, <1>6, <1>7 DEF NotesGrow
<1>9. NotesTyped'
  BY <1>6 DEF NotesTyped
<1>10. Unread(notes') = Unread(notes)
  BY <1>6, <1>7, UnreadSame
<1>11. PushesTrue'
  BY <1>8, PushesGrow
<1> QED BY <1>4, <1>6, <1>8, <1>9, <1>10, <1>11 DEF Served

\* A notification comes.
LEMMA NotifyIs ==
  ASSUME NotesTyped, pushes \subseteq Pushes, PushesTrue, Notify
  PROVE  Served
<1>1. PICK i : i = Cardinality(DOMAIN notes) + 1
  OBVIOUS
<1>2. /\ notes \in Partial(Row) /\ Cardinality(DOMAIN notes) \in 0..MaxNotes
      /\ DOMAIN notes = 1..Cardinality(DOMAIN notes)
  BY NotesAre
<1>3. i \in NoteIds /\ i \notin DOMAIN notes /\ 1..i = DOMAIN notes \cup {i} /\ i \in 0..MaxNotes
  BY <1>1, <1>2 DEF Notify, NoteIds
<1>4. PICK x : x = FreshNote(i)
  OBVIOUS
<1>5. PICK b : b = (i \in Invitations)
  OBVIOUS
<1>6. b \in BOOLEAN
  BY <1>5, SMT
<1>7. x \in Row
  BY <1>4, <1>5, <1>6 DEF FreshNote, Row
<1>8. notes' = Put(notes, i, x)
  BY <1>1, <1>4 DEF Notify
<1>9. /\ notes' \in Partial(Row)
      /\ \A j : j \in DOMAIN notes' <=> j \in DOMAIN notes \/ j = i
      /\ \A j \in DOMAIN notes : j # i => notes'[j] = notes[j]
  BY <1>2, <1>3, <1>7, <1>8, PutIs
<1>10. NotesTyped'
  <2>1. DOMAIN notes' = 1..i
    BY <1>3, <1>9
  <2>2. notes' \in [1..i -> Row]
    BY <1>9, <2>1, PartialIs
  <2> QED BY <1>3, <2>2 DEF NotesTyped
<1>11. NotesGrow
  BY <1>3, <1>9 DEF NotesGrow
<1>12. PICK e : e = PushOf("created", {i}, b)
  OBVIOUS
<1>13. e \in Pushes /\ e.event = "created" /\ e.ids = {i}
  BY <1>3, <1>6, <1>12, PushIs
<1>14. PushTrue(e)'
  BY <1>9, <1>13 DEF PushTrue
<1>15. pushes' = pushes \cup {e}
  BY <1>1, <1>5, <1>12 DEF Notify
<1>16. PushesTrue'
  BY <1>11, <1>14, <1>15, PushesGrow
<1> QED BY <1>10, <1>11, <1>13, <1>15, <1>16 DEF Served

-----------------------------------------------------------------------------
(* What a step leaves of the requests and the badge.                       *)

PagesKept ==
  /\ calls'.first = calls.first \/ Renewed(calls'.first, inbox')
  /\ calls'.more = calls.more \/ Renewed(calls'.more, inbox')
  /\ calls'.first.pc # "none" => calls'.more.pc = "none"

CountKept ==
  \/ calls'.count = calls.count
  \/ calls'.count.pc # "served" /\ calls'.count.known \subseteq DOMAIN inbox'.list

LoopKept ==
  /\ ~(calls'.behind /\ calls'.count.loop)
  /\ calls'.wanted => calls'.behind \/ calls'.count.loop

AllKept ==
  \/ calls'.all.visible = calls.all.visible /\ calls'.all.pc = calls.all.pc
  \/ calls'.all.pc # "served" /\ calls'.all.visible \subseteq DOMAIN inbox'.list
  \/ AllRead(calls.all.visible)'

RowsKept ==
  \A i \in NoteIds :
    /\ \/ calls'.read[i] \in {calls.read[i], "none"}
       \/ i \in DOMAIN notes /\ (calls'.read[i] = "sent" \/ notes'[i].read)
    /\ \/ calls'.answer[i] \in {calls.answer[i], "none"}
       \/ calls'.answer[i] \in {"sent", "reading"} /\ i \in DOMAIN notes
       \/ calls'.answer[i] = "read" /\ i \in DOMAIN notes /\ notes'[i].read
       \/ calls'.answer[i] \in {"served", "refused"} /\ i \in DOMAIN notes /\ ~notes'[i].offers

CallsKept == PagesKept /\ CountKept /\ LoopKept /\ AllKept /\ RowsKept

LEMMA HeardStep ==
  ASSUME Heard, NotesGrow, InboxEarned', PushesTrue', CallsKept
  PROVE  Heard'
<1>1. PageTrue(calls.first)' /\ PageTrue(calls.more)'
  <2>1. ASSUME Renewed(calls'.first, inbox') PROVE PageTrue(calls.first)'
    BY <2>1, NoRowsThere DEF Renewed, PageTrue
  <2>2. ASSUME Renewed(calls'.more, inbox') PROVE PageTrue(calls.more)'
    BY <2>2, NoRowsThere DEF Renewed, PageTrue
  <2>3. ASSUME calls'.first = calls.first PROVE PageTrue(calls.first)'
    BY <2>3 DEF Heard, CallsTrue, PageTrue, NotesGrow
  <2>4. ASSUME calls'.more = calls.more PROVE PageTrue(calls.more)'
    BY <2>4 DEF Heard, CallsTrue, PageTrue, NotesGrow
  <2> QED BY <2>1, <2>2, <2>3, <2>4 DEF CallsKept, PagesKept
<1>2. /\ calls'.count.known \subseteq DOMAIN notes'
      /\ calls'.count.pc = "served" /\ calls'.count.n = 0 => AllRead(calls.count.known)'
  BY DEF Heard, CallsTrue, CallsKept, CountKept, AllRead, NotesGrow, InboxEarned
<1>3. /\ calls'.all.visible \subseteq DOMAIN notes'
      /\ calls'.all.pc = "served" => AllRead(calls.all.visible)'
  BY DEF Heard, CallsTrue, CallsKept, AllKept, AllRead, NotesGrow, InboxEarned
<1>4. ASSUME NEW i \in NoteIds PROVE RowTrue(i)'
  BY DEF Heard, CallsTrue, RowTrue, CallsKept, RowsKept, NotesGrow
<1>5. OneLoop'
  <2>1. PageComes(calls.first)' /\ PageComes(calls.more)'
    BY DEF Heard, OneLoop, PageComes, CallsKept, PagesKept, Renewed
  <2> QED BY <2>1 DEF OneLoop, CallsKept, PagesKept, LoopKept
<1> QED BY <1>1, <1>2, <1>3, <1>4, <1>5 DEF Heard, CallsTrue

LEMMA CountedAsked ==
  ASSUME calls'.count.pc = "sent", calls'.count.ver = inbox'.version
  PROVE  Counted'
BY DEF Counted, CountIsCurrent, BadgeSettling, Busy

LEMMA CountedBusy ==
  ASSUME calls'.wanted \/ Answering'
  PROVE  Counted'
BY DEF Counted, CountIsCurrent, BadgeSettling, Busy

LEMMA CountedQuiet ==
  ASSUME Counted, calls'.count = calls.count, calls'.wanted = calls.wanted,
         Answering' <=> Answering, inbox'.version = inbox.version,
         inbox'.badge \in {inbox.badge, Unknown},
         \/ pushes' # {} \/ tale'.missed
         \/ /\ pushes' = pushes /\ Unread(notes') = Unread(notes) /\ tale'.missed = tale.missed
  PROVE  Counted'
<1>1. CountIsCurrent'
  BY DEF Counted, CountIsCurrent
<1>2. CASE pushes' # {} \/ tale'.missed
  BY <1>1, <1>2 DEF Counted, BadgeSettling, Busy
<1>3. CASE pushes' = pushes /\ Unread(notes') = Unread(notes) /\ tale'.missed = tale.missed
  <2>1. (Busy' <=> Busy) /\ (Taken' <=> Taken)
    BY <1>3 DEF Busy, Taken
  <2> QED BY <1>1, <1>3, <2>1 DEF Counted, BadgeSettling
<1> QED BY <1>2, <1>3

\* The rows of the calls decide who is answering.
LEMMA AnsweringSame ==
  ASSUME calls'.answer = calls.answer
  PROVE  Answering' <=> Answering
BY DEF Answering

\* A step that moves the list, and one that leaves it.
LEMMA InboxStep ==
  ASSUME InboxInv, Types', PushesTrue', NEW S, NEW N, NEW C, Moved(S, N, C), CallsKept, Counted'
  PROVE  InboxInv'
<1>1. Shown'
  BY ShownStep DEF InboxInv
<1>2. Heard'
  BY <1>1, HeardStep DEF InboxInv, Shown, Moved
<1> QED BY <1>1, <1>2 DEF InboxInv

\* The list stays.
Still ==
  /\ NotesGrow /\ inbox' = inbox
  /\ tale'.swept = tale.swept /\ tale'.enveloped = tale.enveloped
  /\ tale'.answered = tale.answered

LEMMA StillMoved ==
  ASSUME inbox \in Inboxes, Still, PagesKept
  PROVE  Moved({}, {}, {})
<1>1. Told(inbox, inbox', {}, {}, {})
  BY ToldNothing DEF Still
<1> QED BY <1>1 DEF Moved, Still, PagesKept

LEMMA SamePlace ==
  ASSUME notes' = notes
  PROVE  NotesGrow /\ (NotesTyped => NotesTyped')
BY DEF NotesGrow, NotesTyped

LEMMA TaleIs ==
  ASSUME tale \in Tales
  PROVE  /\ tale.missed \in BOOLEAN /\ tale.swept \in SUBSET NoteIds
         /\ tale.enveloped \in SUBSET NoteIds /\ tale.answered \in SUBSET NoteIds
         /\ tale.moves \in Nat
BY DEF Tales

LEMMA MoveIs ==
  ASSUME tale \in Tales, Move
  PROVE  /\ tale' \in Tales /\ tale'.swept = tale.swept /\ tale'.enveloped = tale.enveloped
         /\ tale'.answered = tale.answered /\ tale'.missed = tale.missed
<1>1. PICK m : m = tale.moves + 1
  OBVIOUS
<1>2. m \in Nat
  BY <1>1, TaleIs
<1>3. tale' = [tale EXCEPT !.moves = m]
  BY <1>1 DEF Move
<1> QED BY <1>2, <1>3 DEF Tales

-----------------------------------------------------------------------------
(* What asking leaves.                                                     *)

SameLoop(c) ==
  /\ c.first = calls.first /\ c.more = calls.more /\ c.count = calls.count
  /\ c.behind = calls.behind /\ c.wanted = calls.wanted

Asking == PagesKept /\ CountKept /\ LoopKept /\ Counted'

LEMMA AllAskedStep ==
  ASSUME OneLoop, NEW c, SameLoop(c), AllAsked(calls', c, inbox')
  PROVE  Asking
<1>1. Counted'
  BY CountedAsked DEF AllAsked
<1> QED BY <1>1
    DEF Asking, PagesKept, CountKept, LoopKept, OneLoop, SameLoop, AllAsked

LEMMA CountAskedStep ==
  ASSUME OneLoop, NEW c, SameLoop(c), CountAsked(calls', c, inbox', FALSE)
  PROVE  Asking
<1>1. Counted'
  BY CountedAsked DEF CountAsked
<1> QED BY <1>1
    DEF Asking, PagesKept, CountKept, LoopKept, OneLoop, SameLoop, CountAsked

\* An event asks for a count, and it may be for the first page.
LEMMA HeededStep ==
  ASSUME OneLoop, NEW c, c.count = calls.count, c.behind = calls.behind, c.wanted = calls.wanted,
         \/ c.first = calls.first /\ c.more = calls.more
         \/ Renewed(c.first, inbox') /\ Renewed(c.more, inbox') /\ c.more.pc = "none",
         Heeded(calls', c, inbox')
  PROVE  Asking
<1>1. PagesKept
  BY DEF PagesKept, OneLoop, Heeded
<1>2. CASE calls'.wanted /\ (c.count.loop \/ c.behind) /\ calls'.count = c.count
           /\ calls'.behind = c.behind
  <2>1. Counted'
    BY <1>2, CountedBusy
  <2> QED BY <1>1, <1>2, <2>1 DEF Asking, CountKept, LoopKept, OneLoop
<1>3. CASE ~(c.count.loop \/ c.behind) /\ CountAsked(calls', c, inbox', TRUE)
  <2>1. Counted'
    BY <1>3, CountedAsked DEF CountAsked
  <2> QED BY <1>1, <1>3, <2>1 DEF Asking, CountKept, LoopKept, OneLoop, CountAsked
<1> QED BY <1>2, <1>3 DEF Heeded

LEMMA CallsSame ==
  ASSUME Heard, calls' = calls
  PROVE  CallsKept
BY DEF Heard, OneLoop, CallsKept, PagesKept, CountKept, LoopKept, AllKept, RowsKept

\* Only requests for rows and for all change.
LEMMA LoopSame ==
  ASSUME Heard, calls'.first = calls.first, calls'.more = calls.more, calls'.count = calls.count,
         calls'.behind = calls.behind, calls'.wanted = calls.wanted
  PROVE  PagesKept /\ CountKept /\ LoopKept
BY DEF Heard, OneLoop, PagesKept, CountKept, LoopKept

LEMMA SameAll ==
  ASSUME calls'.all = calls.all
  PROVE  AllKept
BY DEF AllKept

LEMMA SameAllRows ==
  ASSUME calls'.read = calls.read, calls'.answer = calls.answer
  PROVE  RowsKept
BY DEF RowsKept

LEMMA Parts ==
  ASSUME InboxInv
  PROVE  /\ Types /\ Heard /\ Shown /\ Counted /\ OneLoop /\ PushesTrue
         /\ NotesTyped /\ pushes \subseteq Pushes /\ inbox \in Inboxes /\ calls \in Calls
         /\ tale \in Tales
BY DEF InboxInv, Types, Heard

\* Neither the table nor an event changes.
LEMMA ServerSame ==
  ASSUME InboxInv, UNCHANGED <<notes, pushes>>
  PROVE  /\ NotesTyped' /\ NotesGrow /\ pushes' \subseteq Pushes /\ PushesTrue'
         /\ pushes' = pushes /\ Unread(notes') = Unread(notes)
<1>1. NotesTyped' /\ NotesGrow
  BY Parts, SamePlace
<1>2. PushesTrue'
  BY <1>1, Parts, PushesGrow
<1> QED BY <1>1, <1>2, Parts

-----------------------------------------------------------------------------
(* The steps.                                                              *)

LEMMA NotifyStep ==
  ASSUME InboxInv, Notify
  PROVE  InboxInv'
<1>1. Served
  BY Parts, NotifyIs
<1>2. inbox' = inbox /\ calls' = calls /\ Move
  BY DEF Notify
<1>3. /\ tale' \in Tales /\ tale'.swept = tale.swept /\ tale'.enveloped = tale.enveloped
      /\ tale'.answered = tale.answered /\ tale'.missed = tale.missed
  BY <1>2, Parts, MoveIs
<1>4. Types'
  BY <1>1, <1>2, <1>3, Parts DEF Types, Served
<1>5. CallsKept
  BY <1>2, Parts, CallsSame
<1>6. Moved({}, {}, {})
  BY <1>1, <1>2, <1>3, <1>5, Parts, StillMoved DEF Still, Served, CallsKept
<1>7. Counted'
  <2>1. Answering' <=> Answering
    BY <1>2, AnsweringSame
  <2> QED BY <1>1, <1>2, <1>3, <2>1, Parts, CountedQuiet DEF Served
<1> QED BY <1>1, <1>4, <1>5, <1>6, <1>7, InboxStep DEF Served

LEMMA OtherDeviceStep ==
  ASSUME InboxInv, OtherDevice
  PROVE  InboxInv'
<1>1. Served
  <2>1. CASE \E i \in DOMAIN notes : ~notes[i].read /\ ServeRead(i)
    BY <2>1, Parts, ServeReadIs
  <2>2. CASE Unread(notes) > 0 /\ ServeReadAll
    BY <2>2, Parts, ServeReadAllIs
  <2>3. CASE /\ \E i \in DOMAIN notes :
                  notes[i].offers /\ notes' = [notes EXCEPT ![i].offers = FALSE]
             /\ UNCHANGED pushes
    BY <2>3, Parts, OfferClosed
  <2> QED BY <2>1, <2>2, <2>3 DEF OtherDevice
<1>2. inbox' = inbox /\ calls' = calls /\ Move
  BY DEF OtherDevice
<1>3. /\ tale' \in Tales /\ tale'.swept = tale.swept /\ tale'.enveloped = tale.enveloped
      /\ tale'.answered = tale.answered /\ tale'.missed = tale.missed
  BY <1>2, Parts, MoveIs
<1>4. Types'
  BY <1>1, <1>2, <1>3, Parts DEF Types, Served
<1>5. CallsKept
  BY <1>2, Parts, CallsSame
<1>6. Moved({}, {}, {})
  BY <1>1, <1>2, <1>3, <1>5, Parts, StillMoved DEF Still, Served, CallsKept
<1>7. Counted'
  <2>1. Answering' <=> Answering
    BY <1>2, AnsweringSame
  <2> QED BY <1>1, <1>2, <1>3, <2>1, Parts, CountedQuiet DEF Served
<1> QED BY <1>1, <1>4, <1>5, <1>6, <1>7, InboxStep DEF Served

LEMMA RefreshStep ==
  ASSUME InboxInv, Refresh
  PROVE  InboxInv'
<1>1. inbox' = inbox /\ UNCHANGED <<notes, pushes>> /\ Move
  BY DEF Refresh
<1>2. NotesTyped' /\ NotesGrow /\ pushes' \subseteq Pushes /\ PushesTrue'
  BY <1>1, ServerSame
<1>3. /\ tale' \in Tales /\ tale'.swept = tale.swept /\ tale'.enveloped = tale.enveloped
      /\ tale'.answered = tale.answered
  BY <1>1, Parts, MoveIs
<1>4. Asking /\ calls' \in Calls /\ SameRows(calls', calls)
  <2>1. SameLoop(calls)
    BY DEF SameLoop
  <2>2. CASE calls' = LoadAll(calls, inbox)
    <3>1. AllAsked(calls', calls, inbox')
      BY <1>1, <2>2, Parts, LoadAllIs
    <3> QED BY <2>1, <3>1, Parts, AllAskedStep DEF AllAsked
  <2>3. CASE calls' = Reconcile(calls, inbox, FALSE)
    <3>1. CountAsked(calls', calls, inbox', FALSE)
      BY <1>1, <2>3, Parts, ReconcileIs
    <3> QED BY <2>1, <3>1, Parts, CountAskedStep DEF CountAsked
  <2> QED BY <2>2, <2>3 DEF Refresh
<1>5. Types'
  BY <1>1, <1>2, <1>3, <1>4, Parts DEF Types
<1>6. CallsKept
  BY <1>4, SameAll, SameAllRows DEF Asking, CallsKept, SameRows
<1>7. Moved({}, {}, {})
  BY <1>1, <1>2, <1>3, <1>6, Parts, StillMoved DEF Still, CallsKept
<1> QED BY <1>2, <1>4, <1>5, <1>6, <1>7, InboxStep DEF Asking

LEMMA LoadMoreStep ==
  ASSUME InboxInv, LoadMore
  PROVE  InboxInv'
<1>1. inbox' = inbox /\ UNCHANGED <<notes, pushes>> /\ Move
  BY DEF LoadMore
<1>2. /\ NotesTyped' /\ NotesGrow /\ pushes' \subseteq Pushes /\ PushesTrue'
      /\ pushes' = pushes /\ Unread(notes') = Unread(notes)
  BY <1>1, ServerSame
<1>3. /\ tale' \in Tales /\ tale'.swept = tale.swept /\ tale'.enveloped = tale.enveloped
      /\ tale'.answered = tale.answered /\ tale'.missed = tale.missed
  BY <1>1, Parts, MoveIs
<1>4. PICK none \in PageCalls : none = NoPage /\ none.pc = "none" /\ none.ver = 0
  BY NoPageIs
<1>5. PICK m : m = [none EXCEPT !.pc = "sent", !.ver = inbox.version, !.from = inbox.cursor]
  OBVIOUS
<1>6. inbox.version \in Nat /\ inbox.cursor \in 0..(MaxNotes + 1)
  BY Parts, InboxIs, InboxBounds
<1>7. m \in PageCalls /\ m.pc = "sent" /\ m.ver = inbox.version /\ m.page = none.page
  BY <1>5, <1>6 DEF PageCalls
<1>8. calls' = [calls EXCEPT !.more = m]
  BY <1>4, <1>5 DEF LoadMore
<1>9. /\ calls' \in Calls /\ calls'.first = calls.first /\ calls'.more = m
      /\ calls'.count = calls.count /\ calls'.behind = calls.behind
      /\ calls'.wanted = calls.wanted /\ calls'.all = calls.all /\ calls'.read = calls.read
      /\ calls'.answer = calls.answer
  BY <1>7, <1>8, Parts DEF Calls
<1>10. Types'
  BY <1>1, <1>2, <1>3, <1>9, Parts DEF Types
<1>11. CallsKept
  <2>1. Renewed(m, inbox')
    BY <1>1, <1>4, <1>6, <1>7 DEF Renewed
  <2>2. PagesKept
    BY <1>9, <2>1 DEF PagesKept, LoadMore
  <2>3. CountKept /\ LoopKept
    BY <1>9, Parts DEF CountKept, LoopKept, OneLoop
  <2> QED BY <1>9, <2>2, <2>3, SameAll, SameAllRows DEF CallsKept
<1>12. Moved({}, {}, {})
  BY <1>1, <1>2, <1>3, <1>11, Parts, StillMoved DEF Still, CallsKept
<1>13. Counted'
  <2>1. Answering' <=> Answering
    BY <1>9, AnsweringSame
  <2> QED BY <1>1, <1>2, <1>3, <1>9, <2>1, Parts, CountedQuiet
<1> QED BY <1>2, <1>10, <1>11, <1>12, <1>13, InboxStep

\* A page is served: its rows are those of the table.
LEMMA ServeFirstStep ==
  ASSUME InboxInv, ServePage("first")
  PROVE  InboxInv'
<1>1. inbox' = inbox /\ tale' = tale /\ UNCHANGED <<notes, pushes>> /\ calls.first.pc = "sent"
  BY DEF ServePage
<1>2. /\ NotesTyped' /\ NotesGrow /\ pushes' \subseteq Pushes /\ PushesTrue'
      /\ pushes' = pushes /\ Unread(notes') = Unread(notes)
  BY <1>1, ServerSame
<1>3. PICK page : page = PageBelow(calls.first.from)
  OBVIOUS
<1>4. calls.first \in PageCalls /\ calls.first.from \in 0..(MaxNotes + 1)
  BY Parts, CallsAre DEF PageCalls
<1>5. page \in Pages /\ \A i \in DOMAIN page.rows : i \in DOMAIN notes /\ page.rows[i] = notes[i]
  BY <1>3, <1>4, Parts, PageIs
<1>6. PICK f : f = [calls.first EXCEPT !.pc = "served", !.page = page]
  OBVIOUS
<1>7. f \in PageCalls /\ f.pc = "served" /\ f.ver = calls.first.ver /\ f.page = page
  BY <1>4, <1>5, <1>6 DEF PageCalls
<1>8. calls' = [calls EXCEPT !.first = f]
  BY <1>3, <1>6, Parts DEF ServePage, Calls
<1>9. /\ calls' \in Calls /\ calls'.first = f /\ calls'.more = calls.more
      /\ calls'.count = calls.count /\ calls'.behind = calls.behind
      /\ calls'.wanted = calls.wanted /\ calls'.all = calls.all /\ calls'.read = calls.read
      /\ calls'.answer = calls.answer
  BY <1>7, <1>8, Parts DEF Calls
<1>10. Types'
  BY <1>1, <1>2, <1>9, Parts DEF Types
<1>11. Heard'
  <2>1. PageTrue(calls.first)'
    BY <1>1, <1>5, <1>7, <1>9 DEF PageTrue
  <2>2. PageTrue(calls.more)'
    BY <1>1, <1>9, Parts DEF Heard, CallsTrue, PageTrue
  <2>3. \A i \in NoteIds : RowTrue(i)'
    BY <1>1, <1>9, Parts DEF Heard, CallsTrue, RowTrue
  <2>4. OneLoop'
    BY <1>1, <1>7, <1>9, Parts DEF OneLoop, PageComes
  <2>5. CallsTrue'
    BY <1>1, <1>9, <2>1, <2>2, <2>3, Parts DEF Heard, CallsTrue, AllRead
  <2> QED BY <1>2, <2>4, <2>5 DEF Heard
<1>12. FirstPageKeeps'
  <2>1. DOMAIN calls.first.page.rows = {}
    BY <1>1, Parts, NoRowsThere DEF OneLoop, PageComes
  <2>2. \A i : Late(i)' <=> Late(i)
    BY <1>1, <1>7, <1>9 DEF Late
  <2>3. ASSUME NEW i \in DOMAIN inbox.list \ tale.swept, inbox.list[i].read
        PROVE  PageKeeps(i)'
    <3>1. i \in DOMAIN notes /\ notes[i].read
      BY <2>3, Parts DEF Shown, InboxEarned, Earned
    <3>2. CASE i \in DOMAIN page.rows
      BY <1>5, <1>7, <1>9, <3>1, <3>2 DEF PageKeeps
    <3>3. CASE i \notin DOMAIN page.rows
      <4>1. PageKeeps(i)
        BY <1>1, <2>3, Parts DEF Shown, FirstPageKeeps
      <4> QED BY <1>1, <1>7, <1>9, <2>1, <2>2, <3>3, <4>1 DEF PageKeeps
    <3> QED BY <3>2, <3>3
  <2>4. \A i \in DOMAIN inbox.overrides :
          inbox.overrides[i].read /\ Late(i)' => i \in DOMAIN inbox.readBy \/ inbox.created[i].row.read
    BY <1>1, <2>2, Parts DEF Shown, FirstPageKeeps
  <2> QED BY <1>1, <2>3, <2>4 DEF FirstPageKeeps
<1>13. AnswersClosed' /\ AnswersHold'
  <2>1. ASSUME NEW i \in tale.answered
        PROVE  PageClosed(calls.first, i)' /\ PageClosed(calls.more, i)'
    <3>1. i \in DOMAIN notes /\ ~notes[i].offers /\ PageClosed(calls.more, i)
      BY <2>1, Parts DEF Shown, AnswersClosed
    <3>2. PageClosed(calls.first, i)'
      BY <1>5, <1>7, <1>9, <3>1 DEF PageClosed
    <3>3. PageClosed(calls.more, i)'
      BY <1>1, <1>9, <3>1 DEF PageClosed, ClosedAfter
    <3> QED BY <3>2, <3>3
  <2> QED BY <1>1, <2>1, Parts DEF Shown, AnswersClosed, AnswersHold
<1>14. Versions' /\ InboxEarned'
  BY <1>1, <1>7, <1>9, Parts DEF Shown, Versions, Dated, InboxEarned, Earned
<1>15. Counted'
  <2>1. Answering' <=> Answering
    BY <1>9, AnsweringSame
  <2> QED BY <1>1, <1>2, <1>9, <2>1, Parts, CountedQuiet
<1> QED BY <1>10, <1>11, <1>12, <1>13, <1>14, <1>15 DEF InboxInv, Shown

LEMMA ServeMoreStep ==
  ASSUME InboxInv, ServePage("more")
  PROVE  InboxInv'
<1>1. inbox' = inbox /\ tale' = tale /\ UNCHANGED <<notes, pushes>> /\ calls.more.pc = "sent"
  BY DEF ServePage
<1>2. /\ NotesTyped' /\ NotesGrow /\ pushes' \subseteq Pushes /\ PushesTrue'
      /\ pushes' = pushes /\ Unread(notes') = Unread(notes)
  BY <1>1, ServerSame
<1>3. PICK page : page = PageBelow(calls.more.from)
  OBVIOUS
<1>4. calls.more \in PageCalls /\ calls.more.from \in 0..(MaxNotes + 1)
  BY Parts, CallsAre DEF PageCalls
<1>5. page \in Pages /\ \A i \in DOMAIN page.rows : i \in DOMAIN notes /\ page.rows[i] = notes[i]
  BY <1>3, <1>4, Parts, PageIs
<1>6. PICK m : m = [calls.more EXCEPT !.pc = "served", !.page = page]
  OBVIOUS
<1>7. m \in PageCalls /\ m.pc = "served" /\ m.ver = calls.more.ver /\ m.page = page
  BY <1>4, <1>5, <1>6 DEF PageCalls
<1>8. calls' = [calls EXCEPT !.more = m]
  BY <1>3, <1>6, Parts DEF ServePage, Calls
<1>9. /\ calls' \in Calls /\ calls'.first = calls.first /\ calls'.more = m
      /\ calls'.count = calls.count /\ calls'.behind = calls.behind
      /\ calls'.wanted = calls.wanted /\ calls'.all = calls.all /\ calls'.read = calls.read
      /\ calls'.answer = calls.answer
  BY <1>7, <1>8, Parts DEF Calls
<1>10. Types'
  BY <1>1, <1>2, <1>9, Parts DEF Types
<1>11. Heard'
  <2>1. PageTrue(calls.more)'
    BY <1>1, <1>5, <1>7, <1>9 DEF PageTrue
  <2>2. PageTrue(calls.first)'
    BY <1>1, <1>9, Parts DEF Heard, CallsTrue, PageTrue
  <2>3. \A i \in NoteIds : RowTrue(i)'
    BY <1>1, <1>9, Parts DEF Heard, CallsTrue, RowTrue
  <2>4. OneLoop'
    BY <1>1, <1>7, <1>9, Parts DEF OneLoop, PageComes
  <2>5. CallsTrue'
    BY <1>1, <1>9, <2>1, <2>2, <2>3, Parts DEF Heard, CallsTrue, AllRead
  <2> QED BY <1>2, <2>4, <2>5 DEF Heard
<1>12. FirstPageKeeps'
  <2>1. \A i : PageKeeps(i) => PageKeeps(i)'
    BY <1>1, <1>9 DEF PageKeeps, Late, ReadAfter
  <2>2. \A i : Late(i)' <=> Late(i)
    BY <1>1, <1>9 DEF Late
  <2> QED BY <1>1, <1>9, <2>1, <2>2, Parts DEF Shown, FirstPageKeeps
<1>13. AnswersClosed' /\ AnswersHold'
  <2>1. ASSUME NEW i \in tale.answered
        PROVE  PageClosed(calls.first, i)' /\ PageClosed(calls.more, i)'
    <3>1. i \in DOMAIN notes /\ ~notes[i].offers /\ PageClosed(calls.first, i)
      BY <2>1, Parts DEF Shown, AnswersClosed
    <3>2. PageClosed(calls.more, i)'
      BY <1>5, <1>7, <1>9, <3>1 DEF PageClosed
    <3>3. PageClosed(calls.first, i)'
      BY <1>1, <1>9, <3>1 DEF PageClosed, ClosedAfter
    <3> QED BY <3>2, <3>3
  <2> QED BY <1>1, <2>1, Parts DEF Shown, AnswersClosed, AnswersHold
<1>14. Versions' /\ InboxEarned'
  BY <1>1, <1>7, <1>9, Parts DEF Shown, Versions, Dated, InboxEarned, Earned
<1>15. Counted'
  <2>1. Answering' <=> Answering
    BY <1>9, AnsweringSame
  <2> QED BY <1>1, <1>2, <1>9, <2>1, Parts, CountedQuiet
<1> QED BY <1>10, <1>11, <1>12, <1>13, <1>14, <1>15 DEF InboxInv, Shown

LEMMA ServeCountStep ==
  ASSUME InboxInv, ServeCount
  PROVE  InboxInv'
<1>1. inbox' = inbox /\ UNCHANGED <<notes, pushes>> /\ calls.count.pc = "sent"
  BY DEF ServeCount
<1>2. /\ NotesTyped' /\ NotesGrow /\ pushes' \subseteq Pushes /\ PushesTrue'
      /\ pushes' = pushes /\ Unread(notes') = Unread(notes)
  BY <1>1, ServerSame
<1>3. /\ tale' \in Tales /\ tale'.swept = tale.swept /\ tale'.enveloped = tale.enveloped
      /\ tale'.answered = tale.answered
  BY Parts DEF ServeCount, Tales
<1>4. PICK n : n = Unread(notes)
  OBVIOUS
<1>5. n \in Nat /\ (n = 0 => \A i \in DOMAIN notes : notes[i].read)
  BY <1>4, Parts, NotesAre, UnreadIs
<1>6. calls.count \in CountCalls
  BY Parts, CallsAre
<1>7. PICK c : c = [calls.count EXCEPT !.pc = "served", !.n = n]
  OBVIOUS
<1>8. /\ c \in CountCalls /\ c.pc = "served" /\ c.n = n /\ c.ver = calls.count.ver
      /\ c.known = calls.count.known /\ c.loop = calls.count.loop
  BY <1>5, <1>6, <1>7 DEF CountCalls
<1>9. calls' = [calls EXCEPT !.count = c]
  BY <1>4, <1>7, Parts DEF ServeCount, Calls
<1>10. /\ calls' \in Calls /\ calls'.first = calls.first /\ calls'.more = calls.more
       /\ calls'.count = c /\ calls'.behind = calls.behind
       /\ calls'.wanted = calls.wanted /\ calls'.all = calls.all /\ calls'.read = calls.read
       /\ calls'.answer = calls.answer
  BY <1>8, <1>9, Parts DEF Calls
<1>11. Types'
  BY <1>1, <1>2, <1>3, <1>10, Parts DEF Types
<1>12. PagesKept
  BY <1>10, Parts DEF PagesKept, OneLoop
<1>13. Shown'
  <2>1. Moved({}, {}, {})
    BY <1>1, <1>2, <1>3, <1>12, Parts, StillMoved DEF Still
  <2> QED BY <1>11, <2>1, Parts, ShownStep
<1>14. Heard'
  <2>1. PageTrue(calls.first)' /\ PageTrue(calls.more)'
    BY <1>1, <1>10, Parts DEF Heard, CallsTrue, PageTrue
  <2>2. \A i \in NoteIds : RowTrue(i)'
    BY <1>1, <1>10, Parts DEF Heard, CallsTrue, RowTrue
  <2>3. OneLoop'
    BY <1>8, <1>10, Parts DEF OneLoop, PageComes
  <2>4. calls'.count.pc = "served" /\ calls'.count.n = 0 => AllRead(calls.count.known)'
    BY <1>1, <1>5, <1>8, <1>10, Parts DEF Heard, CallsTrue, AllRead
  <2>5. CallsTrue'
    BY <1>1, <1>8, <1>10, <2>1, <2>2, <2>4, Parts DEF Heard, CallsTrue, AllRead
  <2> QED BY <1>2, <2>3, <2>5 DEF Heard
<1>15. Counted'
  <2>1. Answering' <=> Answering
    BY <1>10, AnsweringSame
  <2>2. CountIsCurrent'
    BY <1>1, <1>8, <1>10, <2>1, Parts DEF Counted, CountIsCurrent
  <2>3. Busy' \/ (Taken' /\ calls'.count.n = Unread(notes'))
    BY <1>1, <1>2, <1>4, <1>8, <1>10, <2>1, Parts DEF Counted, CountIsCurrent, Busy, Taken
  <2> QED BY <2>2, <2>3 DEF Counted, BadgeSettling
<1> QED BY <1>11, <1>13, <1>14, <1>15 DEF InboxInv

LEMMA NoPageRenewed ==
  ASSUME NEW p \in Inboxes
  PROVE  Renewed(NoPage, p)
<1>1. p.version \in Nat
  BY InboxIs
<1> QED BY <1>1, NoPageIs DEF Renewed

LEMMA FirstPageReturnsStep ==
  ASSUME InboxInv, FirstPageReturns
  PROVE  InboxInv'
<1>1. UNCHANGED <<notes, pushes>> /\ tale' = tale
  BY DEF FirstPageReturns
<1>2. /\ NotesTyped' /\ NotesGrow /\ pushes' \subseteq Pushes /\ PushesTrue'
      /\ pushes' = pushes /\ Unread(notes') = Unread(notes)
  BY <1>1, ServerSame
<1>3. PICK none \in PageCalls : none = NoPage /\ none.pc = "none" /\ none.ver = 0
  BY NoPageIs
<1>4. /\ calls' \in Calls /\ calls'.first = none /\ calls'.more = calls.more
      /\ calls'.count = calls.count /\ calls'.behind = calls.behind
      /\ calls'.wanted = calls.wanted /\ calls'.all = calls.all /\ calls'.read = calls.read
      /\ calls'.answer = calls.answer
  BY <1>3, Parts DEF FirstPageReturns, Calls
<1>5. Answering' <=> Answering
  BY <1>4, AnsweringSame
<1>6. ASSUME inbox' \in Inboxes PROVE CallsKept
  <2>1. Renewed(none, inbox')
    BY <1>3, <1>6, NoPageRenewed
  <2>2. PagesKept
    BY <1>3, <1>4, <2>1 DEF PagesKept
  <2>3. CountKept /\ LoopKept
    BY <1>4, Parts DEF CountKept, LoopKept, OneLoop
  <2> QED BY <1>4, <2>2, <2>3, SameAll, SameAllRows DEF CallsKept
<1>7. CASE calls.first.pc = "sent" /\ inbox' = inbox
  <2>1. Types' /\ CallsKept
    BY <1>1, <1>2, <1>4, <1>6, <1>7, Parts DEF Types
  <2>2. Moved({}, {}, {})
    BY <1>1, <1>2, <1>7, <2>1, Parts, StillMoved DEF Still, CallsKept
  <2>3. Counted'
    BY <1>1, <1>2, <1>4, <1>5, <1>7, Parts, CountedQuiet
  <2> QED BY <1>2, <2>1, <2>2, <2>3, InboxStep
<1>8. CASE /\ calls.first.pc = "served"
           /\ inbox' = MergeFirstPage(inbox, calls.first.page, calls.first.ver)
  <2>1. PICK page \in Pages : page = calls.first.page
    BY Parts, CallsAre DEF PageCalls
  <2>2. PICK ver \in Nat : ver = calls.first.ver
    BY Parts, CallsAre DEF PageCalls
  <2>3. Merged(inbox', inbox, page, ver)
    BY <1>8, <2>1, <2>2, Parts, MergeIs
  <2>4. inbox' \in Inboxes /\ inbox'.version = inbox.version
        /\ inbox'.badge \in {inbox.badge, Unknown}
    BY <2>3 DEF Merged
  <2>5. Types' /\ CallsKept
    BY <1>1, <1>2, <1>4, <1>6, <2>4, Parts DEF Types
  <2>6. Versions'
    <3>1. inbox'.version \in Nat
      BY <2>4, InboxIs
    <3> QED BY <1>3, <1>4, <2>3, <2>4, <3>1, Parts DEF Shown, Versions, Dated, Merged
  <2>7. \A i : Earned(i)' <=> Earned(i)
    BY <1>1 DEF Earned
  <2>8. \A i \in DOMAIN page.rows : i \in DOMAIN notes /\ (page.rows[i].read => Earned(i))
    BY <2>1, Parts DEF Heard, CallsTrue, PageTrue, Earned
  <2>9. \A i \in DOMAIN inbox'.list : i \in DOMAIN notes' /\ (inbox'.list[i].read => Earned(i)')
    <3>1. ASSUME NEW i \in DOMAIN inbox'.list
          PROVE  i \in DOMAIN notes /\ (inbox'.list[i].read => Earned(i))
      <4>1. i \in DOMAIN page.rows \/ i \in DOMAIN inbox.created
        BY <2>3, <3>1 DEF Merged, Came
      <4>2. i \in DOMAIN notes
        BY <2>8, <4>1, Parts DEF Shown, InboxEarned
      <4>3. inbox'.list[i].read =>
              \/ i \in DOMAIN inbox.readBy
              \/ i \in DOMAIN inbox.created /\ inbox.created[i].row.read
              \/ i \in DOMAIN page.rows /\ page.rows[i].read
              \/ i \in DOMAIN inbox.overrides /\ inbox.overrides[i].read
        BY <2>3, <3>1 DEF Merged, Came
      <4> QED BY <2>8, <4>2, <4>3, Parts DEF Shown, InboxEarned
    <3> QED BY <1>1, <2>7, <3>1
  <2>10. InboxEarned'
    BY <1>1, <2>3, <2>7, <2>9, Parts DEF Shown, InboxEarned, Merged
  <2>11. FirstPageKeeps'
    BY <1>3, <1>4 DEF FirstPageKeeps
  <2>12. DOMAIN none.page.rows = {} /\ DOMAIN calls.more.page.rows = {}
    BY <1>3, <1>8, Parts, NoRowsThere DEF OneLoop, PageComes
  <2>13. AnswersClosed'
    BY <1>1, <1>4, <2>3, <2>12, Parts DEF Shown, AnswersClosed, PageClosed, Merged
  <2>14. AnswersHold'
    <3>1. SUFFICES ASSUME NEW i \in tale.answered \ tale.enveloped, i \in DOMAIN inbox'.list,
                          inbox'.list[i].offers
                   PROVE  FALSE
      BY <1>1 DEF AnswersHold
    <3>2. i \notin DOMAIN inbox.created /\ PageClosed(calls.first, i)
      BY <3>1, Parts DEF Shown, AnswersClosed
    <3> QED BY <2>1, <2>2, <2>3, <3>1, <3>2 DEF Merged, Came, PageClosed, ClosedAfter
  <2>15. Heard'
    BY <1>2, <2>5, <2>10, Parts, HeardStep
  <2>16. Counted'
    BY <1>1, <1>2, <1>4, <1>5, <2>4, Parts, CountedQuiet
  <2> QED BY <2>5, <2>6, <2>10, <2>11, <2>13, <2>14, <2>15, <2>16 DEF InboxInv, Shown
<1> QED BY <1>7, <1>8 DEF FirstPageReturns

LEMMA MoreReturnsStep ==
  ASSUME InboxInv, MoreReturns
  PROVE  InboxInv'
<1>1. UNCHANGED <<notes, pushes>> /\ tale' = tale
  BY DEF MoreReturns
<1>2. /\ NotesTyped' /\ NotesGrow /\ pushes' \subseteq Pushes /\ PushesTrue'
      /\ pushes' = pushes /\ Unread(notes') = Unread(notes)
  BY <1>1, ServerSame
<1>3. PICK none \in PageCalls : none = NoPage /\ none.pc = "none" /\ none.ver = 0
  BY NoPageIs
<1>4. /\ calls' \in Calls /\ calls'.first = calls.first /\ calls'.more = none
      /\ calls'.count = calls.count /\ calls'.behind = calls.behind
      /\ calls'.wanted = calls.wanted /\ calls'.all = calls.all /\ calls'.read = calls.read
      /\ calls'.answer = calls.answer
  BY <1>3, Parts DEF MoreReturns, Calls
<1>5. Answering' <=> Answering
  BY <1>4, AnsweringSame
<1>6. ASSUME inbox' \in Inboxes PROVE CallsKept
  <2>1. Renewed(none, inbox')
    BY <1>3, <1>6, NoPageRenewed
  <2>2. PagesKept
    BY <1>3, <1>4, <2>1 DEF PagesKept
  <2>3. CountKept /\ LoopKept
    BY <1>4, Parts DEF CountKept, LoopKept, OneLoop
  <2> QED BY <1>4, <2>2, <2>3, SameAll, SameAllRows DEF CallsKept
<1>7. CASE calls.more.pc = "sent" /\ inbox' = inbox
  <2>1. Types' /\ CallsKept
    BY <1>1, <1>2, <1>4, <1>6, <1>7, Parts DEF Types
  <2>2. Moved({}, {}, {})
    BY <1>1, <1>2, <1>7, <2>1, Parts, StillMoved DEF Still, CallsKept
  <2>3. Counted'
    BY <1>1, <1>2, <1>4, <1>5, <1>7, Parts, CountedQuiet
  <2> QED BY <1>2, <2>1, <2>2, <2>3, InboxStep
<1>8. CASE /\ calls.more.pc = "served"
           /\ inbox' = AppendPage(inbox, calls.more.page, calls.more.ver)
  <2>1. PICK page \in Pages : page = calls.more.page
    BY Parts, CallsAre DEF PageCalls
  <2>2. PICK ver \in Nat : ver = calls.more.ver
    BY Parts, CallsAre DEF PageCalls
  <2>3. Appended(inbox', inbox, page, ver)
    BY <1>8, <2>1, <2>2, Parts, AppendIs
  <2>4. inbox' \in Inboxes /\ inbox'.version = inbox.version
        /\ inbox'.badge \in {inbox.badge, Unknown}
    BY <2>3 DEF Appended
  <2>5. Types' /\ CallsKept
    BY <1>1, <1>2, <1>4, <1>6, <2>4, Parts DEF Types
  <2>6. Versions'
    <3>1. inbox'.version \in Nat
      BY <2>4, InboxIs
    <3> QED BY <1>3, <1>4, <2>3, <2>4, <3>1, Parts DEF Shown, Versions, Dated, Appended
  <2>7. \A i : Earned(i)' <=> Earned(i)
    BY <1>1 DEF Earned
  <2>8. \A i \in DOMAIN page.rows : i \in DOMAIN notes /\ (page.rows[i].read => Earned(i))
    BY <2>1, Parts DEF Heard, CallsTrue, PageTrue, Earned
  <2>9. \A i \in DOMAIN inbox'.list : i \in DOMAIN notes' /\ (inbox'.list[i].read => Earned(i)')
    <3>1. ASSUME NEW i \in DOMAIN inbox'.list
          PROVE  i \in DOMAIN notes /\ (inbox'.list[i].read => Earned(i))
      <4>1. CASE i \in DOMAIN inbox.list
        BY <2>3, <4>1, Parts DEF Appended, Shown, InboxEarned
      <4>2. CASE i \notin DOMAIN inbox.list
        <5>1. i \in DOMAIN page.rows
          BY <2>3, <3>1, <4>2 DEF Appended
        <5>2. inbox'.list[i].read =>
                \/ page.rows[i].read
                \/ i \in DOMAIN inbox.overrides /\ inbox.overrides[i].read
          BY <2>3, <4>2, <5>1 DEF Appended
        <5> QED BY <2>8, <5>1, <5>2, Parts DEF Shown, InboxEarned
      <4> QED BY <4>1, <4>2
    <3> QED BY <1>1, <2>7, <3>1
  <2>10. InboxEarned'
    BY <1>1, <2>3, <2>7, <2>9, Parts DEF Shown, InboxEarned, Appended
  <2>11. FirstPageKeeps'
    BY <1>4, <1>8, Parts DEF OneLoop, FirstPageKeeps
  <2>12. DOMAIN none.page.rows = {}
    BY <1>3, NoRowsThere
  <2>13. AnswersClosed'
    BY <1>1, <1>4, <2>3, <2>12, Parts
    DEF Shown, AnswersClosed, PageClosed, ClosedAfter, Appended
  <2>14. AnswersHold'
    <3>1. SUFFICES ASSUME NEW i \in tale.answered \ tale.enveloped, i \in DOMAIN inbox'.list,
                          inbox'.list[i].offers
                   PROVE  FALSE
      BY <1>1 DEF AnswersHold
    <3>2. PageClosed(calls.more, i) /\ (i \in DOMAIN inbox.list => ~inbox.list[i].offers)
      BY <3>1, Parts DEF Shown, AnswersClosed, AnswersHold
    <3> QED BY <2>1, <2>2, <2>3, <3>1, <3>2 DEF Appended, PageClosed, ClosedAfter
  <2>15. Heard'
    BY <1>2, <2>5, <2>10, Parts, HeardStep
  <2>16. Counted'
    BY <1>1, <1>2, <1>4, <1>5, <2>4, Parts, CountedQuiet
  <2> QED BY <2>5, <2>6, <2>10, <2>11, <2>13, <2>14, <2>15, <2>16 DEF InboxInv, Shown
<1> QED BY <1>7, <1>8 DEF MoreReturns

LEMMA NoCountIs ==
  NoCount \in CountCalls /\ NoCount.pc = "none" /\ NoCount.known = {} /\ ~NoCount.loop
BY DEF NoCount, CountCalls

LEMMA CountReturnsStep ==
  ASSUME InboxInv, CountReturns
  PROVE  InboxInv'
<1>1. UNCHANGED <<notes, pushes>>
  BY DEF CountReturns
<1>2. /\ NotesTyped' /\ NotesGrow /\ pushes' \subseteq Pushes /\ PushesTrue'
      /\ pushes' = pushes /\ Unread(notes') = Unread(notes)
  BY <1>1, ServerSame
<1>3. calls.count \in CountCalls /\ calls.behind \in BOOLEAN /\ calls.wanted \in BOOLEAN
  BY Parts, CallsAre
<1>4. calls.count.n \in Nat /\ calls.count.known \in SUBSET NoteIds
  BY <1>3 DEF CountCalls
<1>5. /\ tale' \in Tales /\ tale'.swept = tale.swept /\ tale'.enveloped = tale.enveloped
      /\ tale'.answered = tale.answered
      /\ calls.count.pc = "served" => tale'.missed = tale.missed
      /\ calls.count.pc = "sent" => tale'.missed
  BY Parts DEF CountReturns, Tales
<1>6. PICK none : none = NoCount
  OBVIOUS
<1>7. PICK c : c = [calls EXCEPT !.count = none]
  OBVIOUS
<1>8. none \in CountCalls /\ none.pc = "none" /\ none.known = {} /\ ~none.loop
  BY <1>6, NoCountIs
<1>9. /\ c \in Calls /\ c.first = calls.first /\ c.more = calls.more /\ c.count = none
      /\ c.behind = calls.behind /\ c.wanted = calls.wanted /\ SameRows(c, calls)
  BY <1>7, <1>8, Parts DEF Calls, SameRows
<1>10. \/ /\ calls.count.pc = "served"
          /\ inbox' = MergeUnreadCount(inbox, calls.count.n, calls.count.ver, calls.count.known)
       \/ calls.count.pc = "sent" /\ inbox' = inbox
  BY DEF CountReturns
<1>11. \E S : /\ Told(inbox, inbox', S, {}, {}) /\ \A i \in S : Earned(i)'
  <2>1. CASE calls.count.pc = "sent" /\ inbox' = inbox
    <3>1. PICK S : S = {}
      OBVIOUS
    <3>2. Told(inbox, inbox', S, {}, {})
      BY <2>1, <3>1, Parts, ToldNothing
    <3> QED BY <3>1, <3>2
  <2>2. CASE /\ calls.count.pc = "served"
             /\ inbox' = MergeUnreadCount(inbox, calls.count.n, calls.count.ver, calls.count.known)
    <3>1. PICK known \in SUBSET NoteIds : known = calls.count.known
      BY <1>4
    <3>2. \/ Told(inbox, inbox', {}, {}, {})
          \/ calls.count.n = 0 /\ Told(inbox, inbox', known, {}, {})
      BY <1>4, <2>2, <3>1, Parts, CountTold
    <3>3. CASE Told(inbox, inbox', {}, {}, {})
      BY <3>3
    <3>4. CASE calls.count.n = 0 /\ Told(inbox, inbox', known, {}, {})
      <4>1. \A i \in known : Earned(i)
        BY <2>2, <3>1, <3>4, Parts DEF Heard, CallsTrue, AllRead, Earned
      <4>2. \A i \in known : Earned(i)'
        BY <1>1, <1>5, <4>1 DEF Earned
      <4> QED BY <3>4, <4>2
    <3> QED BY <3>2, <3>3, <3>4
  <2> QED BY <1>10, <2>1, <2>2
<1>12. PICK S : Told(inbox, inbox', S, {}, {}) /\ \A i \in S : Earned(i)'
  BY <1>11
<1>13. inbox' \in Inboxes
  BY <1>12 DEF Told
<1>14. /\ calls' \in Calls /\ SameRows(calls', calls)
       /\ calls'.first = calls.first /\ calls'.more = calls.more
       /\ \/ /\ calls'.count = none /\ calls'.behind = calls.behind
             /\ calls'.wanted = calls.wanted /\ ~(calls.count.loop /\ calls.wanted)
          \/ /\ calls.count.loop /\ ~calls'.wanted /\ calls'.behind = calls.behind
             /\ calls'.count.pc = "sent" /\ calls'.count.ver = inbox'.version
             /\ calls'.count.known = DOMAIN inbox'.list /\ calls'.count.loop
  <2>1. CASE calls.count.loop
    <3>1. calls' = LoopGoesOn(c, inbox')
      BY <1>6, <1>7, <2>1 DEF CountReturns
    <3>2. Continued(calls', c, inbox')
      BY <1>9, <1>13, <3>1, LoopGoesOnIs
    <3> QED BY <1>9, <2>1, <3>2 DEF Continued, SameRows
  <2>2. CASE ~calls.count.loop
    <3>1. calls' = c
      BY <1>6, <1>7, <2>2 DEF CountReturns
    <3> QED BY <1>9, <2>2, <3>1
  <2> QED BY <2>1, <2>2
<1>15. Types'
  BY <1>2, <1>5, <1>13, <1>14, Parts DEF Types
<1>16. CallsKept
  <2>1. PagesKept
    BY <1>14, Parts DEF PagesKept, OneLoop
  <2>2. CountKept
    BY <1>8, <1>14 DEF CountKept
  <2>3. LoopKept
    BY <1>8, <1>14, Parts DEF LoopKept, OneLoop
  <2> QED BY <1>14, <2>1, <2>2, <2>3, SameAll, SameAllRows DEF CallsKept, SameRows
<1>17. Moved(S, {}, {})
  BY <1>2, <1>5, <1>12, <1>16 DEF Moved, CallsKept, PagesKept
<1>18. Counted'
  <2>1. CASE calls'.count.pc = "sent" /\ calls'.count.ver = inbox'.version
    BY <2>1, CountedAsked
  <2>2. CASE calls'.count = none /\ ~(calls.count.loop /\ calls.wanted)
             /\ calls'.wanted = calls.wanted
    <3>1. CountIsCurrent' /\ ~Taken'
      BY <1>8, <2>2 DEF CountIsCurrent, Taken
    <3>2. ASSUME ~Busy' PROVE inbox'.badge \in {Unread(notes'), Unknown}
      <4>1. Answering' <=> Answering
        BY <1>14, AnsweringSame DEF SameRows
      <4>2. calls.count.pc = "served"
        BY <1>5, <1>10, <3>2 DEF Busy
      <4>3. ~Busy
        BY <1>2, <1>5, <2>2, <3>2, <4>1, <4>2 DEF Busy
      <4>4. PICK known \in SUBSET NoteIds : known = calls.count.known
        BY <1>4
      <4>5. /\ calls.count.ver = inbox.version => inbox'.badge \in {calls.count.n, Unknown}
            /\ calls.count.ver # inbox.version => inbox' = inbox
        BY <1>4, <1>10, <4>2, <4>4, Parts, CountTold
      <4> QED BY <1>2, <4>2, <4>3, <4>5, Parts DEF Counted, BadgeSettling, Taken
    <3> QED BY <3>1, <3>2 DEF Counted, BadgeSettling
  <2> QED BY <1>14, <2>1, <2>2
<1> QED BY <1>2, <1>15, <1>16, <1>17, <1>18, InboxStep

LEMMA SupersededCountReturnsStep ==
  ASSUME InboxInv, SupersededCountReturns
  PROVE  InboxInv'
<1>1. UNCHANGED <<notes, pushes>> /\ inbox' = inbox /\ tale' = tale /\ calls.behind
  BY DEF SupersededCountReturns
<1>2. /\ NotesTyped' /\ NotesGrow /\ pushes' \subseteq Pushes /\ PushesTrue'
      /\ pushes' = pushes /\ Unread(notes') = Unread(notes)
  BY <1>1, ServerSame
<1>3. PICK c : c = [calls EXCEPT !.behind = FALSE]
  OBVIOUS
<1>4. /\ c \in Calls /\ c.first = calls.first /\ c.more = calls.more /\ c.count = calls.count
      /\ ~c.behind /\ c.wanted = calls.wanted /\ SameRows(c, calls)
  BY <1>3, Parts DEF Calls, SameRows
<1>5. Continued(calls', c, inbox')
  BY <1>1, <1>3, <1>4, Parts, LoopGoesOnIs DEF SupersededCountReturns
<1>6. calls' \in Calls /\ SameRows(calls', calls)
  BY <1>4, <1>5 DEF Continued, SameRows
<1>7. Types'
  BY <1>1, <1>2, <1>6, Parts DEF Types
<1>8. CallsKept
  <2>1. PagesKept
    BY <1>4, <1>5, Parts DEF PagesKept, OneLoop, Continued
  <2>2. CountKept
    BY <1>4, <1>5 DEF CountKept, Continued
  <2>3. LoopKept
    BY <1>1, <1>4, <1>5, Parts DEF LoopKept, OneLoop, Continued
  <2> QED BY <1>6, <2>1, <2>2, <2>3, SameAll, SameAllRows DEF CallsKept, SameRows
<1>9. Moved({}, {}, {})
  BY <1>1, <1>2, <1>8, Parts, StillMoved DEF Still, CallsKept
<1>10. Counted'
  <2>1. CASE calls'.count.pc = "sent" /\ calls'.count.ver = inbox'.version
    BY <2>1, CountedAsked
  <2>2. CASE ~c.wanted /\ calls' = c
    <3>1. Answering' <=> Answering
      BY <1>6, AnsweringSame DEF SameRows
    <3> QED BY <1>1, <1>2, <1>4, <2>2, <3>1, Parts, CountedQuiet
  <2> QED BY <1>5, <2>1, <2>2 DEF Continued
<1> QED BY <1>2, <1>7, <1>8, <1>9, <1>10, InboxStep

LEMMA DeliverStep ==
  ASSUME InboxInv, NEW e \in pushes, Deliver(e)
  PROVE  InboxInv'
<1>1. PICK p : p = ApplyEvent(inbox, e)
  OBVIOUS
<1>2. /\ pushes' = pushes \ {e} /\ inbox' = p /\ notes' = notes
      /\ tale' = [tale EXCEPT
           !.swept = IF e.event = "read_all" THEN @ \cup (KnownIds(inbox) \ e.ids) ELSE @,
           !.enveloped = IF e.event = "created" THEN @ \cup e.ids ELSE @]
  BY <1>1 DEF Deliver
<1>3. NotesTyped' /\ NotesGrow
  BY <1>2, Parts, SamePlace
<1>4. PushesTrue' /\ pushes' \subseteq Pushes
  BY <1>2, <1>3, Parts, PushesGrow
<1>5. e \in Pushes /\ PushTrue(e) /\ e.event \in {"created", "read", "read_all"}
      /\ e.ids \in SUBSET NoteIds
  BY Parts DEF PushesTrue, Pushes
<1>6. DOMAIN notes \subseteq NoteIds
  BY Parts, NotesAre, PartialIs
<1>7. e.event \in {"created", "read"} => \E i \in NoteIds : e.ids = {i}
  BY <1>5, <1>6 DEF PushTrue
<1>8. PICK S : S = SaidRead(inbox, e)
  OBVIOUS
<1>9. PICK N : N = Brought(e)
  OBVIOUS
<1>10. Told(inbox, inbox', S, N, {}) /\ inbox' \in Inboxes
  BY <1>1, <1>2, <1>5, <1>7, <1>8, <1>9, Parts, EventTold DEF Told
<1>11. PICK known : known = KnownIds(inbox)
  OBVIOUS
<1>12. known \in SUBSET NoteIds
       /\ \A i \in known :
            i \in DOMAIN inbox.list \/ i \in DOMAIN inbox.created \/ i \in DOMAIN inbox.readBy
  BY <1>11, Parts, KnownIdsAre
<1>13. /\ tale' \in Tales /\ tale'.missed = tale.missed /\ tale'.answered = tale.answered
       /\ tale.swept \subseteq tale'.swept /\ tale.enveloped \subseteq tale'.enveloped
       /\ e.event = "read_all" => \A i \in known : i \in e.ids \/ i \in tale'.swept
       /\ e.event = "created" => \A i \in e.ids : i \in tale'.enveloped
  <2>1. PICK s : s = IF e.event = "read_all" THEN tale.swept \cup (known \ e.ids) ELSE tale.swept
    OBVIOUS
  <2>2. PICK v : v = IF e.event = "created" THEN tale.enveloped \cup e.ids ELSE tale.enveloped
    OBVIOUS
  <2>3. s \in SUBSET NoteIds /\ v \in SUBSET NoteIds
    BY <1>5, <1>12, <2>1, <2>2, Parts, TaleIs
  <2>4. tale' = [tale EXCEPT !.swept = s, !.enveloped = v]
    BY <1>2, <1>11, <2>1, <2>2
  <2>5. /\ tale' \in Tales /\ tale'.missed = tale.missed /\ tale'.answered = tale.answered
        /\ tale'.swept = s /\ tale'.enveloped = v
    BY <2>3, <2>4, Parts DEF Tales
  <2> QED BY <2>1, <2>2, <2>5
<1>14. \A i \in S : Earned(i)'
  <2>1. CASE e.event = "read"
    <3>1. S = e.ids /\ AllRead(e.ids)
      BY <1>5, <1>8, <2>1 DEF SaidRead, PushTrue
    <3> QED BY <1>2, <3>1 DEF AllRead, Earned
  <2>2. CASE e.event = "read_all"
    <3>1. S = known /\ AllRead(e.ids)
      BY <1>5, <1>8, <1>11, <2>2 DEF SaidRead, PushTrue
    <3>2. \A i \in S : i \in DOMAIN notes
      BY <1>12, <3>1, Parts DEF Shown, InboxEarned, Earned
    <3> QED BY <1>2, <1>13, <2>2, <3>1, <3>2 DEF AllRead, Earned
  <2>3. CASE e.event = "created"
    BY <1>8, <2>3 DEF SaidRead
  <2> QED BY <1>5, <2>1, <2>2, <2>3
<1>15. \A i \in N : i \in DOMAIN notes' /\ i \in tale'.enveloped
  BY <1>2, <1>5, <1>9, <1>13 DEF Brought, PushTrue
<1>16. PICK a : a = (calls.all.ambiguous \/ (e.event = "read_all" /\ calls.all.pc # "none"))
  OBVIOUS
<1>17. calls.all \in ReadAllCalls /\ calls.all.ambiguous \in BOOLEAN
  BY Parts, CallsAre DEF ReadAllCalls
<1>18. a \in BOOLEAN
  BY <1>16, <1>17, Zenon
<1>19. PICK all : all = [calls.all EXCEPT !.ambiguous = a]
  OBVIOUS
<1>20. all \in ReadAllCalls /\ all.pc = calls.all.pc /\ all.visible = calls.all.visible
  BY <1>17, <1>18, <1>19 DEF ReadAllCalls
<1>21. PICK c : c = [calls EXCEPT !.all = all]
  OBVIOUS
<1>22. /\ c \in Calls /\ c.first = calls.first /\ c.more = calls.more /\ c.count = calls.count
       /\ c.behind = calls.behind /\ c.wanted = calls.wanted /\ c.all = all
       /\ c.read = calls.read /\ c.answer = calls.answer
  BY <1>20, <1>21, Parts DEF Calls
<1>23. PICK d : d = IF e.event = "read_all" /\ c.asked THEN LoadFirstPage(c, p) ELSE c
  OBVIOUS
<1>24. d = c \/ FirstAsked(d, c, inbox')
  BY <1>2, <1>10, <1>22, <1>23, LoadFirstPageIs
<1>25. d \in Calls /\ SameRows(d, c)
  BY <1>22, <1>24 DEF FirstAsked, SameRows
<1>26. calls' = ReconcileOnEvent(d, p)
  <2>1. c = [calls EXCEPT
               !.all.ambiguous = @ \/ (e.event = "read_all" /\ calls.all.pc # "none")]
    BY <1>16, <1>19, <1>21
  <2> QED BY <1>1, <1>23, <2>1, Zenon DEF Deliver
<1>27. Heeded(calls', d, inbox')
  BY <1>2, <1>10, <1>25, <1>26, ReconcileOnEventIs
<1>28. Asking
  <2>1. d.count = calls.count /\ d.behind = calls.behind /\ d.wanted = calls.wanted
    BY <1>22, <1>24 DEF FirstAsked
  <2>2. \/ d.first = calls.first /\ d.more = calls.more
        \/ Renewed(d.first, inbox') /\ Renewed(d.more, inbox') /\ d.more.pc = "none"
    BY <1>22, <1>24 DEF FirstAsked
  <2> QED BY <1>27, <2>1, <2>2, Parts, HeededStep
<1>29. calls' \in Calls /\ SameRows(calls', c)
  BY <1>25, <1>27 DEF Heeded, SameRows
<1>30. Types'
  BY <1>3, <1>4, <1>10, <1>13, <1>29 DEF Types
<1>31. CallsKept
  <2>1. AllKept
    BY <1>20, <1>22, <1>29 DEF AllKept, SameRows
  <2>2. RowsKept
    BY <1>22, <1>29, SameAllRows DEF SameRows
  <2> QED BY <1>28, <2>1, <2>2 DEF Asking, CallsKept
<1>32. Moved(S, N, {})
  BY <1>3, <1>10, <1>13, <1>14, <1>15, <1>31 DEF Moved, CallsKept, PagesKept
<1> QED BY <1>4, <1>28, <1>30, <1>31, <1>32, InboxStep DEF Asking

LEMMA LoseStep ==
  ASSUME InboxInv, NEW e \in pushes, Lose(e)
  PROVE  InboxInv'
<1>1. /\ pushes' = pushes \ {e} /\ UNCHANGED <<notes, inbox, calls>>
      /\ tale' = [tale EXCEPT !.missed = TRUE]
  BY DEF Lose
<1>2. NotesTyped' /\ NotesGrow
  BY <1>1, Parts, SamePlace
<1>3. PushesTrue' /\ pushes' \subseteq Pushes
  BY <1>1, <1>2, Parts, PushesGrow
<1>4. /\ tale' \in Tales /\ tale'.swept = tale.swept /\ tale'.enveloped = tale.enveloped
      /\ tale'.answered = tale.answered /\ tale'.missed
  BY <1>1, Parts DEF Tales
<1>5. Types' /\ CallsKept
  BY <1>1, <1>2, <1>3, <1>4, Parts, CallsSame DEF Types
<1>6. Moved({}, {}, {})
  BY <1>1, <1>2, <1>4, <1>5, Parts, StillMoved DEF Still, CallsKept
<1>7. Counted'
  <2>1. Answering' <=> Answering
    BY <1>1, AnsweringSame
  <2> QED BY <1>1, <1>4, <2>1, Parts, CountedQuiet
<1> QED BY <1>3, <1>5, <1>6, <1>7, InboxStep

-----------------------------------------------------------------------------
(* What the user changes.                                                  *)

\* d is c but for one row.
OneRead(d, c, i, x) ==
  /\ d \in Calls /\ d.first = c.first /\ d.more = c.more /\ d.count = c.count
  /\ d.behind = c.behind /\ d.wanted = c.wanted /\ d.all = c.all /\ d.answer = c.answer
  /\ d.read[i] = x /\ \A j \in NoteIds : j # i => d.read[j] = c.read[j]

OneAnswer(d, c, i, x) ==
  /\ d \in Calls /\ d.first = c.first /\ d.more = c.more /\ d.count = c.count
  /\ d.behind = c.behind /\ d.wanted = c.wanted /\ d.all = c.all /\ d.read = c.read
  /\ d.answer[i] = x /\ \A j \in NoteIds : j # i => d.answer[j] = c.answer[j]

LEMMA OneReadIs ==
  ASSUME NEW c \in Calls, NEW i \in NoteIds, NEW x \in {"none", "sent", "served"}
  PROVE  OneRead([c EXCEPT !.read[i] = x], c, i, x)
<1>1. PICK r : r = [c.read EXCEPT ![i] = x]
  OBVIOUS
<1>2. /\ r \in [NoteIds -> {"none", "sent", "served"}] /\ r[i] = x
      /\ \A j \in NoteIds : j # i => r[j] = c.read[j]
  BY <1>1, CallsAre
<1>3. PICK d : d = [c EXCEPT !.read = r]
  OBVIOUS
<1>4. /\ d \in Calls /\ d.first = c.first /\ d.more = c.more /\ d.count = c.count
      /\ d.behind = c.behind /\ d.wanted = c.wanted /\ d.all = c.all /\ d.answer = c.answer
      /\ d.read = r
  BY <1>2, <1>3 DEF Calls
<1>5. [c EXCEPT !.read[i] = x] = d
  BY <1>1, <1>3
<1> QED BY <1>2, <1>4, <1>5 DEF OneRead

LEMMA OneAnswerIs ==
  ASSUME NEW c \in Calls, NEW i \in NoteIds,
         NEW x \in {"none", "sent", "served", "refused", "reading", "read"}
  PROVE  OneAnswer([c EXCEPT !.answer[i] = x], c, i, x)
<1>1. PICK r : r = [c.answer EXCEPT ![i] = x]
  OBVIOUS
<1>2. /\ r \in [NoteIds -> {"none", "sent", "served", "refused", "reading", "read"}] /\ r[i] = x
      /\ \A j \in NoteIds : j # i => r[j] = c.answer[j]
  BY <1>1, CallsAre
<1>3. PICK d : d = [c EXCEPT !.answer = r]
  OBVIOUS
<1>4. /\ d \in Calls /\ d.first = c.first /\ d.more = c.more /\ d.count = c.count
      /\ d.behind = c.behind /\ d.wanted = c.wanted /\ d.all = c.all /\ d.read = c.read
      /\ d.answer = r
  BY <1>2, <1>3 DEF Calls
<1>5. [c EXCEPT !.answer[i] = x] = d
  BY <1>1, <1>3
<1> QED BY <1>2, <1>4, <1>5 DEF OneAnswer

SameTale ==
  /\ tale' \in Tales /\ tale'.swept = tale.swept /\ tale'.enveloped = tale.enveloped
  /\ tale'.answered = tale.answered /\ tale'.missed = tale.missed

\* Only a request for a row, or for all, goes a step.
LEMMA QuietStep ==
  ASSUME InboxInv, Served, inbox' = inbox, SameTale, calls' \in Calls,
         calls'.first = calls.first, calls'.more = calls.more, calls'.count = calls.count,
         calls'.behind = calls.behind, calls'.wanted = calls.wanted, AllKept, RowsKept,
         Answering' \/ (Answering' <=> Answering)
  PROVE  InboxInv'
<1>1. Types'
  BY Parts DEF Types, Served, SameTale
<1>2. CallsKept
  BY Parts, LoopSame DEF CallsKept
<1>3. Moved({}, {}, {})
  BY <1>2, Parts, StillMoved DEF Still, Served, SameTale, CallsKept
<1>4. Counted'
  <2>1. CASE Answering'
    BY <2>1, CountedBusy
  <2>2. CASE Answering' <=> Answering
    BY <2>2, Parts, CountedQuiet DEF Served, SameTale
  <2> QED BY <2>1, <2>2
<1> QED BY <1>1, <1>2, <1>3, <1>4, InboxStep DEF Served

LEMMA ServedSame ==
  ASSUME InboxInv, UNCHANGED <<notes, pushes>>
  PROVE  Served
BY ServerSame DEF Served

\* A change is taken over, and the list or the count asked for.
LEMMA AskStep ==
  ASSUME InboxInv, UNCHANGED <<notes, pushes>>, tale' \in Tales, tale'.swept = tale.swept,
         tale'.enveloped = tale.enveloped, NEW S, NEW C, Told(inbox, inbox', S, {}, C),
         \A i \in tale'.answered : i \in tale.answered \/ i \in C,
         \A i \in S : Earned(i),
         \A i \in C : i \in DOMAIN notes /\ ~notes[i].offers,
         NEW c, SameLoop(c),
         AllAsked(calls', c, inbox') \/ CountAsked(calls', c, inbox', FALSE), AllKept, RowsKept
  PROVE  InboxInv'
<1>1. /\ NotesTyped' /\ NotesGrow /\ pushes' \subseteq Pushes /\ PushesTrue'
  BY ServerSame
<1>2. Asking
  BY Parts, AllAskedStep, CountAskedStep
<1>3. CallsKept
  BY <1>2 DEF Asking, CallsKept
<1>4. calls' \in Calls /\ inbox' \in Inboxes
  BY DEF AllAsked, CountAsked, Told
<1>5. Types'
  BY <1>1, <1>4 DEF Types
<1>6. \A i \in S : Earned(i)'
  BY DEF Earned
<1>7. Moved(S, {}, C)
  BY <1>1, <1>3, <1>6 DEF Moved, CallsKept, PagesKept
<1> QED BY <1>1, <1>2, <1>3, <1>5, <1>7, InboxStep DEF Asking

LEMMA StartReadStep ==
  ASSUME InboxInv, NEW i \in NoteIds, StartRead(i)
  PROVE  InboxInv'
<1>1. inbox' = inbox /\ UNCHANGED <<notes, pushes>> /\ Move
  BY DEF StartRead
<1>2. SameTale
  BY <1>1, Parts, MoveIs DEF SameTale
<1>3. OneRead(calls', calls, i, "sent")
  BY Parts, OneReadIs DEF StartRead
<1>4. i \in DOMAIN notes
  BY Parts DEF StartRead, Shown, InboxEarned
<1>5. RowsKept /\ AllKept /\ (Answering' <=> Answering)
  BY <1>3, <1>4, SameAll, AnsweringSame DEF OneRead, RowsKept
<1> QED BY <1>1, <1>2, <1>3, <1>5, ServedSame, QuietStep DEF OneRead

LEMMA ReadServedStep ==
  ASSUME InboxInv, NEW i \in NoteIds, ReadServed(i)
  PROVE  InboxInv'
<1>1. inbox' = inbox /\ tale' = tale /\ calls.read[i] = "sent" /\ ServeRead(i)
  BY DEF ReadServed
<1>2. i \in DOMAIN notes
  BY <1>1, Parts DEF Heard, CallsTrue, RowTrue
<1>3. Served /\ i \in DOMAIN notes' /\ notes'[i].read
  BY <1>1, <1>2, Parts, ServeReadIs
<1>4. SameTale
  BY <1>1, Parts DEF SameTale
<1>5. OneRead(calls', calls, i, "served")
  BY Parts, OneReadIs DEF ReadServed
<1>6. RowsKept /\ AllKept /\ (Answering' <=> Answering)
  BY <1>2, <1>3, <1>5, SameAll, AnsweringSame DEF OneRead, RowsKept
<1> QED BY <1>1, <1>3, <1>4, <1>5, <1>6, QuietStep DEF OneRead

\* What a success says of the row.
LEMMA SaidTold ==
  ASSUME NEW p \in Inboxes, NEW i \in NoteIds
  PROVE  \E S : /\ Told(p, ApplyEvent(p, PushOf("read", {i}, FALSE)), S, {}, {})
                /\ \A j \in S : j = i
<1>1. PICK e : e = PushOf("read", {i}, FALSE)
  OBVIOUS
<1>2. e \in Pushes /\ e.event = "read" /\ e.ids = {i}
  BY <1>1, PushIs
<1>3. PICK S : S = SaidRead(p, e)
  OBVIOUS
<1>4. PICK N : N = Brought(e)
  OBVIOUS
<1>5. Told(p, ApplyEvent(p, e), S, N, {})
  BY <1>2, <1>3, <1>4, EventTold
<1>6. N = {} /\ \A j \in S : j = i
  BY <1>2, <1>3, <1>4 DEF SaidRead, Brought
<1> QED BY <1>1, <1>5, <1>6

LEMMA ReadReturnsStep ==
  ASSUME InboxInv, NEW i \in NoteIds, ReadReturns(i)
  PROVE  InboxInv'
<1>1. UNCHANGED <<notes, pushes>> /\ tale' = tale
  BY DEF ReadReturns
<1>2. PICK c : c = [calls EXCEPT !.read[i] = "none"]
  OBVIOUS
<1>3. OneRead(c, calls, i, "none")
  BY <1>2, Parts, OneReadIs
<1>4. SameTale
  BY <1>1, Parts DEF SameTale
<1>5. CASE inbox' = inbox /\ calls' = c
  <2>1. RowsKept /\ AllKept /\ (Answering' <=> Answering)
    BY <1>3, <1>5, SameAll, AnsweringSame DEF OneRead, RowsKept
  <2> QED BY <1>1, <1>3, <1>4, <1>5, <2>1, ServedSame, QuietStep DEF OneRead
<1>6. CASE /\ calls.read[i] = "served"
           /\ inbox' = ApplyEvent(inbox, PushOf("read", {i}, FALSE))
           /\ calls' = Reconcile(c, inbox', FALSE)
  <2>1. PICK S : Told(inbox, inbox', S, {}, {}) /\ \A j \in S : j = i
    BY <1>6, Parts, SaidTold
  <2>2. CountAsked(calls', c, inbox', FALSE)
    BY <1>3, <1>6, <2>1, ReconcileIs DEF OneRead, Told
  <2>3. SameLoop(c)
    BY <1>3 DEF OneRead, SameLoop
  <2>4. RowsKept /\ AllKept
    BY <1>3, <2>2 DEF OneRead, CountAsked, SameRows, RowsKept, AllKept
  <2>5. \A j \in S : Earned(j)
    BY <1>6, <2>1, Parts DEF Heard, CallsTrue, RowTrue, Earned
  <2>6. PICK C : C = {}
    OBVIOUS
  <2>7. Told(inbox, inbox', S, {}, C)
    BY <2>1, <2>6
  <2>8. /\ \A j \in tale'.answered : j \in tale.answered \/ j \in C
        /\ \A j \in C : j \in DOMAIN notes /\ ~notes[j].offers
    BY <1>1, <2>6
  <2> QED BY <1>1, <1>4, <2>1, <2>2, <2>3, <2>4, <2>5,
             <2>7, <2>8, AskStep DEF SameTale
<1> QED BY <1>2, <1>5, <1>6 DEF ReadReturns

LEMMA StartReadAllStep ==
  ASSUME InboxInv, StartReadAll
  PROVE  InboxInv'
<1>1. inbox' = inbox /\ UNCHANGED <<notes, pushes>> /\ Move
  BY DEF StartReadAll
<1>2. SameTale
  BY <1>1, Parts, MoveIs DEF SameTale
<1>3. PICK visible : visible = DOMAIN inbox.list
  OBVIOUS
<1>4. visible \in SUBSET NoteIds
  BY <1>3, Parts, InboxIs, PartialIs
<1>5. PICK all : all = [NoReadAll EXCEPT !.pc = "sent", !.visible = visible]
  OBVIOUS
<1>6. all \in ReadAllCalls /\ all.pc = "sent" /\ all.visible = visible
  BY <1>4, <1>5 DEF NoReadAll, ReadAllCalls
<1>7. calls' = [calls EXCEPT !.all = all]
  BY <1>3, <1>5 DEF StartReadAll
<1>8. /\ calls' \in Calls /\ calls'.first = calls.first /\ calls'.more = calls.more
      /\ calls'.count = calls.count /\ calls'.behind = calls.behind
      /\ calls'.wanted = calls.wanted /\ calls'.all = all /\ calls'.read = calls.read
      /\ calls'.answer = calls.answer
  BY <1>6, <1>7, Parts DEF Calls
<1>9. AllKept /\ RowsKept /\ (Answering' <=> Answering)
  BY <1>1, <1>3, <1>6, <1>8, SameAllRows, AnsweringSame DEF AllKept
<1> QED BY <1>1, <1>2, <1>8, <1>9, ServedSame, QuietStep

LEMMA ReadAllServedStep ==
  ASSUME InboxInv, ReadAllServed
  PROVE  InboxInv'
<1>1. inbox' = inbox /\ tale' = tale /\ ServeReadAll
  BY DEF ReadAllServed
<1>2. Served /\ DOMAIN notes' = DOMAIN notes /\ \A i \in DOMAIN notes' : notes'[i].read
  BY <1>1, Parts, ServeReadAllIs
<1>3. SameTale
  BY <1>1, Parts DEF SameTale
<1>4. PICK n : n = Unread(notes)
  OBVIOUS
<1>5. n \in Nat
  BY <1>4, Parts, NotesAre, UnreadIs
<1>6. calls.all \in ReadAllCalls
  BY Parts, CallsAre
<1>7. PICK all : all = [calls.all EXCEPT !.pc = "served", !.n = n]
  OBVIOUS
<1>8. all \in ReadAllCalls /\ all.visible = calls.all.visible
  BY <1>5, <1>6, <1>7 DEF ReadAllCalls
<1>9. calls' = [calls EXCEPT !.all = all]
  BY <1>4, <1>7, Parts DEF ReadAllServed, Calls
<1>10. /\ calls' \in Calls /\ calls'.first = calls.first /\ calls'.more = calls.more
       /\ calls'.count = calls.count /\ calls'.behind = calls.behind
       /\ calls'.wanted = calls.wanted /\ calls'.all = all /\ calls'.read = calls.read
       /\ calls'.answer = calls.answer
  BY <1>8, <1>9, Parts DEF Calls
<1>11. AllKept /\ RowsKept /\ (Answering' <=> Answering)
  <2>1. AllRead(calls.all.visible)'
    BY <1>2, <1>8, <1>10, Parts DEF Heard, CallsTrue, AllRead
  <2> QED BY <1>10, <2>1, SameAllRows, AnsweringSame DEF AllKept
<1> QED BY <1>1, <1>2, <1>3, <1>10, <1>11, QuietStep

LEMMA ReadAllReturnsStep ==
  ASSUME InboxInv, ReadAllReturns
  PROVE  InboxInv'
<1>1. UNCHANGED <<notes, pushes>> /\ tale' = tale
  BY DEF ReadAllReturns
<1>2. SameTale
  BY <1>1, Parts DEF SameTale
<1>3. PICK none : none = NoReadAll
  OBVIOUS
<1>4. none \in ReadAllCalls /\ none.pc = "none" /\ none.visible = {}
  BY <1>3 DEF NoReadAll, ReadAllCalls
<1>5. PICK c : c = [calls EXCEPT !.all = none]
  OBVIOUS
<1>6. /\ c \in Calls /\ c.first = calls.first /\ c.more = calls.more /\ c.count = calls.count
      /\ c.behind = calls.behind /\ c.wanted = calls.wanted /\ c.all = none
      /\ c.read = calls.read /\ c.answer = calls.answer
  BY <1>4, <1>5, Parts DEF Calls
<1>7. CASE inbox' = inbox /\ calls' = c
  <2>1. AllKept /\ RowsKept /\ (Answering' <=> Answering)
    BY <1>4, <1>6, <1>7, SameAllRows, AnsweringSame DEF AllKept
  <2> QED BY <1>1, <1>2, <1>6, <1>7, <2>1, ServedSame, QuietStep
<1>8. CASE /\ calls.all.pc = "served"
           /\ inbox' = ConfirmReadAll(inbox, calls.all.visible, calls.all.n, calls.all.ambiguous)
           /\ calls' = LoadAll(c, inbox')
  <2>1. calls.all \in ReadAllCalls
    BY Parts, CallsAre
  <2>2. PICK S \in SUBSET NoteIds : S = calls.all.visible
    BY <2>1 DEF ReadAllCalls
  <2>3. PICK n \in Nat : n = calls.all.n
    BY <2>1 DEF ReadAllCalls
  <2>4. PICK a \in BOOLEAN : a = calls.all.ambiguous
    BY <2>1 DEF ReadAllCalls
  <2>5. Told(inbox, inbox', S, {}, {})
    BY <1>8, <2>2, <2>3, <2>4, Parts, ConfirmTold
  <2>6. AllAsked(calls', c, inbox')
    BY <1>6, <1>8, <2>5, LoadAllIs DEF Told
  <2>7. SameLoop(c)
    BY <1>6 DEF SameLoop
  <2>8. RowsKept /\ AllKept
    BY <1>4, <1>6, <2>6, SameAllRows DEF AllAsked, SameRows, AllKept
  <2>9. \A i \in S : Earned(i)
    BY <1>8, <2>2, Parts DEF Heard, CallsTrue, AllRead, Earned
  <2>10. PICK C : C = {}
    OBVIOUS
  <2>11. Told(inbox, inbox', S, {}, C)
    BY <2>5, <2>10
  <2>12. /\ \A j \in tale'.answered : j \in tale.answered \/ j \in C
        /\ \A j \in C : j \in DOMAIN notes /\ ~notes[j].offers
    BY <1>1, <2>10
  <2> QED BY <1>1, <1>2, <2>5, <2>6, <2>7, <2>8, <2>9,
             <2>11, <2>12, AskStep DEF SameTale
<1> QED BY <1>3, <1>5, <1>7, <1>8 DEF ReadAllReturns

LEMMA StartAnswerStep ==
  ASSUME InboxInv, NEW i \in NoteIds, StartAnswer(i)
  PROVE  InboxInv'
<1>1. inbox' = inbox /\ UNCHANGED <<notes, pushes>> /\ Move /\ calls.answer[i] = "none"
  BY DEF StartAnswer
<1>2. SameTale
  BY <1>1, Parts, MoveIs DEF SameTale
<1>3. OneAnswer(calls', calls, i, "sent")
  BY Parts, OneAnswerIs DEF StartAnswer
<1>4. i \in DOMAIN notes
  BY Parts DEF StartAnswer, Shown, InboxEarned
<1>5. RowsKept /\ AllKept
  BY <1>3, <1>4, SameAll DEF OneAnswer, RowsKept
<1>6. Answering' <=> Answering
  BY <1>1, <1>3 DEF OneAnswer, Answering
<1> QED BY <1>1, <1>2, <1>3, <1>5, <1>6, ServedSame, QuietStep DEF OneAnswer

LEMMA AnswerServedStep ==
  ASSUME InboxInv, NEW i \in NoteIds, AnswerServed(i)
  PROVE  InboxInv'
<1>1. /\ inbox' = inbox /\ tale' = tale /\ pushes' = pushes /\ calls.answer[i] = "sent"
      /\ notes' = [notes EXCEPT ![i].offers = FALSE]
  BY DEF AnswerServed
<1>2. i \in DOMAIN notes
  BY <1>1, Parts DEF Heard, CallsTrue, RowTrue
<1>3. Served /\ i \in DOMAIN notes' /\ ~notes'[i].offers
  BY <1>1, <1>2, Parts, OfferClosed
<1>4. SameTale
  BY <1>1, Parts DEF SameTale
<1>5. PICK x \in {"served", "refused"} : x = IF notes[i].offers THEN "served" ELSE "refused"
  OBVIOUS
<1>6. calls' = [calls EXCEPT !.answer[i] = x]
  BY <1>5 DEF AnswerServed
<1>7. OneAnswer(calls', calls, i, x)
  BY <1>6, Parts, OneAnswerIs
<1>8. RowsKept /\ AllKept
  BY <1>2, <1>3, <1>7, SameAll DEF OneAnswer, RowsKept
<1>9. Answering' <=> Answering
  BY <1>1, <1>7 DEF OneAnswer, Answering
<1> QED BY <1>1, <1>3, <1>4, <1>7, <1>8, <1>9, QuietStep DEF OneAnswer

LEMMA AnswerReturnsStep ==
  ASSUME InboxInv, NEW i \in NoteIds, AnswerReturns(i)
  PROVE  InboxInv'
<1>1. UNCHANGED <<notes, pushes>>
  BY DEF AnswerReturns
<1>2. /\ NotesTyped' /\ NotesGrow /\ pushes' \subseteq Pushes /\ PushesTrue'
      /\ pushes' = pushes /\ Unread(notes') = Unread(notes)
  BY <1>1, ServerSame
<1>3. PICK x : x = "none"
  OBVIOUS
<1>4. PICK c : c = [calls EXCEPT !.answer[i] = x]
  OBVIOUS
<1>5. OneAnswer(c, calls, i, "none")
  BY <1>3, <1>4, Parts, OneAnswerIs
<1>6. ASSUME calls.answer[i] \in {"served", "refused"} PROVE i \in DOMAIN notes /\ ~notes[i].offers
  BY <1>6, Parts DEF Heard, CallsTrue, RowTrue
<1>7. PICK C : C = {i}
  OBVIOUS
<1>8. ASSUME tale' = [tale EXCEPT !.answered = @ \cup {i}]
      PROVE  /\ tale' \in Tales /\ tale'.swept = tale.swept /\ tale'.enveloped = tale.enveloped
             /\ \A j \in tale'.answered : j \in tale.answered \/ j \in C
  BY <1>7, <1>8, Parts DEF Tales
<1>9. ASSUME inbox' = CloseInvitation(inbox, i)
      PROVE  Told(inbox, inbox', {}, {}, C) /\ inbox' \in Inboxes
  BY <1>7, <1>9, Parts, CloseTold DEF Told
<1>10. CASE /\ calls.answer[i] = "served"
            /\ inbox' = CloseInvitation(inbox, i)
            /\ calls' = [calls EXCEPT !.answer[i] = "reading"]
            /\ tale' = [tale EXCEPT !.answered = @ \cup {i}]
  <2>1. OneAnswer(calls', calls, i, "reading")
    BY <1>10, Parts, OneAnswerIs
  <2>2. i \in DOMAIN notes /\ ~notes[i].offers
    BY <1>6, <1>10
  <2>3. Types'
    BY <1>2, <1>8, <1>9, <1>10, <2>1 DEF Types, OneAnswer
  <2>4. CallsKept
    <3>1. PagesKept /\ CountKept /\ LoopKept
      BY <2>1, Parts, LoopSame DEF OneAnswer
    <3>2. AllKept /\ RowsKept
      BY <2>1, <2>2, SameAll DEF OneAnswer, RowsKept
    <3> QED BY <3>1, <3>2 DEF CallsKept
  <2>5. \A j \in C : j \in DOMAIN notes' /\ ~notes'[j].offers
    BY <1>1, <1>7, <2>2
  <2>6. Moved({}, {}, C)
    BY <1>2, <1>8, <1>9, <1>10, <2>4, <2>5 DEF Moved, CallsKept, PagesKept
  <2>7. Counted'
    <3>1. Answering'
      BY <2>1 DEF OneAnswer, Answering
    <3> QED BY <3>1, CountedBusy
  <2> QED BY <1>2, <2>3, <2>4, <2>6, <2>7, InboxStep
<1>11. CASE /\ calls.answer[i] = "refused"
            /\ inbox' = CloseInvitation(inbox, i)
            /\ calls' = LoadAll(c, inbox')
            /\ tale' = [tale EXCEPT !.answered = @ \cup {i}]
  <2>1. PICK S : S = {}
    OBVIOUS
  <2>2. Told(inbox, inbox', S, {}, C) /\ inbox' \in Inboxes
    BY <1>9, <1>11, <2>1
  <2>3. AllAsked(calls', c, inbox')
    BY <1>5, <1>11, <2>2, LoadAllIs DEF OneAnswer
  <2>4. SameLoop(c)
    BY <1>5 DEF OneAnswer, SameLoop
  <2>5. RowsKept /\ AllKept
    BY <1>5, <2>3 DEF OneAnswer, AllAsked, SameRows, RowsKept, AllKept
  <2>6. \A j \in C : j \in DOMAIN notes /\ ~notes[j].offers
    BY <1>6, <1>7, <1>11
  <2>7. \A j \in S : Earned(j)
    BY <2>1
  <2> QED BY <1>1, <1>8, <1>11, <2>2, <2>3, <2>4, <2>5, <2>6, <2>7, AskStep
<1>12. CASE /\ calls.answer[i] \in {"sent", "served", "refused"}
            /\ calls' = c
            /\ UNCHANGED <<inbox, tale>>
  <2>1. RowsKept /\ AllKept
    BY <1>5, <1>12, SameAll DEF OneAnswer, RowsKept
  <2>2. Answering' <=> Answering
    BY <1>5, <1>12 DEF OneAnswer, Answering
  <2>3. SameTale
    BY <1>12, Parts DEF SameTale
  <2> QED BY <1>1, <1>5, <1>12, <2>1, <2>2, <2>3, ServedSame, QuietStep DEF OneAnswer
<1> QED BY <1>3, <1>4, <1>10, <1>11, <1>12 DEF AnswerReturns

LEMMA AnsweredReadServedStep ==
  ASSUME InboxInv, NEW i \in NoteIds, AnsweredReadServed(i)
  PROVE  InboxInv'
<1>1. inbox' = inbox /\ tale' = tale /\ calls.answer[i] = "reading" /\ ServeRead(i)
  BY DEF AnsweredReadServed
<1>2. i \in DOMAIN notes
  BY <1>1, Parts DEF Heard, CallsTrue, RowTrue
<1>3. Served /\ i \in DOMAIN notes' /\ notes'[i].read
  BY <1>1, <1>2, Parts, ServeReadIs
<1>4. SameTale
  BY <1>1, Parts DEF SameTale
<1>5. OneAnswer(calls', calls, i, "read")
  BY Parts, OneAnswerIs DEF AnsweredReadServed
<1>6. RowsKept /\ AllKept
  BY <1>2, <1>3, <1>5, SameAll DEF OneAnswer, RowsKept
<1>7. Answering'
  BY <1>5 DEF OneAnswer, Answering
<1> QED BY <1>1, <1>3, <1>4, <1>5, <1>6, <1>7, QuietStep DEF OneAnswer

LEMMA AnsweredReadReturnsStep ==
  ASSUME InboxInv, NEW i \in NoteIds, AnsweredReadReturns(i)
  PROVE  InboxInv'
<1>1. UNCHANGED <<notes, pushes>> /\ tale' = tale
  BY DEF AnsweredReadReturns
<1>2. PICK c : c = [calls EXCEPT !.answer[i] = "none"]
  OBVIOUS
<1>3. OneAnswer(c, calls, i, "none")
  BY <1>2, Parts, OneAnswerIs
<1>4. PICK C : C = {}
  OBVIOUS
<1>5. \E S : Told(inbox, inbox', S, {}, C) /\ \A j \in S : Earned(j)
  <2>1. CASE inbox' = inbox
    <3>1. PICK S : S = {}
      OBVIOUS
    <3>2. Told(inbox, inbox', S, {}, C)
      BY <1>4, <2>1, <3>1, Parts, ToldNothing
    <3> QED BY <3>1, <3>2
  <2>2. CASE /\ calls.answer[i] = "read"
             /\ inbox' = ApplyEvent(inbox, PushOf("read", {i}, FALSE))
    <3>1. PICK S : Told(inbox, inbox', S, {}, {}) /\ \A j \in S : j = i
      BY <2>2, Parts, SaidTold
    <3>2. \A j \in S : Earned(j)
      BY <2>2, <3>1, Parts DEF Heard, CallsTrue, RowTrue, Earned
    <3> QED BY <1>4, <3>1, <3>2
  <2> QED BY <2>1, <2>2 DEF AnsweredReadReturns
<1>6. PICK S : Told(inbox, inbox', S, {}, C) /\ \A j \in S : Earned(j)
  BY <1>5
<1>7. calls' = LoadAll(c, inbox')
  BY <1>2 DEF AnsweredReadReturns
<1>8. AllAsked(calls', c, inbox')
  BY <1>3, <1>6, <1>7, LoadAllIs DEF OneAnswer, Told
<1>9. SameLoop(c)
  BY <1>3 DEF OneAnswer, SameLoop
<1>10. RowsKept /\ AllKept
  BY <1>3, <1>8 DEF OneAnswer, AllAsked, SameRows, RowsKept, AllKept
<1>11. SameTale /\ \A j \in C : j \in DOMAIN notes /\ ~notes[j].offers
  BY <1>1, <1>4, Parts DEF SameTale
<1>12. \A j \in tale'.answered : j \in tale.answered \/ j \in C
  BY <1>1
<1> QED BY <1>1, <1>6, <1>8, <1>9, <1>10, <1>11, <1>12, AskStep DEF SameTale

-----------------------------------------------------------------------------
(* The invariant.                                                          *)

LEMMA InboxInvInit ==
  InboxInit => InboxInv
<1> SUFFICES ASSUME InboxInit PROVE InboxInv
  OBVIOUS
<1>1. NotesTyped
  <2>1. \A i \in 1..Before : FreshNote(i) \in Row
    BY DEF FreshNote, Row
  <2> QED BY <2>1, InboxBounds DEF InboxInit, NotesTyped
<1>2. /\ inbox.list = Empty /\ inbox.badge = Unknown /\ inbox.version = 0
      /\ inbox.created = Empty /\ inbox.readBy = Empty /\ inbox.overrides = Empty
      /\ inbox.cursor = 0 /\ inbox \in Inboxes
  <2>1. /\ Empty \in Partial(Row) /\ Empty \in Partial(Notices) /\ Empty \in Partial(Nat)
        /\ Empty \in Partial(Covers)
    BY EmptyPartial
  <2> QED BY <2>1 DEF InboxInit, Inboxes
<1>3. DOMAIN Empty = {}
  BY DEF Empty
<1>4. /\ tale \in Tales /\ ~tale.missed /\ tale.answered = {} /\ tale.enveloped = {}
  BY DEF InboxInit, Tales
<1>5. PICK none : none = NoPage
  OBVIOUS
<1>6. PICK all : all = NoReadAll
  OBVIOUS
<1>7. PICK count : count = NoCount
  OBVIOUS
<1>8. PICK c : c = [first |-> none, more |-> none, count |-> count, behind |-> FALSE,
                    wanted |-> FALSE, asked |-> FALSE, all |-> all,
                    read |-> [i \in NoteIds |-> "none"], answer |-> [i \in NoteIds |-> "none"]]
  OBVIOUS
<1>9. none \in PageCalls /\ none.pc = "none" /\ none.ver = 0 /\ none.page = NoPage.page
  BY <1>5, NoPageIs
<1>10. all \in ReadAllCalls /\ all.pc = "none" /\ all.visible = {}
  BY <1>6 DEF NoReadAll, ReadAllCalls
<1>11. count \in CountCalls /\ ~count.loop
  BY <1>7, NoCountIs
<1>12. /\ c \in Calls /\ c.first = none /\ c.more = none /\ c.count = count /\ ~c.behind
       /\ ~c.wanted /\ c.all = all /\ \A i \in NoteIds : c.read[i] = "none" /\ c.answer[i] = "none"
  BY <1>8, <1>9, <1>10, <1>11 DEF Calls
<1>13. CountAsked(calls, c, inbox, FALSE)
  <2>1. calls = Reconcile(c, inbox, FALSE)
    BY <1>5, <1>6, <1>7, <1>8 DEF InboxInit
  <2> QED BY <1>2, <1>12, <2>1, ReconcileIs
<1>14. /\ calls \in Calls /\ calls.first = none /\ calls.more = none /\ calls.all = all
       /\ calls.count.pc = "sent" /\ calls.count.ver = inbox.version /\ ~calls.wanted
       /\ calls.count.known = {} /\ ~calls.count.loop /\ ~calls.behind
       /\ \A i \in NoteIds : calls.read[i] = "none" /\ calls.answer[i] = "none"
  BY <1>2, <1>3, <1>11, <1>12, <1>13 DEF CountAsked, SameRows
<1>15. Types
  BY <1>1, <1>2, <1>4, <1>14 DEF InboxInit, Types
<1>16. OneLoop /\ PushesTrue
  BY <1>9, <1>14 DEF OneLoop, PageComes, PushesTrue, InboxInit
<1>17. CallsTrue
  <2>1. PageTrue(calls.first) /\ PageTrue(calls.more)
    BY <1>9, <1>14, NoRowsThere DEF PageTrue
  <2>2. \A i \in NoteIds : RowTrue(i)
    BY <1>14 DEF RowTrue
  <2> QED BY <1>10, <1>14, <2>1, <2>2 DEF CallsTrue
<1>18. Shown
  <2>1. Versions
    BY <1>2, <1>3, <1>9, <1>14 DEF Versions, Dated
  <2>2. InboxEarned
    BY <1>2, <1>3 DEF InboxEarned
  <2>3. FirstPageKeeps
    BY <1>9, <1>14 DEF FirstPageKeeps
  <2>4. AnswersClosed /\ AnswersHold
    BY <1>2, <1>3, <1>4 DEF AnswersClosed, AnswersHold
  <2> QED BY <2>1, <2>2, <2>3, <2>4 DEF Shown
<1>19. Counted
  BY <1>14 DEF Counted, CountIsCurrent, BadgeSettling, Busy
<1> QED BY <1>15, <1>16, <1>17, <1>18, <1>19 DEF InboxInv, Heard

LEMMA InboxInvNext ==
  InboxInv /\ [InboxNext]_inboxVars => InboxInv'
<1> SUFFICES ASSUME InboxInv, [InboxNext]_inboxVars PROVE InboxInv'
  OBVIOUS
<1>1. CASE UNCHANGED inboxVars
  BY <1>1 DEF inboxVars, InboxInv, Types, NotesTyped, Heard, OneLoop, PageComes, PushesTrue,
    PushTrue, AllRead, CallsTrue, PageTrue, RowTrue, Shown, Versions, Dated, InboxEarned, Earned,
    FirstPageKeeps, PageKeeps, Late, ReadAfter, AnswersClosed, PageClosed, ClosedAfter,
    AnswersHold, Counted, CountIsCurrent, BadgeSettling, Busy, Taken, Answering
<1>2. CASE Notify
  BY <1>2, NotifyStep
<1>3. CASE OtherDevice
  BY <1>3, OtherDeviceStep
<1>4. CASE Refresh
  BY <1>4, RefreshStep
<1>5. CASE LoadMore
  BY <1>5, LoadMoreStep
<1>6. CASE \E kind \in {"first", "more"} : ServePage(kind)
  BY <1>6, ServeFirstStep, ServeMoreStep
<1>7. CASE ServeCount
  BY <1>7, ServeCountStep
<1>8. CASE FirstPageReturns
  BY <1>8, FirstPageReturnsStep
<1>9. CASE MoreReturns
  BY <1>9, MoreReturnsStep
<1>10. CASE CountReturns
  BY <1>10, CountReturnsStep
<1>11. CASE SupersededCountReturns
  BY <1>11, SupersededCountReturnsStep
<1>12. CASE \E e \in pushes : Deliver(e) \/ Lose(e)
  BY <1>12, DeliverStep, LoseStep
<1>13. CASE StartReadAll
  BY <1>13, StartReadAllStep
<1>14. CASE ReadAllServed
  BY <1>14, ReadAllServedStep
<1>15. CASE ReadAllReturns
  BY <1>15, ReadAllReturnsStep
<1>16. ASSUME NEW i \in NoteIds,
              \/ StartRead(i) \/ ReadServed(i) \/ ReadReturns(i)
              \/ StartAnswer(i) \/ AnswerServed(i) \/ AnswerReturns(i)
              \/ AnsweredReadServed(i) \/ AnsweredReadReturns(i)
       PROVE  InboxInv'
  BY <1>16, StartReadStep, ReadServedStep, ReadReturnsStep, StartAnswerStep, AnswerServedStep,
     AnswerReturnsStep, AnsweredReadServedStep, AnsweredReadReturnsStep
<1> QED BY <1>1, <1>2, <1>3, <1>4, <1>5, <1>6, <1>7, <1>8, <1>9, <1>10, <1>11, <1>12, <1>13,
           <1>14, <1>15, <1>16 DEF InboxNext

LEMMA InboxInvAlways ==
  InboxSpec => []InboxInv
BY InboxInvInit, InboxInvNext, PTL DEF InboxSpec

\* At rest nothing more is to come: every count under way, every event and every
\* answer makes Busy or Taken true.
LEMMA InboxInvSound ==
  InboxInv => InboxSound
<1> SUFFICES ASSUME InboxInv PROVE InboxSound
  OBVIOUS
<1>1. ReadIsEarned
  BY Parts DEF Shown, InboxEarned, Earned, ReadIsEarned
<1>2. AnswersHold
  BY Parts DEF Shown
<1>3. BadgeSettles
  <2>1. SUFFICES ASSUME AtRest PROVE inbox.badge \in {Unread(notes), Unknown}
    BY DEF BadgeSettles
  <2>2. calls.count.pc = "none" /\ ~calls.count.loop
    BY <2>1, NoCountIs DEF AtRest
  <2>3. ~calls.wanted
    BY <2>1, <2>2, Parts DEF AtRest, OneLoop
  <2>4. ~Busy /\ ~Taken
    BY <2>1, <2>2, <2>3 DEF AtRest, Busy, Answering, Taken
  <2> QED BY <2>4, Parts DEF Counted, BadgeSettling
<1> QED BY <1>1, <1>2, <1>3 DEF InboxSound

LEMMA InboxInvTyped ==
  InboxInv => InboxTypeOK
<1> SUFFICES ASSUME InboxInv PROVE InboxTypeOK
  OBVIOUS
<1>1. /\ inbox.list \in Partial(Row) /\ inbox.badge \in Nat \cup {Unknown}
      /\ inbox.version \in Nat /\ inbox.cursor \in 0..MaxNotes
  BY Parts, InboxIs
<1>2. \E S \in SUBSET NoteIds : inbox.list \in [S -> Row]
  BY <1>1 DEF Partial
<1>3. /\ calls.read \in [NoteIds -> {"none", "sent", "served"}]
      /\ calls.answer \in [NoteIds -> {"none", "sent", "served", "refused", "reading", "read"}]
  BY Parts, CallsAre
<1>4. /\ \A i \in DOMAIN inbox.readBy : inbox.readBy[i] <= inbox.version
      /\ \A i \in DOMAIN inbox.overrides : inbox.overrides[i].ver <= inbox.version
  BY Parts DEF Shown, Versions, Dated
<1>5. ~(calls.behind /\ calls.count.loop) /\ (calls.wanted => calls.behind \/ calls.count.loop)
  BY Parts DEF OneLoop
<1> QED BY <1>1, <1>2, <1>3, <1>4, <1>5, Parts DEF InboxTypeOK, NotesTyped, Pushes

\* What a row shows as read it shows after the step, if it stays and was not swept.
RowsStay ==
  \A i \in (DOMAIN inbox.list \cap DOMAIN inbox'.list) \ tale.swept :
    inbox.list[i].read => inbox'.list[i].read

LEMMA ToldStays ==
  ASSUME NEW S, NEW N, NEW C, Told(inbox, inbox', S, N, C)
  PROVE  RowsStay
BY DEF Told, ToldList, RowsStay

LEMMA RowsStayStep ==
  InboxInv /\ [InboxNext]_inboxVars => RowsStay
<1> SUFFICES ASSUME InboxInv, [InboxNext]_inboxVars PROVE RowsStay
  OBVIOUS
<1>1. CASE inbox' = inbox
  BY <1>1 DEF RowsStay
<1>2. CASE \E e \in pushes : Deliver(e)
  <2>1. PICK e \in pushes : Deliver(e)
    BY <1>2
  <2>2. e \in Pushes /\ PushTrue(e) /\ DOMAIN notes \subseteq NoteIds
    BY <2>1, Parts, NotesAre, PartialIs DEF PushesTrue
  <2>3. e.event \in {"created", "read"} => \E i \in NoteIds : e.ids = {i}
    BY <2>2 DEF PushTrue
  <2>4. Told(inbox, ApplyEvent(inbox, e), SaidRead(inbox, e), Brought(e), {})
    BY <2>2, <2>3, Parts, EventTold
  <2>5. inbox' = ApplyEvent(inbox, e)
    BY <2>1 DEF Deliver
  <2> QED BY <2>4, <2>5, ToldStays
<1>3. ASSUME NEW i \in NoteIds, inbox' = ApplyEvent(inbox, PushOf("read", {i}, FALSE))
      PROVE  RowsStay
  BY <1>3, Parts, SaidTold, ToldStays
<1>4. ASSUME NEW i \in NoteIds, inbox' = CloseInvitation(inbox, i)
      PROVE  RowsStay
  BY <1>4, Parts, CloseTold, ToldStays
<1>5. CASE inbox' = MergeUnreadCount(inbox, calls.count.n, calls.count.ver, calls.count.known)
  <2>1. calls.count \in CountCalls
    BY Parts, CallsAre
  <2>2. PICK n \in Nat : n = calls.count.n
    BY <2>1 DEF CountCalls
  <2>3. PICK known \in SUBSET NoteIds : known = calls.count.known
    BY <2>1 DEF CountCalls
  <2>4. Told(inbox, inbox', {}, {}, {}) \/ (n = 0 /\ Told(inbox, inbox', known, {}, {}))
    BY <1>5, <2>2, <2>3, Parts, CountTold
  <2> QED BY <2>4, ToldStays
<1>6. CASE inbox' = ConfirmReadAll(inbox, calls.all.visible, calls.all.n, calls.all.ambiguous)
  <2>1. calls.all \in ReadAllCalls
    BY Parts, CallsAre
  <2>2. PICK S \in SUBSET NoteIds : S = calls.all.visible
    BY <2>1 DEF ReadAllCalls
  <2>3. PICK n \in Nat : n = calls.all.n
    BY <2>1 DEF ReadAllCalls
  <2>4. PICK a \in BOOLEAN : a = calls.all.ambiguous
    BY <2>1 DEF ReadAllCalls
  <2>5. Told(inbox, inbox', S, {}, {})
    BY <1>6, <2>2, <2>3, <2>4, Parts, ConfirmTold
  <2> QED BY <2>5, ToldStays
<1>7. CASE /\ calls.first.pc = "served"
           /\ inbox' = MergeFirstPage(inbox, calls.first.page, calls.first.ver)
  <2>1. calls.first \in PageCalls
    BY Parts, CallsAre
  <2>2. PICK page \in Pages : page = calls.first.page
    BY <2>1 DEF PageCalls
  <2>3. PICK ver \in Nat : ver = calls.first.ver
    BY <2>1 DEF PageCalls
  <2>4. Merged(inbox', inbox, page, ver)
    BY <1>7, <2>2, <2>3, Parts, MergeIs
  <2>5. ASSUME NEW i \in (DOMAIN inbox.list \cap DOMAIN inbox'.list) \ tale.swept,
               inbox.list[i].read
        PROVE  inbox'.list[i].read
    <3>1. PageKeeps(i)
      BY <1>7, <2>5, Parts DEF Shown, FirstPageKeeps
    <3>2. Late(i) <=> Came(inbox, i, ver)
      BY <2>3 DEF Late, Came
    <3> QED BY <2>2, <2>3, <2>4, <2>5, <3>1, <3>2 DEF Merged, PageKeeps, ReadAfter
  <2> QED BY <2>5 DEF RowsStay
<1>8. CASE inbox' = AppendPage(inbox, calls.more.page, calls.more.ver)
  <2>1. calls.more \in PageCalls
    BY Parts, CallsAre
  <2>2. PICK page \in Pages : page = calls.more.page
    BY <2>1 DEF PageCalls
  <2>3. PICK ver \in Nat : ver = calls.more.ver
    BY <2>1 DEF PageCalls
  <2>4. Appended(inbox', inbox, page, ver)
    BY <1>8, <2>2, <2>3, Parts, AppendIs
  <2> QED BY <2>4 DEF Appended, RowsStay
<1>9. \/ inbox' = inbox
      \/ \E e \in pushes : Deliver(e)
      \/ \E i \in NoteIds : \/ inbox' = ApplyEvent(inbox, PushOf("read", {i}, FALSE))
                            \/ inbox' = CloseInvitation(inbox, i)
      \/ inbox' = MergeUnreadCount(inbox, calls.count.n, calls.count.ver, calls.count.known)
      \/ inbox' = ConfirmReadAll(inbox, calls.all.visible, calls.all.n, calls.all.ambiguous)
      \/ /\ calls.first.pc = "served"
         /\ inbox' = MergeFirstPage(inbox, calls.first.page, calls.first.ver)
      \/ inbox' = AppendPage(inbox, calls.more.page, calls.more.ver)
  <2>1. CASE UNCHANGED inboxVars
    BY <2>1 DEF inboxVars
  <2>2. CASE Notify \/ OtherDevice \/ Refresh \/ LoadMore \/ ServeCount
             \/ \E kind \in {"first", "more"} : ServePage(kind)
    BY <2>2 DEF Notify, OtherDevice, Refresh, LoadMore, ServeCount, ServePage
  <2>3. CASE FirstPageReturns \/ MoreReturns
    BY <2>3 DEF FirstPageReturns, MoreReturns
  <2>4. CASE CountReturns \/ SupersededCountReturns
    BY <2>4 DEF CountReturns, SupersededCountReturns
  <2>5. CASE \E e \in pushes : Deliver(e) \/ Lose(e)
    BY <2>5 DEF Lose
  <2>6. CASE StartReadAll \/ ReadAllServed \/ ReadAllReturns
    BY <2>6 DEF StartReadAll, ReadAllServed, ReadAllReturns
  <2>7. CASE \E i \in NoteIds : StartRead(i) \/ ReadServed(i) \/ ReadReturns(i)
    BY <2>7 DEF StartRead, ReadServed, ReadReturns
  <2>8. CASE \E i \in NoteIds : StartAnswer(i) \/ AnswerServed(i) \/ AnswerReturns(i)
    BY <2>8 DEF StartAnswer, AnswerServed, AnswerReturns
  <2>9. CASE \E i \in NoteIds : AnsweredReadServed(i) \/ AnsweredReadReturns(i)
    BY <2>9 DEF AnsweredReadServed, AnsweredReadReturns
  <2> QED BY <2>1, <2>2, <2>3, <2>4, <2>5, <2>6, <2>7, <2>8, <2>9 DEF InboxNext
<1> QED BY <1>1, <1>2, <1>3, <1>4, <1>5, <1>6, <1>7, <1>8, <1>9

\* The invariant of the reducer, its overlays and the requests under way
\* (notificationRealtimeReducer): what may still reach the list claims no read that
\* was not made, a first page under way leaves read what is shown as read, a page that
\* offers an answered invitation is older than its mark, and the badge is right unless
\* something is still to come.
THEOREM InboxInvariant == InboxSpec => []InboxInv
BY InboxInvAlways

\* What the phone shows as read is read on the server, an answered invitation is not
\* offered by any page however late, and the badge, when nothing more is to come, is
\* the number of unread notifications or is withheld (NotificationsProvider.tsx).
THEOREM InboxStaysSound == InboxSpec => []InboxSound
BY InboxInvAlways, InboxInvSound, PTL

\* The types of the table, the events, the reducer's state and the requests; no version
\* of an overlay is later than the reducer's.
THEOREM InboxTyped == InboxSpec => []InboxTypeOK
BY InboxInvAlways, InboxInvTyped, PTL

\* A row that is shown as read is shown so as long as it stays on the list, whatever
\* page comes late (mergeFirstPage), unless a read_all event swept it too early.
THEOREM ReadsStay == InboxSpec => ReadStays
<1>1. InboxInv /\ [InboxNext]_inboxVars =>
        [\A i \in (DOMAIN inbox.list \cap DOMAIN inbox'.list) \ tale.swept :
           inbox.list[i].read => inbox'.list[i].read]_inboxVars
  BY RowsStayStep DEF RowsStay
<1> QED BY <1>1, InboxInvAlways, PTL DEF InboxSpec, ReadStays
=============================================================================
