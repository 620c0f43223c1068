------------------------ MODULE ChatTranscriptProofs ------------------------
(***************************************************************************)
(* The transcript of a room, for any number of messages and changes, any   *)
(* size of a page and any number of pages in a run: once a live feed has   *)
(* caught up it agrees with the server, what the user hid stays away, and  *)
(* no row goes back.                                                       *)
(*                                                                         *)
(* The inductive invariant says of every copy of a row (on the wire, in a  *)
(* page, deferred, shown) what it has in common with the server's; of an   *)
(* answered page what it holds of the room as it is now; and of the floor  *)
(* that every message up to it is known and every change up to it has been *)
(* taken.  Unless a catch-up is owed, every message is known, announced or *)
(* in the page that comes, and so is its last change.                      *)
(***************************************************************************)
EXTENDS ChatTranscript, FiniteSetTheorems, WellFoundedInduction, TLAPS

USE TranscriptBounds

-----------------------------------------------------------------------------
(* Types.                                                                  *)

AnyRow == [seq : Nat, body : Nat, reacts : Nat, deleted : BOOLEAN,
           sender : {"none", "user", "ai", "own"}]

Patches == [full : AnyRow, reacts : Nat]

Transcripts ==
  [rows : [Ids -> AnyRow], deferred : [Ids -> Patches], hidden : SUBSET Ids,
   pending : {"none", "sending", "failed"}, reacting : SUBSET Ids, deleting : SUBSET Ids,
   older : 0..MaxMessages]

Servers == [count : 0..MaxMessages, seq : Nat, hidden : SUBSET Ids, rows : [Ids -> AnyRow]]

Events == [kind : {"message", "deleted", "reaction"}, id : Ids, row : AnyRow]

ReadKinds == {"initial", "older", "run"}

Reads == [state : {"none", "asked", "answered"}, page : SUBSET (Ids \X AnyRow), more : BOOLEAN]

Callings == [state : {"none", "asked", "answered"},
             kind : {"none", "send", "resend", "react", "delete", "hide"},
             id : 0..MaxMessages, row : AnyRow]

Bases == [latest : 0..MaxMessages, cursor : Nat]

Works ==
  [loaded : BOOLEAN, base : Bases, phase : {"none", "first", "gap", "update"},
   pages : 0..MaxPages, retry : BOOLEAN, reads : [ReadKinds -> Reads], call : Callings,
   sent : BOOLEAN, gone : SUBSET Ids]

Types ==
  /\ feed \in {"off", "live", "shut"} /\ wanted \in BOOLEAN /\ running \in BOOLEAN
  /\ srv \in Servers /\ wire \subseteq Events /\ t \in Transcripts /\ h \in Works

-----------------------------------------------------------------------------
(* Copies.                                                                 *)

\* r is the server's row x as it is or as it was.
CopyOf(r, x) ==
  /\ r.seq > 0 /\ r.seq <= x.seq /\ r.sender = x.sender /\ (r.deleted => x.deleted)
  /\ r.seq = x.seq => r.reacts = x.reacts /\ r.deleted = x.deleted

\* c is a change of the reactions of x, or none.
MarkOf(c, x) == c <= x.seq /\ (c = x.seq /\ c > 0 => x.reacts = c /\ ~x.deleted)

PatchOf(d, x) == (d.full # NoRow => CopyOf(d.full, x)) /\ MarkOf(d.reacts, x)

\* A page has one row of a message.
OneRowEach(page) == \A p, q \in page : p[1] = q[1] => p = q

PageOf(page, rows) == OneRowEach(page) /\ \A p \in page : CopyOf(p[2], rows[p[1]])

EventOf(e, rows) ==
  /\ CopyOf(e.row, rows[e.id])
  /\ e.kind = "reaction" => MarkOf(e.row.reacts, rows[e.id]) /\ e.row.reacts = e.row.seq

TranscriptOf(s, rows) ==
  \A i \in Ids : /\ Known(s.rows, i) => CopyOf(s.rows[i], rows[i])
                 /\ PatchOf(s.deferred[i], rows[i])

ServerSound ==
  /\ \A i \in Ids : /\ i \in Posted <=> srv.rows[i].seq > 0
                    /\ srv.rows[i].seq <= srv.seq
  /\ \A i, j \in OwnPosted : i = j

CallSound ==
  /\ h.call.kind = "none" => h.call = NoCall
  /\ h.call.kind \in {"react", "delete", "hide"} => h.call.id \in Posted
  /\ h.call.state = "answered" =>
       /\ h.call.kind \in Sends =>
            OwnPosted # {} /\ \A j \in OwnPosted : CopyOf(h.call.row, srv.rows[j])
       /\ h.call.kind \in {"react", "delete"} => CopyOf(h.call.row, srv.rows[h.call.id])
       /\ h.call.kind = "react" => MarkOf(h.call.row.reacts, srv.rows[h.call.id])
       /\ h.call.kind = "delete" => h.call.row.deleted
       /\ h.call.kind = "hide" => h.call.id \in srv.hidden

Copies ==
  /\ ServerSound /\ CallSound
  /\ TranscriptOf(t, srv.rows)
  /\ \A e \in wire : EventOf(e, srv.rows)
  /\ \A k \in ReadKinds : PageOf(h.reads[k].page, srv.rows)

-----------------------------------------------------------------------------
(* The screen.                                                             *)

\* What was hidden is off the screen.
HiddenAway(s) == \A i \in s.hidden : s.rows[i] = NoRow

\* While the user's message is pending it is not shown as a row.
PendingAlone(s) == s.pending # "none" => \A i \in Ids : Known(s.rows, i) => s.rows[i].sender # "own"

Screen ==
  /\ HiddenAway(t) /\ t.hidden \subseteq srv.hidden /\ h.gone \subseteq t.hidden
  /\ PendingAlone(t)
  /\ feed # "shut" /\ ~h.sent => OwnPosted = {}
  /\ h.call.kind \in Sends => h.sent

-----------------------------------------------------------------------------
(* The hook.                                                               *)

ReadsInTurn ==
  /\ \A k \in ReadKinds : h.reads[k].state # "answered" => h.reads[k] \in {NoRead, Asked}
  /\ h.phase # "none" <=> h.reads["run"].state # "none"
  /\ h.loaded => h.reads["initial"].state = "none"
  /\ h.reads["older"].state # "none" => t.older # 0

Turns ==
  /\ ~h.loaded => h.phase = "none" /\ ~h.retry /\ h.base.latest = 0
  /\ h.phase # "none" => ~h.retry
  /\ h.phase = "first" => h.base.latest = 0
  /\ h.phase \in {"gap", "update"} => h.base.latest # 0
  /\ h.base.latest = 0 => h.base.cursor = 0 /\ t.older = 0
  /\ h.base.latest <= srv.count /\ h.base.cursor <= srv.seq /\ t.older <= srv.count
  /\ feed = "live" => running = (h.phase # "none") /\ (~h.loaded => wanted)

Hook == ReadsInTurn /\ Turns

-----------------------------------------------------------------------------
(* Answered pages, against the room as it is now.                          *)

InPage(r, i) == \E p \in r.page : p[1] = i
Brings(r, i) == \E p \in r.page : p[1] = i /\ p[2].seq = srv.rows[i].seq

\* A page from the end of the history: no gap, and nothing newer than its rows
\* is older than its latest change.
HistoryEnds(r) ==
  /\ r.more => r.page # {}
  /\ \A i \in Visible : Oldest(r) <= i =>
       /\ i <= Last(r.page) => InPage(r, i)
       /\ srv.rows[i].seq <= Cursor(r.page) => Brings(r, i)

Pages ==
  /\ h.reads["initial"].state = "answered" => HistoryEnds(h.reads["initial"])
  /\ h.reads["older"].state = "answered" =>
       /\ h.reads["older"].more => h.reads["older"].page # {}
       /\ \A i \in Visible : Oldest(h.reads["older"]) <= i /\ i < t.older => InPage(h.reads["older"], i)
  /\ h.reads["run"].state = "answered" =>
       /\ h.phase = "first" => HistoryEnds(h.reads["run"])
       /\ h.phase = "gap" => \A i \in Visible :
            h.base.latest < i /\ i <= Last(h.reads["run"].page) => InPage(h.reads["run"], i)
       /\ h.phase = "update" => \A i \in Visible :
            h.base.cursor < srv.rows[i].seq /\ srv.rows[i].seq <= Cursor(h.reads["run"].page) =>
              Brings(h.reads["run"], i)

-----------------------------------------------------------------------------
(* What the transcript has, and what is still to come.                     *)

\* The last change of i has been taken: it is shown, or kept until i is.
HasLast(s, i, seq) ==
  IF Known(s.rows, i) THEN s.rows[i].seq = seq
  ELSE s.deferred[i].full.seq = seq \/ s.deferred[i].reacts = seq

Has(i) == HasLast(t, i, srv.rows[i].seq)

\* Every message up to the floor is known, and every change up to it taken.
Floor ==
  /\ \A i \in Visible : t.older <= i /\ i <= h.base.latest => Known(t.rows, i)
  /\ \A i \in Visible : srv.rows[i].seq <= h.base.cursor =>
       /\ t.older <= i => Has(i)
       /\ InPage(h.reads["older"], i) => Has(i) \/ Brings(h.reads["older"], i)

Owed == feed # "live" \/ wanted \/ h.retry \/ ~h.loaded

AskedRun == h.reads["run"].state = "asked"

\* The messages that the run has still to read, or has in its page.
RunFinds(i) ==
  \/ h.phase = "first" /\ (AskedRun \/ InPage(h.reads["run"], i) \/ i < Oldest(h.reads["run"]))
  \/ h.phase = "gap" /\ (AskedRun \/ h.reads["run"].more \/ InPage(h.reads["run"], i))

\* The run has still to ask for changes.
RunAsks ==
  \/ h.phase = "first" /\ (AskedRun \/ h.reads["run"].page # {})
  \/ h.phase = "gap"
  \/ h.phase = "update" /\ (AskedRun \/ h.reads["run"].more)

Announced(i) == \E e \in wire : e.kind = "message" /\ e.id = i
OnWire(i) == \E e \in wire : e.id = i /\ e.row.seq = srv.rows[i].seq

Met(i) == Known(t.rows, i) \/ Announced(i) \/ RunFinds(i)

Coming(i) == Has(i) \/ OnWire(i) \/ RunAsks \/ Brings(h.reads["run"], i)

Promised ==
  ~Owed => \A i \in Visible :
    /\ t.older <= i => Met(i) /\ Coming(i)
    /\ InPage(h.reads["older"], i) => Coming(i) \/ Brings(h.reads["older"], i)

TranscriptInv == Types /\ Copies /\ Screen /\ Hook /\ Pages /\ Floor /\ Promised

-----------------------------------------------------------------------------
(* The rules for one row; x is the server's.                               *)

LEMMA NoRowIs ==
  /\ NoRow \in AnyRow /\ NoRow.seq = 0 /\ ~NoRow.deleted /\ NoRow.sender = "none"
  /\ NoPatch \in Patches /\ NoPatch.full = NoRow /\ NoPatch.reacts = 0
BY DEF NoRow, NoPatch, AnyRow, Patches

LEMMA CopyKnown ==
  ASSUME NEW r \in AnyRow, NEW x \in AnyRow, CopyOf(r, x)
  PROVE  r # NoRow
BY NoRowIs DEF CopyOf

LEMMA NoPatchOf ==
  ASSUME NEW x \in AnyRow
  PROVE  PatchOf(NoPatch, x)
BY NoRowIs DEF PatchOf, MarkOf, AnyRow

\* A row that carries the last change stands against no other copy.
LEMMA LastStands ==
  ASSUME NEW r \in AnyRow, NEW c \in AnyRow, NEW x \in AnyRow, CopyOf(r, x), CopyOf(c, x),
         r.seq = x.seq, ~ShouldReplace(c, r)
  PROVE  c.seq = x.seq
BY DEF ShouldReplace, CopyOf, AnyRow

LEMMA ReplaceRaises ==
  ASSUME NEW r \in AnyRow, NEW c \in AnyRow, ShouldReplace(c, r)
  PROVE  r.seq >= c.seq /\ (c.deleted => r.deleted)
BY DEF ShouldReplace, AnyRow

LEMMA WithReactionIs ==
  ASSUME NEW r \in AnyRow, NEW x \in AnyRow, NEW c \in Nat, CopyOf(r, x), MarkOf(c, x)
  PROVE  /\ WithReaction(r, c) \in AnyRow /\ CopyOf(WithReaction(r, c), x)
         /\ WithReaction(r, c).seq >= r.seq /\ WithReaction(r, c).sender = r.sender
         /\ WithReaction(r, c).deleted = r.deleted
         /\ c = x.seq => WithReaction(r, c).seq = x.seq
<1>1. CASE r.deleted \/ c <= r.seq
  BY <1>1 DEF WithReaction, CopyOf, MarkOf, AnyRow
<1>2. CASE ~(r.deleted \/ c <= r.seq)
  <2>1. PICK q : q = [r EXCEPT !.reacts = c, !.seq = c]
    OBVIOUS
  <2>2. /\ q \in AnyRow /\ q.seq = c /\ q.reacts = c /\ q.sender = r.sender
        /\ q.deleted = r.deleted
    BY <2>1 DEF AnyRow
  <2>3. WithReaction(r, c) = q
    BY <1>2, <2>1 DEF WithReaction
  <2>4. CopyOf(q, x) /\ q.seq >= r.seq
    BY <1>2, <2>2 DEF CopyOf, MarkOf, AnyRow
  <2> QED BY <2>2, <2>3, <2>4
<1> QED BY <1>1, <1>2

\* The patch carries the last change of x.
PatchHas(d, x) == d.full.seq = x.seq \/ d.reacts = x.seq

LEMMA MaterializeIs ==
  ASSUME NEW r \in AnyRow, NEW x \in AnyRow, NEW d \in Patches, CopyOf(r, x), PatchOf(d, x)
  PROVE  /\ Materialize(r, d) \in AnyRow /\ CopyOf(Materialize(r, d), x)
         /\ Materialize(r, d).seq >= r.seq
         /\ PatchHas(d, x) => Materialize(r, d).seq = x.seq
<1>1. d.full \in AnyRow /\ d.reacts \in Nat /\ MarkOf(d.reacts, x)
  BY DEF Patches, PatchOf
<1>2. PICK q \in AnyRow :
        /\ q = IF d.full # NoRow /\ ShouldReplace(r, d.full) THEN d.full ELSE r
        /\ CopyOf(q, x) /\ q.seq >= r.seq
        /\ d.full.seq = x.seq => q.seq = x.seq
  <2>1. CASE d.full # NoRow /\ ShouldReplace(r, d.full)
    BY <1>1, <2>1, ReplaceRaises DEF PatchOf
  <2>2. CASE ~(d.full # NoRow /\ ShouldReplace(r, d.full))
    <3>1. d.full.seq = x.seq => r.seq = x.seq
      <4>1. CASE d.full = NoRow
        BY <4>1, NoRowIs DEF CopyOf, AnyRow
      <4>2. CASE d.full # NoRow
        BY <1>1, <2>2, <4>2, LastStands DEF PatchOf
      <4> QED BY <4>1, <4>2
    <3> QED BY <2>2, <3>1 DEF AnyRow
  <2> QED BY <2>1, <2>2
<1>3. Materialize(r, d) = WithReaction(q, d.reacts)
  BY <1>2 DEF Materialize
<1>4. /\ WithReaction(q, d.reacts) \in AnyRow /\ CopyOf(WithReaction(q, d.reacts), x)
      /\ WithReaction(q, d.reacts).seq >= q.seq
      /\ d.reacts = x.seq => WithReaction(q, d.reacts).seq = x.seq
  BY <1>1, <1>2, WithReactionIs
<1>5. WithReaction(q, d.reacts).seq >= r.seq
  BY <1>2, <1>4 DEF AnyRow
<1>6. PatchHas(d, x) => WithReaction(q, d.reacts).seq = x.seq
  BY <1>2, <1>4 DEF PatchHas, CopyOf, AnyRow
<1> QED BY <1>3, <1>4, <1>5, <1>6

LEMMA RetainFullIs ==
  ASSUME NEW r \in AnyRow, NEW x \in AnyRow, NEW d \in Patches, CopyOf(r, x), PatchOf(d, x)
  PROVE  /\ RetainFull(d, r) \in Patches /\ PatchOf(RetainFull(d, r), x)
         /\ PatchHas(d, x) \/ r.seq = x.seq => PatchHas(RetainFull(d, r), x)
<1>1. d.full \in AnyRow /\ d.reacts \in Nat /\ MarkOf(d.reacts, x)
  BY DEF Patches, PatchOf
<1>2. CASE d.full # NoRow /\ ~ShouldReplace(d.full, r)
  <2>1. r.seq = x.seq => d.full.seq = x.seq
    BY <1>1, <1>2, LastStands DEF PatchOf
  <2> QED BY <1>2, <2>1 DEF RetainFull, PatchHas
<1>3. CASE ~(d.full # NoRow /\ ~ShouldReplace(d.full, r))
  <2>1. PICK e \in Patches : e = [full |-> r, reacts |-> IF r.deleted THEN 0 ELSE d.reacts]
    BY <1>1 DEF Patches
  <2>2. e.full = r /\ e.reacts = IF r.deleted THEN 0 ELSE d.reacts
    BY <2>1
  <2>3. RetainFull(d, r) = e
    BY <1>3, <2>1 DEF RetainFull
  <2>4. PatchOf(e, x)
    BY <1>1, <2>2 DEF PatchOf, MarkOf, AnyRow
  <2>5. d.full.seq = x.seq => r.seq = x.seq
    <3>1. CASE d.full = NoRow
      BY <3>1, NoRowIs DEF CopyOf, AnyRow
    <3>2. CASE d.full # NoRow
      BY <1>1, <1>3, <3>2, ReplaceRaises DEF CopyOf, AnyRow
    <3> QED BY <3>1, <3>2
  <2>6. d.reacts = x.seq => ~r.deleted
    BY <1>1 DEF MarkOf, CopyOf, AnyRow
  <2> QED BY <2>2, <2>3, <2>4, <2>5, <2>6 DEF PatchHas
<1> QED BY <1>2, <1>3

LEMMA RetainReactionIs ==
  ASSUME NEW c \in Nat, NEW x \in AnyRow, NEW d \in Patches, MarkOf(c, x), PatchOf(d, x), x.seq > 0
  PROVE  /\ RetainReaction(d, c) \in Patches /\ PatchOf(RetainReaction(d, c), x)
         /\ PatchHas(d, x) \/ c = x.seq => PatchHas(RetainReaction(d, c), x)
<1>1. d.full \in AnyRow /\ d.reacts \in Nat /\ MarkOf(d.reacts, x)
  BY DEF Patches, PatchOf
<1>2. d.full # NoRow => d.full.seq <= x.seq /\ (d.full.deleted => x.deleted)
  BY DEF PatchOf, CopyOf
<1>3. d.full = NoRow => d.full.seq = 0 /\ ~d.full.deleted
  BY NoRowIs
<1>4. CASE d.full.deleted \/ d.full.seq >= c \/ d.reacts >= c
  <2>1. RetainReaction(d, c) = d
    BY <1>4 DEF RetainReaction
  <2>2. c = x.seq => PatchHas(d, x)
    BY <1>1, <1>2, <1>3, <1>4 DEF PatchHas, MarkOf, AnyRow
  <2> QED BY <2>1, <2>2
<1>5. CASE ~(d.full.deleted \/ d.full.seq >= c \/ d.reacts >= c)
  <2>1. PICK e : e = [d EXCEPT !.reacts = c]
    OBVIOUS
  <2>2. e \in Patches /\ e.full = d.full /\ e.reacts = c
    BY <2>1 DEF Patches
  <2>3. RetainReaction(d, c) = e
    BY <1>5, <2>1 DEF RetainReaction
  <2>4. PatchOf(e, x)
    BY <2>2 DEF PatchOf
  <2>5. PatchHas(d, x) \/ c = x.seq => PatchHas(e, x)
    BY <1>1, <1>5, <2>2 DEF PatchHas, MarkOf, AnyRow
  <2> QED BY <2>2, <2>3, <2>4, <2>5
<1> QED BY <1>4, <1>5

-----------------------------------------------------------------------------
(* The merge of a page, row by row; rows are the server's.                 *)

\* What the reducer may make of a transcript without a hide: nothing is taken
\* back, and a patch that has the last change keeps it.
Grown(s, q, rows) ==
  \A i \in Ids :
    /\ Known(s.rows, i) => /\ Known(q.rows, i) /\ q.rows[i].seq >= s.rows[i].seq
                           /\ (s.rows[i].deleted => q.rows[i].deleted)
    /\ i \notin s.hidden /\ rows[i].seq > 0 /\ HasLast(s, i, rows[i].seq) => HasLast(q, i, rows[i].seq)

SameRoom(s, q) == q.hidden = s.hidden /\ q.older = s.older

\* All of this, where rows are copies and what is pending is not shown.
Advanced(s, q, rows) ==
  TranscriptOf(q, rows) /\ Grown(s, q, rows) /\ SameRoom(s, q) /\ HiddenAway(q) /\ PendingAlone(q)

\* A page has been taken: its rows are known, and no last change in it is lost.
Brought(s, q, page, upsert, rows) ==
  \A p \in page : p[1] \notin s.hidden =>
    /\ upsert => Known(q.rows, p[1])
    /\ p[2].seq = rows[p[1]].seq => HasLast(q, p[1], rows[p[1]].seq)

\* p is taken, or kept for later, from a page.
Taken(s, p, upsert) == Eligible(s, p[1], p[2], upsert)
Kept(s, p, upsert) == p[1] \notin s.hidden /\ ~Known(s.rows, p[1]) /\ ~upsert

MergedRow(s, p) == IF Known(s.rows, p[1]) THEN p[2] ELSE Materialize(p[2], s.deferred[p[1]])

\* Merge, told of each message.
Merged(s, q, page, upsert) ==
  /\ \A p \in page :
       /\ Taken(s, p, upsert) => q.rows[p[1]] = MergedRow(s, p) /\ q.deferred[p[1]] = NoPatch
       /\ Kept(s, p, upsert) => q.deferred[p[1]] = RetainFull(s.deferred[p[1]], p[2])
  /\ \A i \in Ids :
       /\ (\A p \in page : p[1] = i => ~Taken(s, p, upsert)) => q.rows[i] = s.rows[i]
       /\ (\A p \in page : p[1] = i => ~Taken(s, p, upsert) /\ ~Kept(s, p, upsert)) =>
            q.deferred[i] = s.deferred[i]
  /\ q.pending = (IF \E p \in page : Taken(s, p, upsert) /\ q.rows[p[1]].sender = "own"
                  THEN "none" ELSE s.pending)

LEMMA MergeIs ==
  ASSUME NEW s \in Transcripts, NEW page \in SUBSET (Ids \X AnyRow), NEW upsert \in BOOLEAN,
         NEW rows \in [Ids -> AnyRow], PageOf(page, rows), TranscriptOf(s, rows)
  PROVE  \E q \in Transcripts : q = Merge(s, page, upsert) /\ Merged(s, q, page, upsert) /\ SameRoom(s, q)
<1> DEFINE taken == {p \in page : Eligible(s, p[1], p[2], upsert)}
           kept == {p \in page : p[1] \notin s.hidden /\ ~Known(s.rows, p[1]) /\ ~upsert}
           Row(i) == LET p == CHOOSE p \in taken : p[1] = i IN
                     IF Known(s.rows, i) THEN p[2] ELSE Materialize(p[2], s.deferred[i])
           newRows == [i \in Ids |-> IF \E p \in taken : p[1] = i THEN Row(i) ELSE s.rows[i]]
           newDeferred == [i \in Ids |->
              IF \E p \in taken : p[1] = i THEN NoPatch
              ELSE IF \E p \in kept : p[1] = i
                   THEN RetainFull(s.deferred[i], (CHOOSE p \in kept : p[1] = i)[2])
                   ELSE s.deferred[i]]
           removed == {p[1] : p \in {q \in taken : newRows[q[1]].deleted}}
           pending == IF \E p \in taken : newRows[p[1]].sender = "own" THEN "none" ELSE s.pending
           q == [s EXCEPT !.rows = newRows, !.deferred = newDeferred,
                          !.reacting = @ \ removed, !.pending = pending]
<1>1. /\ s.rows \in [Ids -> AnyRow] /\ s.deferred \in [Ids -> Patches] /\ s.reacting \subseteq Ids
      /\ s.pending \in {"none", "sending", "failed"}
  BY DEF Transcripts
<1>2. \A p \in page : p[1] \in Ids /\ p[2] \in AnyRow /\ CopyOf(p[2], rows[p[1]])
  BY DEF PageOf
<1>3. \A p \in taken : (CHOOSE o \in taken : o[1] = p[1]) = p
  BY DEF PageOf, OneRowEach
<1>4. \A p \in kept : (CHOOSE o \in kept : o[1] = p[1]) = p
  BY DEF PageOf, OneRowEach
<1>5. \A p \in taken : Row(p[1]) = MergedRow(s, p) /\ MergedRow(s, p) \in AnyRow
  <2> SUFFICES ASSUME NEW p \in taken
               PROVE  Row(p[1]) = MergedRow(s, p) /\ MergedRow(s, p) \in AnyRow
    OBVIOUS
  <2>1. Row(p[1]) = MergedRow(s, p)
    <3>1. (CHOOSE o \in taken : o[1] = p[1]) = p
      BY <1>3
    <3> HIDE DEF taken
    <3> QED BY <3>1, Zenon DEF MergedRow
  <2>2. /\ p[1] \in Ids /\ p[2] \in AnyRow /\ CopyOf(p[2], rows[p[1]]) /\ rows[p[1]] \in AnyRow
        /\ s.deferred[p[1]] \in Patches /\ PatchOf(s.deferred[p[1]], rows[p[1]])
    BY <1>1, <1>2 DEF TranscriptOf
  <2>3. Materialize(p[2], s.deferred[p[1]]) \in AnyRow
    BY <2>2, MaterializeIs
  <2> QED BY <2>1, <2>2, <2>3 DEF MergedRow
<1>6. newRows \in [Ids -> AnyRow]
  <2>1. \A i \in Ids : (\E p \in taken : p[1] = i) => Row(i) \in AnyRow
    BY <1>5
  <2> HIDE DEF Row, taken
  <2> QED BY <1>1, <2>1
<1>7. \A p \in taken : newRows[p[1]] = MergedRow(s, p)
  <2> SUFFICES ASSUME NEW p \in taken PROVE newRows[p[1]] = MergedRow(s, p)
    OBVIOUS
  <2>1. p[1] \in Ids
    BY <1>2
  <2>2. newRows[p[1]] = Row(p[1])
    <3> HIDE DEF Row, taken
    <3> QED BY <2>1
  <2> QED BY <1>5, <2>2
<1>8. \A i \in Ids : (\A p \in taken : p[1] # i) => newRows[i] = s.rows[i]
  OBVIOUS
<1>9. newDeferred \in [Ids -> Patches]
  <2>1. ASSUME NEW p \in kept
        PROVE  RetainFull(s.deferred[p[1]], (CHOOSE o \in kept : o[1] = p[1])[2]) \in Patches
    <3>1. /\ p[1] \in Ids /\ p[2] \in AnyRow /\ CopyOf(p[2], rows[p[1]]) /\ rows[p[1]] \in AnyRow
          /\ s.deferred[p[1]] \in Patches /\ PatchOf(s.deferred[p[1]], rows[p[1]])
      BY <1>1, <1>2 DEF TranscriptOf
    <3>2. RetainFull(s.deferred[p[1]], p[2]) \in Patches
      BY <3>1, RetainFullIs
    <3> QED BY <1>4, <3>2
  <2> HIDE DEF taken, kept
  <2> QED BY <1>1, <2>1, NoRowIs
<1>10. \A p \in taken : newDeferred[p[1]] = NoPatch
  <2> SUFFICES ASSUME NEW p \in taken PROVE newDeferred[p[1]] = NoPatch
    OBVIOUS
  <2>1. p[1] \in Ids
    BY <1>2
  <2> QED BY <2>1
<1>11. \A p \in kept : newDeferred[p[1]] = RetainFull(s.deferred[p[1]], p[2])
  <2> SUFFICES ASSUME NEW p \in kept PROVE newDeferred[p[1]] = RetainFull(s.deferred[p[1]], p[2])
    OBVIOUS
  <2>1. p[1] \in Ids
    BY <1>2
  <2>2. \A o \in taken : o[1] # p[1]
    BY DEF Eligible
  <2>3. newDeferred[p[1]] = RetainFull(s.deferred[p[1]], (CHOOSE o \in kept : o[1] = p[1])[2])
    <3> HIDE DEF taken, kept
    <3> QED BY <2>1, <2>2
  <2> QED BY <1>4, <2>3
<1>12. \A i \in Ids : (\A p \in page : p[1] = i => p \notin taken /\ p \notin kept) =>
         newDeferred[i] = s.deferred[i]
  OBVIOUS
<1>13. q = Merge(s, page, upsert)
  BY DEF Merge
<1> HIDE DEF newRows, newDeferred
<1>14. pending \in {s.pending, "none"}
  OBVIOUS
<1> HIDE DEF pending, removed
<1>15. /\ q \in Transcripts /\ q.rows = newRows /\ q.deferred = newDeferred /\ q.pending = pending
       /\ q.hidden = s.hidden /\ q.older = s.older
  BY <1>1, <1>6, <1>9, <1>14 DEF Transcripts
<1>16. Merged(s, q, page, upsert)
  <2> HIDE DEF q
  <2>1. \A p \in page :
          /\ Taken(s, p, upsert) => q.rows[p[1]] = MergedRow(s, p) /\ q.deferred[p[1]] = NoPatch
          /\ Kept(s, p, upsert) => q.deferred[p[1]] = RetainFull(s.deferred[p[1]], p[2])
    BY <1>7, <1>10, <1>11, <1>15 DEF Taken, Kept
  <2>2. \A i \in Ids :
          /\ (\A p \in page : p[1] = i => ~Taken(s, p, upsert)) => q.rows[i] = s.rows[i]
          /\ (\A p \in page : p[1] = i => ~Taken(s, p, upsert) /\ ~Kept(s, p, upsert)) =>
               q.deferred[i] = s.deferred[i]
    BY <1>8, <1>12, <1>15 DEF Taken, Kept
  <2>3. q.pending = (IF \E p \in page : Taken(s, p, upsert) /\ q.rows[p[1]].sender = "own"
                     THEN "none" ELSE s.pending)
    BY <1>15 DEF Taken, pending
  <2> QED BY <2>1, <2>2, <2>3 DEF Merged
<1>17. SameRoom(s, q)
  BY <1>14, <1>15 DEF SameRoom
<1> QED BY <1>13, <1>15, <1>16, <1>17

LEMMA MergeCopies ==
  ASSUME NEW s \in Transcripts, NEW q \in Transcripts, NEW page \in SUBSET (Ids \X AnyRow),
         NEW upsert \in BOOLEAN, NEW rows \in [Ids -> AnyRow], PageOf(page, rows),
         TranscriptOf(s, rows), Merged(s, q, page, upsert), NEW i \in Ids
  PROVE  /\ Known(q.rows, i) => CopyOf(q.rows[i], rows[i])
         /\ PatchOf(q.deferred[i], rows[i])
         /\ Known(s.rows, i) => /\ Known(q.rows, i) /\ q.rows[i].seq >= s.rows[i].seq
                                /\ (s.rows[i].deleted => q.rows[i].deleted)
         /\ rows[i].seq > 0 /\ HasLast(s, i, rows[i].seq) => HasLast(q, i, rows[i].seq)
<1>1. /\ s.rows[i] \in AnyRow /\ q.rows[i] \in AnyRow /\ rows[i] \in AnyRow
      /\ s.deferred[i] \in Patches /\ q.deferred[i] \in Patches
      /\ Known(s.rows, i) => CopyOf(s.rows[i], rows[i])
      /\ PatchOf(s.deferred[i], rows[i])
  BY DEF Transcripts, TranscriptOf
<1>2. \A p \in page : p[1] = i => p[2] \in AnyRow /\ CopyOf(p[2], rows[i])
  BY DEF PageOf
<1>3. ASSUME NEW p \in page, p[1] = i, Taken(s, p, upsert)
      PROVE  /\ CopyOf(q.rows[i], rows[i]) /\ Known(q.rows, i) /\ q.deferred[i] = NoPatch
             /\ Known(s.rows, i) => /\ q.rows[i].seq >= s.rows[i].seq
                                    /\ (s.rows[i].deleted => q.rows[i].deleted)
             /\ HasLast(s, i, rows[i].seq) => q.rows[i].seq = rows[i].seq
  <2>1. q.rows[i] = MergedRow(s, p) /\ q.deferred[i] = NoPatch
    BY <1>3 DEF Merged
  <2>2. CASE Known(s.rows, i)
    <3>1. q.rows[i] = p[2] /\ ShouldReplace(s.rows[i], p[2])
      BY <1>3, <2>1, <2>2 DEF MergedRow, Taken, Eligible
    <3>2. p[2].seq >= s.rows[i].seq /\ (s.rows[i].deleted => p[2].deleted)
      BY <1>1, <1>2, <1>3, <3>1, ReplaceRaises
    <3>3. CopyOf(q.rows[i], rows[i])
      BY <1>2, <1>3, <3>1
    <3>4. Known(q.rows, i)
      BY <1>1, <3>3, CopyKnown DEF Known
    <3>5. HasLast(s, i, rows[i].seq) => q.rows[i].seq = rows[i].seq
      BY <1>1, <2>2, <3>1, <3>2, <3>3 DEF HasLast, CopyOf, AnyRow
    <3> QED BY <2>1, <3>1, <3>2, <3>3, <3>4, <3>5
  <2>3. CASE ~Known(s.rows, i)
    <3>1. q.rows[i] = Materialize(p[2], s.deferred[i])
      BY <1>3, <2>1, <2>3 DEF MergedRow
    <3>2. /\ CopyOf(q.rows[i], rows[i])
          /\ PatchHas(s.deferred[i], rows[i]) => q.rows[i].seq = rows[i].seq
      BY <1>1, <1>2, <1>3, <3>1, MaterializeIs
    <3>3. Known(q.rows, i)
      BY <1>1, <3>2, CopyKnown DEF Known
    <3> QED BY <2>1, <2>3, <3>2, <3>3 DEF HasLast, PatchHas
  <2> QED BY <2>2, <2>3
<1>4. ASSUME \A p \in page : p[1] = i => ~Taken(s, p, upsert)
      PROVE  /\ q.rows[i] = s.rows[i]
             /\ PatchOf(q.deferred[i], rows[i])
             /\ PatchHas(s.deferred[i], rows[i]) => \/ PatchHas(q.deferred[i], rows[i])
                                                    \/ Known(s.rows, i)
  <2>1. q.rows[i] = s.rows[i]
    BY <1>4 DEF Merged
  <2>2. CASE \E p \in page : p[1] = i /\ Kept(s, p, upsert)
    <3>1. PICK p \in page : p[1] = i /\ Kept(s, p, upsert)
      BY <2>2
    <3>2. q.deferred[i] = RetainFull(s.deferred[i], p[2])
      BY <3>1 DEF Merged
    <3>3. /\ PatchOf(q.deferred[i], rows[i])
          /\ PatchHas(s.deferred[i], rows[i]) => PatchHas(q.deferred[i], rows[i])
      BY <1>1, <1>2, <3>1, <3>2, RetainFullIs
    <3> QED BY <2>1, <3>3
  <2>3. CASE \A p \in page : p[1] = i => ~Kept(s, p, upsert)
    <3>1. q.deferred[i] = s.deferred[i]
      BY <1>4, <2>3 DEF Merged
    <3> QED BY <1>1, <2>1, <3>1
  <2> QED BY <2>2, <2>3
<1>5. CASE \E p \in page : p[1] = i /\ Taken(s, p, upsert)
  <2>1. /\ CopyOf(q.rows[i], rows[i]) /\ Known(q.rows, i) /\ q.deferred[i] = NoPatch
        /\ Known(s.rows, i) => /\ q.rows[i].seq >= s.rows[i].seq
                               /\ (s.rows[i].deleted => q.rows[i].deleted)
        /\ HasLast(s, i, rows[i].seq) => q.rows[i].seq = rows[i].seq
    BY <1>3, <1>5
  <2>2. PatchOf(q.deferred[i], rows[i])
    BY <1>1, <2>1, NoPatchOf
  <2>3. HasLast(s, i, rows[i].seq) => HasLast(q, i, rows[i].seq)
    BY <2>1 DEF HasLast
  <2> QED BY <2>1, <2>2, <2>3
<1>6. CASE \A p \in page : p[1] = i => ~Taken(s, p, upsert)
  <2>1. /\ q.rows[i] = s.rows[i]
        /\ PatchOf(q.deferred[i], rows[i])
        /\ PatchHas(s.deferred[i], rows[i]) => PatchHas(q.deferred[i], rows[i]) \/ Known(s.rows, i)
    BY <1>4, <1>6
  <2>2. Known(q.rows, i) <=> Known(s.rows, i)
    BY <2>1 DEF Known
  <2>3. HasLast(s, i, rows[i].seq) => HasLast(q, i, rows[i].seq)
    BY <2>1, <2>2 DEF HasLast, PatchHas
  <2> QED BY <1>1, <2>1, <2>2, <2>3 DEF AnyRow
<1> QED BY <1>5, <1>6

LEMMA MergeBrings ==
  ASSUME NEW s \in Transcripts, NEW q \in Transcripts, NEW page \in SUBSET (Ids \X AnyRow),
         NEW upsert \in BOOLEAN, NEW rows \in [Ids -> AnyRow], PageOf(page, rows),
         TranscriptOf(s, rows), Merged(s, q, page, upsert)
  PROVE  Brought(s, q, page, upsert, rows)
<1> SUFFICES ASSUME NEW p \in page, p[1] \notin s.hidden
             PROVE  /\ upsert => Known(q.rows, p[1])
                    /\ p[2].seq = rows[p[1]].seq => HasLast(q, p[1], rows[p[1]].seq)
  BY DEF Brought
<1>1. PICK i \in Ids : i = p[1]
  OBVIOUS
<1>2. /\ s.rows[i] \in AnyRow /\ q.rows[i] \in AnyRow /\ rows[i] \in AnyRow
      /\ s.deferred[i] \in Patches /\ q.deferred[i] \in Patches
      /\ Known(s.rows, i) => CopyOf(s.rows[i], rows[i])
      /\ PatchOf(s.deferred[i], rows[i])
      /\ p[2] \in AnyRow /\ CopyOf(p[2], rows[i])
  BY <1>1 DEF Transcripts, TranscriptOf, PageOf
<1>3. /\ Known(q.rows, i) => CopyOf(q.rows[i], rows[i])
      /\ Known(s.rows, i) => Known(q.rows, i) /\ q.rows[i].seq >= s.rows[i].seq
  BY MergeCopies
<1>4. CASE Taken(s, p, upsert)
  <2>1. q.rows[i] = MergedRow(s, p)
    BY <1>1, <1>4 DEF Merged
  <2>2. CASE Known(s.rows, i)
    BY <1>1, <1>2, <1>3, <2>1, <2>2 DEF MergedRow, HasLast
  <2>3. CASE ~Known(s.rows, i)
    <3>1. q.rows[i] = Materialize(p[2], s.deferred[i])
      BY <1>1, <2>1, <2>3 DEF MergedRow
    <3>2. CopyOf(q.rows[i], rows[i]) /\ q.rows[i].seq >= p[2].seq
      BY <1>2, <3>1, MaterializeIs
    <3>3. Known(q.rows, i)
      BY <1>2, <3>2, CopyKnown DEF Known
    <3>4. p[2].seq = rows[i].seq => q.rows[i].seq = rows[i].seq
      BY <1>2, <3>2 DEF CopyOf, AnyRow
    <3> QED BY <1>1, <3>3, <3>4 DEF HasLast
  <2> QED BY <2>2, <2>3
<1>5. CASE ~Taken(s, p, upsert) /\ Known(s.rows, i)
  <2>1. ~ShouldReplace(s.rows[i], p[2])
    BY <1>1, <1>5 DEF Taken, Eligible
  <2>2. p[2].seq = rows[i].seq => s.rows[i].seq = rows[i].seq
    BY <1>2, <1>5, <2>1, LastStands
  <2>3. p[2].seq = rows[i].seq => q.rows[i].seq = rows[i].seq
    BY <1>2, <1>3, <1>5, <2>2 DEF CopyOf, AnyRow
  <2> QED BY <1>1, <1>3, <1>5, <2>3 DEF HasLast
<1>6. CASE ~Taken(s, p, upsert) /\ ~Known(s.rows, i)
  <2>1. ~upsert /\ Kept(s, p, upsert)
    BY <1>1, <1>6 DEF Taken, Eligible, Kept
  <2>2. q.deferred[i] = RetainFull(s.deferred[i], p[2])
    BY <1>1, <2>1 DEF Merged
  <2>3. p[2].seq = rows[i].seq => PatchHas(q.deferred[i], rows[i])
    BY <1>2, <2>2, RetainFullIs
  <2>4. \A o \in page : o[1] = i => ~Taken(s, o, upsert)
    BY <1>6, <2>1 DEF Taken, Eligible
  <2>5. q.rows[i] = s.rows[i]
    BY <2>4 DEF Merged
  <2> QED BY <1>1, <1>6, <2>1, <2>3, <2>5 DEF HasLast, PatchHas, Known
<1> QED BY <1>4, <1>5, <1>6

\* mergeMessages, of a page of the server's rows.
LEMMA MergeAdvances ==
  ASSUME NEW s \in Transcripts, NEW page \in SUBSET (Ids \X AnyRow), NEW upsert \in BOOLEAN,
         NEW rows \in [Ids -> AnyRow], PageOf(page, rows), TranscriptOf(s, rows),
         HiddenAway(s), PendingAlone(s)
  PROVE  \E q \in Transcripts : /\ q = Merge(s, page, upsert)
                                /\ Advanced(s, q, rows) /\ Brought(s, q, page, upsert, rows)
<1>1. PICK q \in Transcripts : /\ q = Merge(s, page, upsert)
                               /\ Merged(s, q, page, upsert) /\ SameRoom(s, q)
  BY MergeIs
<1>2. Brought(s, q, page, upsert, rows)
  BY <1>1, MergeBrings
<1>3. \A i \in Ids :
         /\ Known(q.rows, i) => CopyOf(q.rows[i], rows[i])
         /\ PatchOf(q.deferred[i], rows[i])
         /\ Known(s.rows, i) => /\ Known(q.rows, i) /\ q.rows[i].seq >= s.rows[i].seq
                                /\ (s.rows[i].deleted => q.rows[i].deleted)
         /\ rows[i].seq > 0 /\ HasLast(s, i, rows[i].seq) => HasLast(q, i, rows[i].seq)
  BY <1>1, MergeCopies
<1>4. TranscriptOf(q, rows) /\ Grown(s, q, rows)
  BY <1>3 DEF TranscriptOf, Grown
<1>5. HiddenAway(q)
  <2>1. ASSUME NEW i \in q.hidden PROVE q.rows[i] = NoRow
    <3>1. i \in Ids /\ i \in s.hidden
      BY <1>1 DEF SameRoom, Transcripts
    <3>2. \A p \in page : p[1] = i => ~Taken(s, p, upsert)
      BY <3>1 DEF Taken, Eligible
    <3> QED BY <1>1, <3>1, <3>2 DEF Merged, HiddenAway
  <2> QED BY <2>1 DEF HiddenAway
<1>6. PendingAlone(q)
  <2>1. ASSUME q.pending # "none", NEW i \in Ids, Known(q.rows, i) PROVE q.rows[i].sender # "own"
    <3>1. s.pending # "none" /\ \A p \in page : Taken(s, p, upsert) => q.rows[p[1]].sender # "own"
      BY <1>1, <2>1 DEF Merged
    <3>2. (\A p \in page : p[1] = i => ~Taken(s, p, upsert)) => q.rows[i] = s.rows[i]
      BY <1>1 DEF Merged
    <3> QED BY <2>1, <3>1, <3>2 DEF PendingAlone, Known
  <2> QED BY <2>1 DEF PendingAlone
<1> QED BY <1>1, <1>2, <1>4, <1>5, <1>6 DEF Advanced

-----------------------------------------------------------------------------
(* The other actions of the reducer.                                       *)

\* Nothing of the rows changes.
LEMMA SameRowsAdvance ==
  ASSUME NEW s \in Transcripts, NEW q \in Transcripts, NEW rows \in [Ids -> AnyRow],
         TranscriptOf(s, rows), HiddenAway(s), PendingAlone(s),
         q.rows = s.rows, q.deferred = s.deferred, q.hidden = s.hidden, q.older = s.older,
         q.pending # "none" => s.pending # "none"
  PROVE  Advanced(s, q, rows)
<1>1. TranscriptOf(q, rows) /\ HiddenAway(q) /\ SameRoom(s, q)
  BY DEF TranscriptOf, HiddenAway, SameRoom
<1>2. Grown(s, q, rows)
  <2>1. \A i \in Ids : s.rows[i] \in AnyRow
    BY DEF Transcripts
  <2> QED BY <2>1 DEF Grown, HasLast, AnyRow
<1>3. PendingAlone(q)
  BY DEF PendingAlone
<1> QED BY <1>1, <1>2, <1>3 DEF Advanced

\* One row that is shown is replaced by a later copy.
LEMMA OneRowAdvances ==
  ASSUME NEW s \in Transcripts, NEW q \in Transcripts, NEW rows \in [Ids -> AnyRow],
         TranscriptOf(s, rows), HiddenAway(s), PendingAlone(s), NEW i \in Ids, Known(s.rows, i),
         NEW r \in AnyRow, CopyOf(r, rows[i]), r.seq >= s.rows[i].seq,
         s.rows[i].deleted => r.deleted,
         q.rows = [s.rows EXCEPT ![i] = r], q.deferred = s.deferred, q.hidden = s.hidden,
         q.older = s.older, q.pending = s.pending
  PROVE  Advanced(s, q, rows)
<1>1. /\ \A j \in Ids : s.rows[j] \in AnyRow /\ q.rows[j] \in AnyRow /\ rows[j] \in AnyRow
      /\ q.rows[i] = r /\ \A j \in Ids : j # i => q.rows[j] = s.rows[j]
  BY DEF Transcripts
<1>2. Known(q.rows, i) /\ i \notin s.hidden /\ CopyOf(s.rows[i], rows[i])
  BY <1>1, CopyKnown DEF Known, HiddenAway, TranscriptOf
<1>3. TranscriptOf(q, rows)
  BY <1>1 DEF TranscriptOf, Known
<1>4. Grown(s, q, rows)
  <2> SUFFICES ASSUME NEW j \in Ids
               PROVE  /\ Known(s.rows, j) => /\ Known(q.rows, j) /\ q.rows[j].seq >= s.rows[j].seq
                                             /\ (s.rows[j].deleted => q.rows[j].deleted)
                      /\ HasLast(s, j, rows[j].seq) => HasLast(q, j, rows[j].seq)
    BY DEF Grown
  <2>1. CASE j = i
    <3>1. r.seq <= rows[i].seq /\ r.seq >= s.rows[i].seq
      BY DEF CopyOf
    <3>2. r.seq \in Nat /\ s.rows[i].seq \in Nat /\ rows[i].seq \in Nat
      BY <1>1 DEF AnyRow
    <3>3. s.rows[i].seq = rows[i].seq => r.seq = rows[i].seq
      BY <3>1, <3>2
    <3> QED BY <1>1, <1>2, <2>1, <3>1, <3>3 DEF HasLast
  <2>2. CASE j # i
    BY <1>1, <2>2 DEF HasLast, Known, AnyRow
  <2> QED BY <2>1, <2>2
<1>5. HiddenAway(q)
  <2>1. s.hidden \subseteq Ids
    BY DEF Transcripts
  <2> QED BY <1>1, <1>2, <2>1 DEF HiddenAway
<1>6. PendingAlone(q)
  <2>1. r.sender = s.rows[i].sender
    BY <1>2 DEF CopyOf
  <2>2. \A j \in Ids : Known(q.rows, j) => Known(s.rows, j) /\ q.rows[j].sender = s.rows[j].sender
    BY <1>1, <2>1 DEF Known
  <2> QED BY <2>2 DEF PendingAlone
<1> QED BY <1>3, <1>4, <1>5, <1>6 DEF Advanced, SameRoom

LEMMA ReactionAdvances ==
  ASSUME NEW s \in Transcripts, NEW rows \in [Ids -> AnyRow], TranscriptOf(s, rows),
         HiddenAway(s), PendingAlone(s), NEW i \in Ids, NEW c \in Nat, MarkOf(c, rows[i]),
         rows[i].seq > 0
  PROVE  \E q \in Transcripts :
           /\ q = ReactionPatch(s, i, c) /\ Advanced(s, q, rows)
           /\ i \notin s.hidden /\ c = rows[i].seq => HasLast(q, i, rows[i].seq)
<1>1. /\ s.rows \in [Ids -> AnyRow] /\ s.deferred \in [Ids -> Patches] /\ rows[i] \in AnyRow
      /\ s.rows[i] \in AnyRow /\ s.deferred[i] \in Patches
      /\ Known(s.rows, i) => CopyOf(s.rows[i], rows[i])
      /\ PatchOf(s.deferred[i], rows[i])
  BY DEF Transcripts, TranscriptOf
<1>2. CASE i \in s.hidden
  BY <1>2, SameRowsAdvance DEF ReactionPatch
<1>3. CASE i \notin s.hidden /\ Known(s.rows, i)
  <2>1. PICK r \in AnyRow :
          /\ r = WithReaction(s.rows[i], c) /\ CopyOf(r, rows[i]) /\ r.seq >= s.rows[i].seq
          /\ r.deleted = s.rows[i].deleted /\ (c = rows[i].seq => r.seq = rows[i].seq)
    BY <1>1, <1>3, WithReactionIs
  <2>2. PICK q : q = [s EXCEPT !.rows[i] = r]
    OBVIOUS
  <2>3. /\ q \in Transcripts /\ q.rows = [s.rows EXCEPT ![i] = r] /\ q.deferred = s.deferred
        /\ q.hidden = s.hidden /\ q.older = s.older /\ q.pending = s.pending
    BY <1>1, <2>2 DEF Transcripts
  <2>4. q = ReactionPatch(s, i, c)
    BY <1>3, <2>1, <2>2 DEF ReactionPatch
  <2>5. Advanced(s, q, rows)
    BY <1>3, <2>1, <2>3, OneRowAdvances
  <2>6. c = rows[i].seq => HasLast(q, i, rows[i].seq)
    <3>1. q.rows[i] = r
      BY <1>1, <2>3
    <3>2. Known(q.rows, i)
      BY <1>1, <2>1, <3>1, CopyKnown DEF Known
    <3> QED BY <2>1, <3>1, <3>2 DEF HasLast
  <2> QED BY <2>3, <2>4, <2>5, <2>6
<1>4. CASE i \notin s.hidden /\ ~Known(s.rows, i)
  <2>1. PICK d \in Patches :
          /\ d = RetainReaction(s.deferred[i], c) /\ PatchOf(d, rows[i])
          /\ PatchHas(s.deferred[i], rows[i]) \/ c = rows[i].seq => PatchHas(d, rows[i])
    BY <1>1, RetainReactionIs
  <2>2. PICK q : q = [s EXCEPT !.deferred[i] = d]
    OBVIOUS
  <2>3. /\ q \in Transcripts /\ q.deferred = [s.deferred EXCEPT ![i] = d] /\ q.rows = s.rows
        /\ q.hidden = s.hidden /\ q.older = s.older /\ q.pending = s.pending
    BY <1>1, <2>2 DEF Transcripts
  <2>4. q = ReactionPatch(s, i, c)
    BY <1>4, <2>1, <2>2 DEF ReactionPatch
  <2>5. q.deferred[i] = d /\ \A j \in Ids : j # i => q.deferred[j] = s.deferred[j]
    BY <1>1, <2>3
  <2>6. TranscriptOf(q, rows)
    BY <2>1, <2>3, <2>5 DEF TranscriptOf
  <2>7. Grown(s, q, rows)
    <3>1. \A j \in Ids : s.rows[j] \in AnyRow
      BY DEF Transcripts
    <3>2. \A j \in Ids : HasLast(s, j, rows[j].seq) => HasLast(q, j, rows[j].seq)
      BY <1>4, <2>1, <2>3, <2>5 DEF HasLast, PatchHas, Known
    <3> QED BY <2>3, <3>1, <3>2 DEF Grown, AnyRow
  <2>8. HiddenAway(q) /\ PendingAlone(q) /\ SameRoom(s, q)
    BY <2>3 DEF HiddenAway, PendingAlone, SameRoom
  <2>9. c = rows[i].seq => HasLast(q, i, rows[i].seq)
    BY <1>4, <2>1, <2>3, <2>5 DEF HasLast, PatchHas, Known
  <2> QED BY <2>3, <2>4, <2>6, <2>7, <2>8, <2>9 DEF Advanced
<1> QED BY <1>2, <1>3, <1>4

LEMMA SettlingAdvances ==
  ASSUME NEW s \in Transcripts, NEW rows \in [Ids -> AnyRow], TranscriptOf(s, rows),
         HiddenAway(s), PendingAlone(s), NEW i \in Ids, NEW c \in Nat, MarkOf(c, rows[i])
  PROVE  \E q \in Transcripts : q = ReactionSettles(s, i, c) /\ Advanced(s, q, rows)
<1>1. /\ s.rows \in [Ids -> AnyRow] /\ s.reacting \subseteq Ids /\ rows[i] \in AnyRow
      /\ s.rows[i] \in AnyRow /\ (Known(s.rows, i) => CopyOf(s.rows[i], rows[i]))
  BY DEF Transcripts, TranscriptOf
<1>2. CASE i \notin s.reacting \/ ~Known(s.rows, i)
  BY <1>2, SameRowsAdvance DEF ReactionSettles
<1>3. CASE ~(i \notin s.reacting \/ ~Known(s.rows, i))
  <2>1. PICK r \in AnyRow :
          /\ r = WithReaction(s.rows[i], c) /\ CopyOf(r, rows[i]) /\ r.seq >= s.rows[i].seq
          /\ r.deleted = s.rows[i].deleted
    BY <1>1, <1>3, WithReactionIs
  <2>2. PICK q : q = [s EXCEPT !.rows[i] = r, !.reacting = @ \ {i}]
    OBVIOUS
  <2>3. /\ q \in Transcripts /\ q.rows = [s.rows EXCEPT ![i] = r] /\ q.deferred = s.deferred
        /\ q.hidden = s.hidden /\ q.older = s.older /\ q.pending = s.pending
    BY <1>1, <2>2 DEF Transcripts
  <2>4. q = ReactionSettles(s, i, c)
    BY <1>3, <2>1, <2>2 DEF ReactionSettles
  <2>5. Advanced(s, q, rows)
    BY <1>3, <2>1, <2>3, OneRowAdvances
  <2> QED BY <2>3, <2>4, <2>5
<1> QED BY <1>2, <1>3

LEMMA DeletingAdvances ==
  ASSUME NEW s \in Transcripts, NEW rows \in [Ids -> AnyRow], TranscriptOf(s, rows),
         HiddenAway(s), PendingAlone(s), NEW i \in Ids, NEW row \in AnyRow,
         CopyOf(row, rows[i]), row.deleted
  PROVE  \E q \in Transcripts : q = Deleted(s, i, row) /\ Advanced(s, q, rows)
<1>1. /\ s.rows \in [Ids -> AnyRow] /\ s.reacting \subseteq Ids /\ s.deleting \subseteq Ids
      /\ s.rows[i] \in AnyRow /\ (Known(s.rows, i) => CopyOf(s.rows[i], rows[i]))
  BY DEF Transcripts, TranscriptOf
<1>2. CASE i \in s.hidden \/ ~Known(s.rows, i) \/ i \notin s.deleting
  <2>1. PICK q : q = [s EXCEPT !.deleting = @ \ {i}]
    OBVIOUS
  <2>2. /\ q \in Transcripts /\ q.rows = s.rows /\ q.deferred = s.deferred
        /\ q.hidden = s.hidden /\ q.older = s.older /\ q.pending = s.pending
    BY <1>1, <2>1 DEF Transcripts
  <2>3. q = Deleted(s, i, row)
    BY <1>2, <2>1 DEF Deleted
  <2> QED BY <2>2, <2>3, SameRowsAdvance
<1>3. CASE ~(i \in s.hidden \/ ~Known(s.rows, i) \/ i \notin s.deleting)
  <2>1. PICK r \in AnyRow : r = IF row.seq > s.rows[i].seq THEN row ELSE s.rows[i]
    BY <1>1
  <2>2. CopyOf(r, rows[i]) /\ r.seq >= s.rows[i].seq /\ (s.rows[i].deleted => r.deleted)
    BY <1>1, <1>3, <2>1 DEF AnyRow
  <2>3. PICK q : q = [s EXCEPT !.rows[i] = r, !.reacting = @ \ {i}, !.deleting = @ \ {i}]
    OBVIOUS
  <2>4. /\ q \in Transcripts /\ q.rows = [s.rows EXCEPT ![i] = r] /\ q.deferred = s.deferred
        /\ q.hidden = s.hidden /\ q.older = s.older /\ q.pending = s.pending
    BY <1>1, <2>3 DEF Transcripts
  <2>5. q = Deleted(s, i, row)
    BY <1>3, <2>1, <2>3 DEF Deleted
  <2>6. Advanced(s, q, rows)
    BY <1>3, <2>2, <2>4, OneRowAdvances
  <2> QED BY <2>4, <2>5, <2>6
<1> QED BY <1>2, <1>3

-----------------------------------------------------------------------------
(* Least and greatest numbers, and what a page spans.                      *)

LEMMA LeastExists ==
  ASSUME NEW S \in SUBSET Nat, S # {}
  PROVE  \E i \in S : \A j \in S : i <= j
<1>1. PICK Below : Below = {pair \in Nat \X Nat : pair[1] < pair[2]}
  OBVIOUS
<1>2. IsWellFoundedOn(Below, Nat)
  BY <1>1, NatLessThanWellFounded DEF OpToRel
<1>3. PICK i \in S : \A j \in S : ~(<<j, i>> \in Below)
  BY <1>2, WFMin
<1>4. \A j \in S : ~(j < i)
  <2>1. \A j \in Nat : j < i => <<j, i>> \in Below
    BY <1>1
  <2> QED BY <1>3, <2>1
<1> QED BY <1>4

LEMMA GreatestExists ==
  ASSUME NEW S \in SUBSET Nat, S # {}, NEW n \in Nat, \A i \in S : i <= n
  PROVE  \E i \in S : \A j \in S : i >= j
<1>1. PICK T : T = {n - i : i \in S}
  OBVIOUS
<1>2. T \in SUBSET Nat /\ T # {}
  <2>1. \A i \in S : i \in Nat /\ i <= n
    OBVIOUS
  <2>2. \A i \in S : n - i \in Nat
    BY <2>1
  <2> QED BY <1>1, <2>2
<1>3. PICK k \in T : \A l \in T : k <= l
  BY <1>2, LeastExists
<1>4. PICK i \in S : k = n - i
  BY <1>1
<1>5. \A j \in S : n - i <= n - j
  BY <1>1, <1>3, <1>4
<1> QED BY <1>4, <1>5

LEMMA MinIs ==
  ASSUME NEW S \in SUBSET Nat, S # {}
  PROVE  Min(S) \in S /\ \A j \in S : Min(S) <= j
<1>1. \E i \in S : \A j \in S : i <= j
  BY LeastExists
<1> QED BY <1>1, Zenon DEF Min

LEMMA MaxIs ==
  ASSUME NEW S \in SUBSET Nat, S # {}, NEW n \in Nat, \A i \in S : i <= n
  PROVE  Max(S) \in S /\ \A j \in S : Max(S) >= j
<1>1. \E i \in S : \A j \in S : i >= j
  BY GreatestExists
<1> QED BY <1>1, Zenon DEF Max

AnyPage == SUBSET (Ids \X AnyRow)

LEMMA LastIs ==
  ASSUME NEW page \in AnyPage
  PROVE  /\ Last(page) \in 0..MaxMessages /\ \A p \in page : p[1] <= Last(page)
         /\ page = {} => Last(page) = 0
         /\ page # {} => \E p \in page : p[1] = Last(page)
<1>1. PICK S : S = {p[1] : p \in page} \cup {0}
  OBVIOUS
<1>2. /\ S \in SUBSET Nat /\ S # {} /\ \A i \in S : i <= MaxMessages
      /\ 0 \in S /\ (\A p \in page : p[1] \in S) /\ (\A i \in S : i # 0 => \E p \in page : p[1] = i)
  BY <1>1 DEF AnyPage, Ids
<1>3. PICK l \in S : l = Last(page) /\ \A j \in S : l >= j
  <2>1. Max(S) \in S /\ \A j \in S : Max(S) >= j
    BY <1>2, MaxIs
  <2> QED BY <1>1, <2>1 DEF Last
<1>4. l \in 0..MaxMessages /\ \A p \in page : p[1] <= l
  <2>1. l \in Nat /\ l <= MaxMessages
    BY <1>2
  <2>2. \A p \in page : l >= p[1] /\ p[1] \in Nat
    BY <1>2, <1>3
  <2> QED BY <2>1, <2>2
<1>5. page = {} => l = 0
  BY <1>2
<1>6. ASSUME page # {} PROVE \E p \in page : p[1] = l
  <2>1. PICK p \in page : TRUE
    BY <1>6
  <2>2. p[1] > 0 /\ p[1] \in S /\ p[1] \in Nat /\ l \in Nat
    BY <1>2 DEF AnyPage, Ids
  <2>3. l >= p[1]
    BY <1>3, <2>2
  <2>4. l # 0
    BY <2>2, <2>3
  <2> QED BY <1>2, <2>4
<1> QED BY <1>3, <1>4, <1>5, <1>6

LEMMA CursorIs ==
  ASSUME NEW page \in AnyPage, NEW n \in Nat, \A p \in page : p[2].seq > 0 /\ p[2].seq <= n
  PROVE  /\ Cursor(page) \in 0..n /\ \A p \in page : p[2].seq <= Cursor(page)
         /\ page = {} => Cursor(page) = 0
         /\ page # {} => Cursor(page) > 0 /\ \E p \in page : p[2].seq = Cursor(page)
<1>1. PICK S : S = {p[2].seq : p \in page} \cup {0}
  OBVIOUS
<1>2. \A p \in page : p[2].seq \in Nat
  BY DEF AnyPage, AnyRow
<1>3. /\ S \in SUBSET Nat /\ S # {} /\ \A i \in S : i <= n
      /\ 0 \in S /\ (\A p \in page : p[2].seq \in S)
      /\ (\A i \in S : i # 0 => \E p \in page : p[2].seq = i)
  BY <1>1, <1>2
<1>4. PICK l \in S : l = Cursor(page) /\ \A j \in S : l >= j
  <2>1. Max(S) \in S /\ \A j \in S : Max(S) >= j
    BY <1>3, MaxIs
  <2> QED BY <1>1, <2>1 DEF Cursor
<1>5. l \in 0..n /\ \A p \in page : p[2].seq <= l
  BY <1>2, <1>3, <1>4
<1>6. page = {} => l = 0
  BY <1>3
<1>7. ASSUME page # {} PROVE l > 0 /\ \E p \in page : p[2].seq = l
  <2>1. PICK p \in page : TRUE
    BY <1>7
  <2>2. p[2].seq > 0 /\ p[2].seq \in S
    BY <1>3
  <2>3. l > 0
    BY <1>2, <1>3, <1>4, <2>2
  <2> QED BY <1>3, <2>3
<1> QED BY <1>4, <1>5, <1>6, <1>7

LEMMA OldestIs ==
  ASSUME NEW r \in Reads, r.more => r.page # {}
  PROVE  /\ Oldest(r) \in 0..MaxMessages
         /\ ~r.more => Oldest(r) = 0
         /\ r.more => Oldest(r) > 0 /\ \E p \in r.page : p[1] = Oldest(r)
<1>1. CASE ~r.more
  BY <1>1 DEF Oldest
<1>2. CASE r.more
  <2>1. PICK S : S = {p[1] : p \in r.page}
    OBVIOUS
  <2>2. /\ S \in SUBSET Nat /\ S # {} /\ \A i \in S : i \in 1..MaxMessages
        /\ \A i \in S : \E p \in r.page : p[1] = i
    BY <1>2, <2>1 DEF Reads, Ids
  <2>3. Min(S) \in S
    BY <2>2, MinIs
  <2>4. Oldest(r) = Min(S)
    BY <1>2, <2>1 DEF Oldest
  <2>5. PICK m \in S : m = Oldest(r)
    BY <2>3, <2>4
  <2> QED BY <1>2, <2>2, <2>5
<1> QED BY <1>1, <1>2

\* A page is served from the lowest ranks of what was asked for.
LEMMA AnswerIs ==
  ASSUME srv \in Servers, NEW S \in SUBSET Ids, NEW rank,
         \A i \in S : rank[i] \in Int /\ rank[i] + MaxMessages >= 0
  PROVE  \E r \in Reads :
           /\ r = AnswerPage(S, rank) /\ r.state = "answered" /\ OneRowEach(r.page)
           /\ \A p \in r.page : p[1] \in S /\ p[2] = srv.rows[p[1]]
           /\ S # {} => r.page # {}
           /\ r.more => r.page # {}
           /\ r.more \/ \A i \in S : <<i, srv.rows[i]>> \in r.page
           /\ \A p \in r.page, j \in S : rank[j] <= rank[p[1]] => <<j, srv.rows[j]>> \in r.page
<1> DEFINE lower(i) == {j \in S : rank[j] < rank[i]}
           page == {i \in S : Cardinality(lower(i)) < PageSize}
           r == Answer(page, S \ page)
<1>1. \A i \in Ids : IsFiniteSet(lower(i)) /\ Cardinality(lower(i)) \in Nat
  <2> SUFFICES ASSUME NEW i \in Ids PROVE IsFiniteSet(lower(i)) /\ Cardinality(lower(i)) \in Nat
    OBVIOUS
  <2>1. IsFiniteSet(1..MaxMessages)
    <3>1. 1 \in Int /\ MaxMessages \in Int
      OBVIOUS
    <3> QED BY <3>1, FS_Interval
  <2>2. lower(i) \in SUBSET (1..MaxMessages)
    BY DEF Ids
  <2>3. IsFiniteSet(lower(i))
    BY <2>1, <2>2, FS_Subset
  <2> QED BY <2>3, FS_CardinalityType
<1>2. \A i \in page, j \in S : rank[j] <= rank[i] => j \in page
  <2> SUFFICES ASSUME NEW i \in page, NEW j \in S, rank[j] <= rank[i] PROVE j \in page
    OBVIOUS
  <2>1. lower(j) \in SUBSET lower(i)
    OBVIOUS
  <2>2. IsFiniteSet(lower(i)) /\ Cardinality(lower(i)) \in Nat /\ Cardinality(lower(j)) \in Nat
    BY <1>1
  <2>3. Cardinality(lower(j)) <= Cardinality(lower(i))
    BY <2>1, <2>2, FS_Subset
  <2>4. Cardinality(lower(i)) < PageSize
    OBVIOUS
  <2> HIDE DEF lower
  <2> QED BY <2>2, <2>3, <2>4
<1>3. S # {} => page # {}
  <2> SUFFICES ASSUME S # {} PROVE page # {}
    OBVIOUS
  <2>1. PICK T : T = {rank[i] + MaxMessages : i \in S}
    OBVIOUS
  <2>2. T \in SUBSET Nat /\ T # {}
    BY <2>1
  <2>3. PICK k \in T : \A l \in T : k <= l
    BY <2>2, LeastExists
  <2>4. PICK i \in S : k = rank[i] + MaxMessages
    BY <2>1
  <2>5. \A j \in S : ~(rank[j] < rank[i])
    BY <2>1, <2>3, <2>4
  <2>6. lower(i) = {}
    BY <2>5
  <2>7. Cardinality(lower(i)) = 0
    BY <2>6, FS_EmptySet
  <2> HIDE DEF lower
  <2> QED BY <2>7
<1>4. page \in SUBSET S
  OBVIOUS
<1>5. r = AnswerPage(S, rank)
  BY DEF AnswerPage
<1> HIDE DEF page
<1>6. \A i \in S : srv.rows[i] \in AnyRow
  BY DEF Servers
<1>7. PICK Q : Q = Rows(page)
  OBVIOUS
<1>8. /\ \A p \in Q : p[1] \in page /\ p = <<p[1], srv.rows[p[1]]>> /\ p[2] = srv.rows[p[1]]
      /\ \A i \in page : <<i, srv.rows[i]>> \in Q
  BY <1>7 DEF Rows
<1>9. Q \in SUBSET (Ids \X AnyRow)
  <2>1. ASSUME NEW p \in Q PROVE p \in Ids \X AnyRow
    BY <1>4, <1>6, <1>8
  <2> QED BY <2>1
<1>10. PICK more \in BOOLEAN : more = (S \ page # {})
  OBVIOUS
<1>11. r = [state |-> "answered", page |-> Q, more |-> more]
  BY <1>7, <1>10 DEF Answer
<1>12. r \in Reads /\ r.state = "answered" /\ r.page = Q /\ r.more = more
  <2> HIDE DEF r
  <2> QED BY <1>9, <1>11 DEF Reads
<1> HIDE DEF r
<1>13. OneRowEach(r.page)
  BY <1>8, <1>12 DEF OneRowEach
<1>14. \A p \in r.page : p[1] \in S /\ p[2] = srv.rows[p[1]]
  BY <1>4, <1>8, <1>12
<1>15. S # {} => r.page # {}
  BY <1>3, <1>8, <1>12
<1>16. r.more => r.page # {}
  BY <1>10, <1>12, <1>15
<1>17. r.more \/ \A i \in S : <<i, srv.rows[i]>> \in r.page
  BY <1>8, <1>10, <1>12
<1>18. \A p \in r.page, j \in S : rank[j] <= rank[p[1]] => <<j, srv.rows[j]>> \in r.page
  BY <1>2, <1>8, <1>12
<1> QED BY <1>5, <1>12, <1>13, <1>14, <1>15, <1>16, <1>17, <1>18

-----------------------------------------------------------------------------
(* The hook's own operators.                                               *)

\* What a run leaves alone.
SameButRun(g, q) ==
  /\ q.loaded = g.loaded /\ q.call = g.call /\ q.sent = g.sent /\ q.gone = g.gone
  /\ q.reads["initial"] = g.reads["initial"] /\ q.reads["older"] = g.reads["older"]

LEMMA ReadIs ==
  /\ NoRead \in Reads /\ NoRead.state = "none" /\ NoRead.page = {} /\ ~NoRead.more
  /\ Asked \in Reads /\ Asked.state = "asked" /\ Asked.page = {} /\ ~Asked.more
<1>1. /\ NoRead \in Reads /\ NoRead.state = "none" /\ NoRead.page = {} /\ ~NoRead.more
  BY DEF NoRead, Reads
<1>2. PICK r : r = [NoRead EXCEPT !.state = "asked"]
  OBVIOUS
<1>3. r \in Reads /\ r.state = "asked" /\ r.page = {} /\ ~r.more
  BY <1>2 DEF NoRead, Reads
<1> QED BY <1>1, <1>2, <1>3 DEF Asked

LEMMA StartRunIs ==
  ASSUME NEW g \in Works
  PROVE  \E q \in Works :
           /\ q = StartRun(g) /\ SameButRun(g, q) /\ q.base = g.base /\ ~q.retry
           /\ q.phase = (IF g.base.latest = 0 THEN "first" ELSE "gap")
           /\ q.reads["run"] = Asked
<1>1. PICK p \in {"first", "gap"} : p = IF g.base.latest = 0 THEN "first" ELSE "gap"
  OBVIOUS
<1>2. PICK q : q = [g EXCEPT !.phase = p, !.pages = MaxPages, !.reads["run"] = Asked, !.retry = FALSE]
  OBVIOUS
<1>3. g.reads \in [ReadKinds -> Reads] /\ "run" \in ReadKinds /\ "initial" \in ReadKinds /\ "older" \in ReadKinds
  BY DEF Works, ReadKinds
<1>4. q \in Works
  <2>1. PICK R \in [ReadKinds -> Reads] : R = [g.reads EXCEPT !["run"] = Asked]
    BY <1>3, ReadIs
  <2>2. MaxPages \in 0..MaxPages
    OBVIOUS
  <2> QED BY <1>2, <2>1, <2>2 DEF Works
<1>5. /\ q.base = g.base /\ q.retry = FALSE /\ q.phase = p /\ q.reads = [g.reads EXCEPT !["run"] = Asked]
      /\ q.loaded = g.loaded /\ q.call = g.call /\ q.sent = g.sent /\ q.gone = g.gone
  BY <1>2 DEF Works
<1>6. /\ q.reads["initial"] = g.reads["initial"] /\ q.reads["older"] = g.reads["older"]
      /\ q.reads["run"] = Asked
  BY <1>3, <1>5
<1>7. q = StartRun(g)
  BY <1>1, <1>2 DEF StartRun
<1> QED BY <1>1, <1>4, <1>5, <1>6, <1>7 DEF SameButRun

LEMMA StopRunIs ==
  ASSUME NEW g \in Works
  PROVE  \E q \in Works :
           /\ q = StopRun(g) /\ SameButRun(g, q) /\ q.base = g.base /\ q.retry = g.retry
           /\ q.phase = "none" /\ q.reads["run"] = NoRead
<1>1. PICK q : q = [g EXCEPT !.phase = "none", !.pages = 0, !.reads["run"] = NoRead]
  OBVIOUS
<1>2. g.reads \in [ReadKinds -> Reads] /\ "run" \in ReadKinds /\ "initial" \in ReadKinds /\ "older" \in ReadKinds
  BY DEF Works, ReadKinds
<1>3. q \in Works
  <2>1. PICK R \in [ReadKinds -> Reads] : R = [g.reads EXCEPT !["run"] = NoRead]
    BY <1>2, ReadIs
  <2>2. 0 \in 0..MaxPages
    OBVIOUS
  <2> QED BY <1>1, <2>1, <2>2 DEF Works
<1>4. /\ q.base = g.base /\ q.retry = g.retry /\ q.phase = "none"
      /\ q.reads = [g.reads EXCEPT !["run"] = NoRead]
      /\ q.loaded = g.loaded /\ q.call = g.call /\ q.sent = g.sent /\ q.gone = g.gone
  BY <1>1 DEF Works
<1>5. /\ q.reads["initial"] = g.reads["initial"] /\ q.reads["older"] = g.reads["older"]
      /\ q.reads["run"] = NoRead
  BY <1>2, <1>4
<1>6. q = StopRun(g)
  BY <1>1 DEF StopRun
<1> QED BY <1>3, <1>4, <1>5, <1>6 DEF SameButRun

\* A run has begun.
Begun ==
  /\ feed' = "live" /\ wanted' = FALSE /\ running' = TRUE
  /\ h'.reads["run"] = Asked /\ ~h'.retry /\ h'.loaded
  /\ h'.phase = (IF h'.base.latest = 0 THEN "first" ELSE "gap")

\* The run has asked for its next page.
AsksOn ==
  /\ feed' = feed /\ wanted' = wanted /\ running' = running
  /\ h'.reads["run"] = Asked /\ h'.retry = h.retry
  /\ h'.phase \in {"gap", "update"} /\ (h'.phase = "gap" => h.phase = "gap")

\* No run is under way, and none was wanted.
Rests ==
  /\ feed' = "live" /\ ~wanted /\ wanted' = FALSE /\ running' = FALSE
  /\ h'.reads["run"] = NoRead /\ h'.phase = "none"

LEMMA EndsIs ==
  ASSUME NEW g \in Works, g.loaded, Ends(g), wanted \in BOOLEAN
  PROVE  /\ h' \in Works /\ SameButRun(g, h') /\ h'.base = g.base
         /\ Begun \/ (Rests /\ h'.retry = g.retry)
<1>1. PICK q \in Works : /\ q = StopRun(g) /\ SameButRun(g, q) /\ q.base = g.base
                         /\ q.retry = g.retry /\ q.phase = "none" /\ q.reads["run"] = NoRead
  BY StopRunIs
<1>2. StartOwed(q, wanted, FALSE)
  BY <1>1 DEF Ends
<1>3. q.loaded = g.loaded
  BY <1>1 DEF SameButRun
<1>4. CASE wanted
  <2>1. h' = StartRun(q) /\ StayLive /\ running' /\ ~wanted'
    BY <1>2, <1>3, <1>4 DEF StartOwed
  <2>2. PICK p \in Works :
          /\ p = StartRun(q) /\ SameButRun(q, p) /\ p.base = q.base /\ ~p.retry
          /\ p.phase = (IF q.base.latest = 0 THEN "first" ELSE "gap")
          /\ p.reads["run"] = Asked
    BY StartRunIs
  <2>3. feed' = "live" /\ running' \in BOOLEAN /\ wanted' \in BOOLEAN
    BY <2>1 DEF StayLive
  <2>4. h' \in Works /\ SameButRun(g, h') /\ h'.base = g.base
    BY <1>1, <2>1, <2>2 DEF SameButRun
  <2>5. Begun
    BY <1>1, <1>3, <2>1, <2>2, <2>3 DEF Begun, SameButRun
  <2> QED BY <2>4, <2>5
<1>5. CASE ~wanted
  <2>1. h' = q /\ StayLive /\ running' = FALSE /\ wanted' = wanted
    BY <1>2, <1>3, <1>5 DEF StartOwed
  <2>2. feed' = "live"
    BY <2>1 DEF StayLive
  <2> QED BY <1>1, <1>5, <2>1, <2>2 DEF Rests
<1> QED BY <1>4, <1>5

LEMMA ContinueIs ==
  ASSUME NEW g \in Works, Continue(g), g.retry = h.retry,
         g.phase \in {"gap", "update"}, g.phase = "gap" => h.phase = "gap"
  PROVE  h' \in Works /\ SameButRun(g, h') /\ h'.base = g.base /\ AsksOn
<1>1. PICK q : q = [g EXCEPT !.reads["run"] = Asked]
  OBVIOUS
<1>2. g.reads \in [ReadKinds -> Reads] /\ "run" \in ReadKinds /\ "initial" \in ReadKinds /\ "older" \in ReadKinds
  BY DEF Works, ReadKinds
<1>3. q \in Works
  BY <1>1, <1>2, ReadIs DEF Works
<1>4. /\ q.base = g.base /\ q.retry = g.retry /\ q.phase = g.phase
      /\ q.reads = [g.reads EXCEPT !["run"] = Asked]
      /\ q.loaded = g.loaded /\ q.call = g.call /\ q.sent = g.sent /\ q.gone = g.gone
  BY <1>1 DEF Works
<1>5. /\ q.reads["initial"] = g.reads["initial"] /\ q.reads["older"] = g.reads["older"]
      /\ q.reads["run"] = Asked
  BY <1>2, <1>4
<1>6. h' = q /\ feed' = feed /\ wanted' = wanted /\ running' = running
  BY <1>1 DEF Continue, feedVars
<1> QED BY <1>3, <1>4, <1>5, <1>6 DEF SameButRun, AsksOn

LEMMA NextPageIs ==
  ASSUME h \in Works, h.loaded, wanted \in BOOLEAN, NEW base \in Bases, NextPage(base),
         h.phase \in {"gap", "update"}
  PROVE  /\ h' \in Works /\ SameButRun(h, h') /\ h'.base = base
         /\ Begun \/ (AsksOn /\ h'.phase = h.phase) \/ (Rests /\ h'.retry)
<1>1. CASE h.pages > 1
  <2>1. PICK g : g = [h EXCEPT !.pages = @ - 1, !.base = base]
    OBVIOUS
  <2>2. h.pages \in 0..MaxPages
    BY DEF Works
  <2>3. g \in Works
    <3>1. PICK n \in 0..MaxPages : n = h.pages - 1
      BY <1>1, <2>2
    <3> QED BY <2>1, <3>1 DEF Works
  <2>4. SameButRun(h, g) /\ g.base = base /\ g.retry = h.retry /\ g.phase = h.phase
    BY <2>1 DEF Works, SameButRun
  <2>5. Continue(g)
    BY <1>1, <2>1 DEF NextPage
  <2>6. h' \in Works /\ SameButRun(g, h') /\ h'.base = g.base /\ AsksOn
    BY <2>3, <2>4, <2>5, ContinueIs
  <2>7. h'.phase = h.phase
    <3>1. h' = [g EXCEPT !.reads["run"] = Asked]
      BY <2>5 DEF Continue
    <3> QED BY <2>3, <2>4, <3>1 DEF Works
  <2> QED BY <2>4, <2>6, <2>7 DEF SameButRun
<1>2. CASE ~(h.pages > 1)
  <2>1. PICK g : g = [h EXCEPT !.base = base, !.retry = TRUE]
    OBVIOUS
  <2>2. g \in Works /\ SameButRun(h, g) /\ g.base = base /\ g.retry /\ g.loaded
    BY <2>1 DEF Works, SameButRun
  <2>3. Ends(g)
    BY <1>2, <2>1 DEF NextPage
  <2>4. /\ h' \in Works /\ SameButRun(g, h') /\ h'.base = g.base
        /\ Begun \/ (Rests /\ h'.retry = g.retry)
    BY <2>2, <2>3, EndsIs
  <2> QED BY <2>2, <2>4 DEF SameButRun
<1> QED BY <1>1, <1>2

LEMMA BeginUpdateIs ==
  ASSUME h \in Works, NEW base \in Bases, BeginUpdate(base)
  PROVE  /\ h' \in Works /\ SameButRun(h, h') /\ h'.base = base
         /\ AsksOn /\ h'.phase = "update"
<1>1. PICK g : g = [h EXCEPT !.phase = "update", !.pages = MaxPages, !.base = base]
  OBVIOUS
<1>2. MaxPages \in 0..MaxPages
  OBVIOUS
<1>3. g \in Works /\ SameButRun(h, g) /\ g.base = base /\ g.retry = h.retry /\ g.phase = "update"
  BY <1>1, <1>2 DEF Works, SameButRun
<1>4. Continue(g)
  BY <1>1 DEF BeginUpdate
<1>5. h' \in Works /\ SameButRun(g, h') /\ h'.base = g.base /\ AsksOn
  BY <1>3, <1>4, ContinueIs
<1>6. h'.phase = "update"
  <2>1. h' = [g EXCEPT !.reads["run"] = Asked]
    BY <1>4 DEF Continue
  <2> QED BY <1>3, <2>1 DEF Works
<1> QED BY <1>3, <1>5, <1>6 DEF SameButRun

-----------------------------------------------------------------------------
(* What a step keeps that leaves the server alone.                         *)

LEMMA EmptyPage ==
  ASSUME NEW rows
  PROVE  PageOf({}, rows)
BY DEF PageOf, OneRowEach

LEMMA CallKept ==
  ASSUME CallSound, srv' = srv, h'.call \in {h.call, NoCall}
  PROVE  CallSound'
<1>1. CASE h'.call = h.call
  BY <1>1, Zenon DEF CallSound, OwnPosted, Posted
<1>2. CASE h'.call = NoCall
  <2>1. NoCall.kind = "none" /\ NoCall.state = "none"
    BY DEF NoCall
  <2> QED BY <1>2, <2>1 DEF CallSound
<1> QED BY <1>1, <1>2

LEMMA CopiesKept ==
  ASSUME Copies, srv' = srv, TranscriptOf(t', srv.rows), wire' \subseteq wire, CallSound',
         \A k \in ReadKinds : h'.reads[k].page \in {h.reads[k].page, {}}
  PROVE  Copies'
<1>1. ServerSound'
  BY Zenon DEF Copies, ServerSound, OwnPosted, Posted
<1>2. \A k \in ReadKinds : PageOf(h'.reads[k].page, srv.rows)
  BY EmptyPage DEF Copies
<1>3. \A e \in wire' : EventOf(e, srv.rows)
  BY DEF Copies
<1>4. srv'.rows = srv.rows
  OBVIOUS
<1> QED BY <1>1, <1>2, <1>3, <1>4 DEF Copies

LEMMA ScreenKept ==
  ASSUME Screen, srv' = srv, HiddenAway(t'), t'.hidden = t.hidden, PendingAlone(t'),
         h'.gone = h.gone, h'.sent = h.sent, h'.call \in {h.call, NoCall},
         feed = "shut" => feed' = "shut"
  PROVE  Screen'
<1>1. h'.call.kind \in Sends => h.call.kind \in Sends
  BY DEF NoCall, Sends
<1>2. OwnPosted' = OwnPosted
  BY DEF OwnPosted, Posted
<1> QED BY <1>1, <1>2 DEF Screen

\* Nothing of what can be seen is taken back.
Gains ==
  /\ srv' = srv
  /\ \A i \in Visible : (Known(t.rows, i) => Known(t'.rows, i)) /\ (Has(i) => Has(i)')

LEMMA AdvancedGains ==
  ASSUME Types, Copies, Screen, srv' = srv, Advanced(t, t', srv.rows)
  PROVE  Gains
<1> SUFFICES ASSUME NEW i \in Visible
             PROVE  (Known(t.rows, i) => Known(t'.rows, i)) /\ (Has(i) => Has(i)')
  BY DEF Gains
<1>1. i \in Posted /\ i \notin srv.hidden /\ i \in Ids
  BY DEF Visible, Posted, Types, Servers, Ids
<1>2. i \notin t.hidden /\ srv.rows[i].seq > 0
  BY <1>1 DEF Screen, Copies, ServerSound
<1> QED BY <1>1, <1>2 DEF Advanced, Grown, Has

LEMMA SameGains ==
  ASSUME srv' = srv, t' = t
  PROVE  Gains
BY Zenon DEF Gains, Has

LEMMA FloorKept ==
  ASSUME Floor, Gains, t'.older = t.older, h'.base = h.base,
         h'.reads["older"].page \in {h.reads["older"].page, {}}
  PROVE  Floor'
<1>1. srv' = srv /\ Visible' = Visible
  BY DEF Gains, Visible, Posted
<1>2. ASSUME NEW i \in Visible, t.older <= i, i <= h.base.latest PROVE Known(t'.rows, i)
  BY <1>2 DEF Floor, Gains
<1>3. ASSUME NEW i \in Visible, srv.rows[i].seq <= h.base.cursor
      PROVE  /\ t.older <= i => Has(i)'
             /\ InPage(h'.reads["older"], i) => Has(i)' \/ Brings(h.reads["older"], i)
  <2>1. InPage(h'.reads["older"], i) => InPage(h.reads["older"], i)
    BY DEF InPage
  <2> QED BY <1>3, <2>1 DEF Floor, Gains
<1>4. \A i \in Visible : InPage(h'.reads["older"], i) /\ Brings(h.reads["older"], i) => Brings(h.reads["older"], i)'
  BY <1>1 DEF InPage, Brings
<1> QED BY <1>1, <1>2, <1>3, <1>4 DEF Floor, InPage

LEMMA PagesKept ==
  ASSUME Pages, srv' = srv, t'.older = t.older,
         \A k \in ReadKinds : h'.reads[k] = h.reads[k] \/ h'.reads[k].state # "answered",
         h'.reads["run"].state = "answered" => h'.phase = h.phase /\ h'.base = h.base
  PROVE  Pages'
<1>1. Visible' = Visible
  BY DEF Visible, Posted
<1>2. "initial" \in ReadKinds /\ "older" \in ReadKinds /\ "run" \in ReadKinds
  BY DEF ReadKinds
<1>3. \A r : HistoryEnds(r) => HistoryEnds(r)'
  BY <1>1, Zenon DEF HistoryEnds, InPage, Brings, Oldest, Last, Cursor
<1>4. h'.reads["initial"].state = "answered" => HistoryEnds(h.reads["initial"])'
  BY <1>2, <1>3 DEF Pages
<1>5. h'.reads["older"].state = "answered" =>
       /\ h'.reads["older"].more => h'.reads["older"].page # {}
       /\ \A i \in Visible : Oldest(h'.reads["older"]) <= i /\ i < t.older => InPage(h'.reads["older"], i)
  BY <1>2 DEF Pages
<1>6. h'.reads["run"].state = "answered" =>
       /\ h'.phase = "first" => HistoryEnds(h.reads["run"])'
       /\ h'.phase = "gap" => \A i \in Visible :
            h'.base.latest < i /\ i <= Last(h'.reads["run"].page) => InPage(h'.reads["run"], i)
       /\ h'.phase = "update" => \A i \in Visible :
            h'.base.cursor < srv.rows[i].seq /\ srv.rows[i].seq <= Cursor(h'.reads["run"].page) =>
              Brings(h.reads["run"], i)'
  <2> SUFFICES ASSUME h'.reads["run"].state = "answered"
               PROVE  /\ h'.phase = "first" => HistoryEnds(h.reads["run"])'
                      /\ h'.phase = "gap" => \A i \in Visible :
                           h'.base.latest < i /\ i <= Last(h'.reads["run"].page) => InPage(h'.reads["run"], i)
                      /\ h'.phase = "update" => \A i \in Visible :
                           h'.base.cursor < srv.rows[i].seq /\ srv.rows[i].seq <= Cursor(h'.reads["run"].page) =>
                             Brings(h.reads["run"], i)'
    OBVIOUS
  <2>1. h'.reads["run"] = h.reads["run"] /\ h'.phase = h.phase /\ h'.base = h.base
    BY <1>2
  <2>2. \A i : Brings(h.reads["run"], i) => Brings(h.reads["run"], i)'
    BY <2>1 DEF Brings
  <2> QED BY <1>3, <2>1, <2>2 DEF Pages
<1>7. \A r : Oldest(r)' = Oldest(r) /\ Last(r.page)' = Last(r.page) /\ Cursor(r.page)' = Cursor(r.page)
  BY DEF Oldest, Last, Cursor
<1> QED BY <1>1, <1>4, <1>5, <1>6, <1>7, Zenon DEF Pages, InPage

\* What was to come has come, or is still to come.
WireKept ==
  \A i \in Visible : /\ Announced(i) => Announced(i)' \/ Known(t'.rows, i)
                     /\ OnWire(i) => OnWire(i)' \/ Has(i)'

LEMMA SameWire ==
  ASSUME srv' = srv, wire' = wire
  PROVE  WireKept
BY Zenon DEF WireKept, Announced, OnWire

LEMMA PromisedKept ==
  ASSUME Promised, Gains, WireKept, t'.older = t.older,
         h'.reads["older"].page \in {h.reads["older"].page, {}},
         h'.reads["run"] = h.reads["run"], h'.phase = h.phase, ~Owed' => ~Owed
  PROVE  Promised'
<1> SUFFICES ASSUME ~Owed'
             PROVE  \A i \in Visible' :
                      /\ t'.older <= i => Met(i)' /\ Coming(i)'
                      /\ InPage(h'.reads["older"], i) => Coming(i)' \/ Brings(h.reads["older"], i)'
  BY DEF Promised, InPage
<1>1. srv' = srv /\ Visible' = Visible
  BY DEF Gains, Visible, Posted
<1> SUFFICES ASSUME NEW i \in Visible
             PROVE  /\ t'.older <= i => Met(i)' /\ Coming(i)'
                    /\ InPage(h'.reads["older"], i) => Coming(i)' \/ Brings(h.reads["older"], i)'
  BY <1>1
<1>2. /\ t.older <= i => Met(i) /\ Coming(i)
      /\ InPage(h.reads["older"], i) => Coming(i) \/ Brings(h.reads["older"], i)
  BY DEF Promised
<1>3. RunFinds(i) => RunFinds(i)'
  BY DEF RunFinds, AskedRun, InPage, Oldest
<1>4. RunAsks => RunAsks'
  BY DEF RunAsks, AskedRun
<1>5. Brings(h.reads["run"], i) => Brings(h.reads["run"], i)'
  BY <1>1 DEF Brings
<1>6. Met(i) => Met(i)'
  BY <1>3 DEF Met, Gains, WireKept
<1>7. Coming(i) => Coming(i)'
  BY <1>4, <1>5 DEF Coming, Gains, WireKept
<1>8. InPage(h'.reads["older"], i) =>
        /\ InPage(h.reads["older"], i)
        /\ Brings(h.reads["older"], i) => Brings(h.reads["older"], i)'
  BY <1>1 DEF InPage, Brings
<1> QED BY <1>2, <1>6, <1>7, <1>8

\* A catch-up is owed, or has just begun.
LEMMA PromisedAnew ==
  ASSUME Owed' \/ Begun
  PROVE  Promised'
<1>1. Begun => \A i : Met(i)' /\ Coming(i)'
  BY ReadIs DEF Begun, Met, Coming, RunFinds, RunAsks, AskedRun
<1> QED BY <1>1 DEF Promised

-----------------------------------------------------------------------------
(* Steps of the transcript and of the calls.                               *)

\* The reads and the run stay as they are.
SameReads ==
  /\ h'.reads = h.reads /\ h'.base = h.base /\ h'.phase = h.phase /\ h'.retry = h.retry
  /\ h'.loaded = h.loaded

LEMMA HookKept ==
  ASSUME Hook, srv' = srv, t'.older = t.older, SameReads, UNCHANGED feedVars
  PROVE  Hook'
BY DEF Hook, ReadsInTurn, Turns, SameReads, feedVars

LEMMA QuietStep ==
  ASSUME TranscriptInv, Types', UNCHANGED feedVars, Gains, t'.older = t.older,
         TranscriptOf(t', srv.rows), wire' \subseteq wire, WireKept, SameReads, CallSound', Screen'
  PROVE  TranscriptInv'
<1> USE DEF TranscriptInv
<1>1. Copies'
  BY CopiesKept DEF SameReads, Gains
<1>2. Hook'
  BY HookKept DEF Gains
<1>3. Pages'
  BY PagesKept DEF SameReads, Gains
<1>4. Floor'
  BY FloorKept DEF SameReads
<1>5. ~Owed' => ~Owed
  BY DEF Owed, SameReads, feedVars
<1>6. Promised'
  BY <1>5, PromisedKept DEF SameReads
<1> QED BY <1>1, <1>2, <1>3, <1>4, <1>6

LEMMA AdvancingStep ==
  ASSUME TranscriptInv, Types', srv' = srv, UNCHANGED feedVars, Advanced(t, t', srv.rows),
         wire' \subseteq wire, WireKept, SameReads, CallSound', Screen'
  PROVE  TranscriptInv'
<1>1. Gains
  BY AdvancedGains DEF TranscriptInv
<1>2. t'.older = t.older /\ TranscriptOf(t', srv.rows)
  BY DEF Advanced, SameRoom
<1> QED BY <1>1, <1>2, QuietStep

\* An event is taken, or kept for later.
LEMMA EventTaken ==
  ASSUME TranscriptInv, NEW e \in wire, EventArrives(e)
  PROVE  /\ t' \in Transcripts /\ Advanced(t, t', srv.rows)
         /\ e.id \notin t.hidden =>
              /\ e.kind = "message" => Known(t'.rows, e.id)
              /\ e.row.seq = srv.rows[e.id].seq => HasLast(t', e.id, srv.rows[e.id].seq)
<1> USE DEF TranscriptInv
<1>1. /\ feed # "shut" /\ wire' = wire \ {e} /\ UNCHANGED feedVars /\ srv' = srv /\ h' = h
      /\ t' = CASE e.kind = "message" -> Merge(t, {<<e.id, e.row>>}, TRUE)
                [] e.kind = "deleted" -> Merge(t, {<<e.id, e.row>>}, FALSE)
                [] e.kind = "reaction" -> ReactionPatch(t, e.id, e.row.reacts)
  BY DEF EventArrives
<1>2. /\ t \in Transcripts /\ srv.rows \in [Ids -> AnyRow] /\ TranscriptOf(t, srv.rows)
      /\ HiddenAway(t) /\ PendingAlone(t)
      /\ e.id \in Ids /\ e.row \in AnyRow /\ e.row.reacts \in Nat
      /\ e.kind \in {"message", "deleted", "reaction"}
      /\ EventOf(e, srv.rows)
  BY DEF Types, Servers, Copies, Screen, Events, AnyRow
<1>3. srv.rows[e.id] \in AnyRow /\ srv.rows[e.id].seq > 0
  BY <1>2 DEF EventOf, CopyOf, AnyRow
<1> QED
  <2>1. PICK page : page = {<<e.id, e.row>>}
    OBVIOUS
  <2>2. PICK p : p = <<e.id, e.row>>
    OBVIOUS
  <2>3. p \in Ids \X AnyRow /\ p[1] = e.id /\ p[2] = e.row
    BY <1>2, <2>2
  <2>4. page \in SUBSET (Ids \X AnyRow) /\ p \in page /\ \A q \in page : q = p
    BY <2>1, <2>2, <2>3
  <2>5. PageOf(page, srv.rows)
    BY <1>2, <2>3, <2>4 DEF PageOf, OneRowEach, EventOf
  <2>6. ASSUME NEW upsert \in BOOLEAN, t' = Merge(t, page, upsert)
        PROVE  /\ t' \in Transcripts /\ Advanced(t, t', srv.rows)
               /\ e.id \notin t.hidden =>
                    /\ upsert => Known(t'.rows, e.id)
                    /\ e.row.seq = srv.rows[e.id].seq => HasLast(t', e.id, srv.rows[e.id].seq)
    <3>1. PICK q \in Transcripts : /\ q = Merge(t, page, upsert) /\ Advanced(t, q, srv.rows)
                                   /\ Brought(t, q, page, upsert, srv.rows)
      BY <1>2, <2>4, <2>5, MergeAdvances
    <3> QED BY <2>3, <2>4, <2>6, <3>1 DEF Brought
  <2>7. CASE e.kind = "message"
    BY <1>1, <2>1, <2>6, <2>7
  <2>8. CASE e.kind = "deleted"
    BY <1>1, <2>1, <2>6, <2>8
  <2>9. CASE e.kind = "reaction"
    <3>1. t' = ReactionPatch(t, e.id, e.row.reacts)
      BY <1>1, <2>9
    <3>2. MarkOf(e.row.reacts, srv.rows[e.id])
      BY <1>2, <2>9 DEF EventOf
    <3>3. PICK q \in Transcripts :
            /\ q = ReactionPatch(t, e.id, e.row.reacts) /\ Advanced(t, q, srv.rows)
            /\ e.id \notin t.hidden /\ e.row.reacts = srv.rows[e.id].seq => HasLast(q, e.id, srv.rows[e.id].seq)
      BY <1>2, <1>3, <3>2, ReactionAdvances
    <3>4. e.row.seq = srv.rows[e.id].seq => e.row.reacts = srv.rows[e.id].seq
      BY <1>2, <2>9 DEF EventOf
    <3> QED BY <2>9, <3>1, <3>3, <3>4
  <2> QED BY <1>2, <2>7, <2>8, <2>9

LEMMA Arriving ==
  ASSUME TranscriptInv, NEW e \in wire, EventArrives(e)
  PROVE  TranscriptInv'
<1> USE DEF TranscriptInv
<1>1. feed # "shut" /\ wire' = wire \ {e} /\ UNCHANGED feedVars /\ srv' = srv /\ h' = h
  BY DEF EventArrives
<1>2. /\ t' \in Transcripts /\ Advanced(t, t', srv.rows)
      /\ e.id \notin t.hidden =>
           /\ e.kind = "message" => Known(t'.rows, e.id)
           /\ e.row.seq = srv.rows[e.id].seq => HasLast(t', e.id, srv.rows[e.id].seq)
  BY EventTaken
<1>3. Types'
  BY <1>1, <1>2 DEF Types, feedVars
<1>4. \A i \in Visible : i \notin t.hidden
  BY DEF Screen, Visible
<1>5. WireKept
  BY <1>1, <1>2, <1>4 DEF WireKept, Announced, OnWire, Has
<1>6. CallSound'
  BY <1>1, CallKept DEF Copies
<1>7. Screen'
  <2>1. HiddenAway(t') /\ t'.hidden = t.hidden /\ PendingAlone(t')
    BY <1>2 DEF Advanced, SameRoom
  <2> QED BY <1>1, <2>1, ScreenKept DEF feedVars
<1>8. SameReads
  BY <1>1 DEF SameReads
<1> QED BY <1>1, <1>2, <1>3, <1>5, <1>6, <1>7, <1>8, AdvancingStep

LEMMA Losing ==
  ASSUME TranscriptInv, NEW e \in wire, EventLost(e)
  PROVE  TranscriptInv'
<1> USE DEF TranscriptInv
<1>1. feed # "live" /\ wire' = wire \ {e} /\ UNCHANGED feedVars /\ srv' = srv /\ h' = h /\ t' = t
  BY DEF EventLost
<1>2. Types' /\ Screen' /\ SameReads
  BY <1>1 DEF Types, Screen, HiddenAway, PendingAlone, OwnPosted, Posted, SameReads, feedVars
<1>3. Copies'
  <2>1. CallSound'
    BY <1>1, CallKept DEF Copies
  <2> QED BY <1>1, <2>1, CopiesKept DEF Copies
<1>4. Hook'
  BY <1>1, <1>2, HookKept
<1>5. Pages'
  BY <1>1, PagesKept
<1>6. Floor'
  BY <1>1, SameGains, FloorKept
<1>7. Promised'
  BY <1>1, PromisedAnew DEF Owed, feedVars
<1> QED BY <1>2, <1>3, <1>4, <1>5, <1>6, <1>7

\* A read of the history is asked for, or given up.
LEMMA Asking ==
  ASSUME TranscriptInv, NEW k \in {"initial", "older"}, NEW r \in {NoRead, Asked},
         h' = [h EXCEPT !.reads[k] = r], UNCHANGED <<feedVars, srv, wire, t>>,
         r = Asked => (k = "initial" => ~h.loaded) /\ (k = "older" => t.older # 0)
  PROVE  TranscriptInv'
<1> USE DEF TranscriptInv
<1>1. /\ k \in ReadKinds /\ "run" \in ReadKinds /\ h.reads \in [ReadKinds -> Reads] /\ h \in Works
      /\ "older" \in ReadKinds /\ "initial" \in ReadKinds
  BY DEF ReadKinds, Types, Works
<1>2. /\ h' \in Works /\ h'.reads = [h.reads EXCEPT ![k] = r]
      /\ h'.loaded = h.loaded /\ h'.call = h.call /\ h'.sent = h.sent /\ h'.gone = h.gone
      /\ h'.base = h.base /\ h'.phase = h.phase /\ h'.retry = h.retry
  <2>1. PICK R \in [ReadKinds -> Reads] : R = [h.reads EXCEPT ![k] = r]
    BY <1>1, ReadIs
  <2> QED BY <1>1, <2>1 DEF Works
<1>3. h'.reads[k] = r /\ \A l \in ReadKinds : l # k => h'.reads[l] = h.reads[l]
  BY <1>1, <1>2
<1>4. r.page = {} /\ r.state \in {"none", "asked"} /\ (r.state = "asked" => r = Asked)
  BY ReadIs
<1>5. Types'
  BY <1>2 DEF Types, feedVars
<1>6. Copies'
  <2>1. CallSound'
    BY <1>2, CallKept DEF Copies
  <2> QED BY <1>3, <1>4, <2>1, CopiesKept DEF Copies
<1>7. Screen'
  BY <1>2, ScreenKept DEF Screen, feedVars
<1>8. Hook'
  <2>1. ReadsInTurn'
    BY <1>1, <1>2, <1>3, <1>4 DEF Hook, ReadsInTurn
  <2>2. Turns'
    BY <1>2 DEF Hook, Turns, feedVars
  <2> QED BY <2>1, <2>2 DEF Hook
<1>9. Pages'
  BY <1>1, <1>2, <1>3, <1>4, PagesKept
<1>10. h'.reads["older"].page \in {h.reads["older"].page, {}} /\ h'.reads["run"] = h.reads["run"]
  BY <1>1, <1>3, <1>4
<1>11. Floor'
  BY <1>2, <1>10, SameGains, FloorKept
<1>12. ~Owed' => ~Owed
  BY <1>2 DEF Owed, feedVars
<1>13. Promised'
  BY <1>2, <1>10, <1>12, SameGains, SameWire, PromisedKept
<1> QED BY <1>5, <1>6, <1>7, <1>8, <1>9, <1>11, <1>13

LEMMA Loading ==
  ASSUME TranscriptInv, LoadInitial
  PROVE  TranscriptInv'
<1>1. PICK k \in {"initial", "older"} : k = "initial"
  OBVIOUS
<1>2. PICK r \in {NoRead, Asked} : r = Asked
  OBVIOUS
<1>3. h' = [h EXCEPT !.reads[k] = r] /\ UNCHANGED <<feedVars, srv, wire, t>> /\ ~h.loaded
  BY <1>1, <1>2 DEF LoadInitial
<1> QED BY <1>1, <1>3, Asking

LEMMA LoadingOlder ==
  ASSUME TranscriptInv, LoadOlder
  PROVE  TranscriptInv'
<1>1. PICK k \in {"initial", "older"} : k = "older"
  OBVIOUS
<1>2. PICK r \in {NoRead, Asked} : r = Asked
  OBVIOUS
<1>3. h' = [h EXCEPT !.reads[k] = r] /\ UNCHANGED <<feedVars, srv, wire, t>> /\ t.older # 0
  BY <1>1, <1>2 DEF LoadOlder
<1> QED BY <1>1, <1>3, Asking

LEMMA ReadFailing ==
  ASSUME TranscriptInv, NEW k \in {"initial", "older"}, ReadFails(k)
  PROVE  TranscriptInv'
<1>1. PICK r \in {NoRead, Asked} : r = NoRead
  OBVIOUS
<1>2. h' = [h EXCEPT !.reads[k] = r] /\ UNCHANGED <<feedVars, srv, wire, t>>
  BY <1>1 DEF ReadFails
<1>3. r # Asked
  BY <1>1, ReadIs
<1> QED BY <1>2, <1>3, Asking

LEMMA CallsIs ==
  ASSUME h \in Works, NEW kind \in {"send", "resend", "react", "delete", "hide"},
         NEW i \in 0..MaxMessages, Calls(kind, i)
  PROVE  /\ h' \in Works /\ SameReads /\ h'.gone = h.gone
         /\ h'.call.state = "asked" /\ h'.call.kind = kind /\ h'.call.id = i
         /\ h'.sent <=> h.sent \/ kind = "send"
<1>1. PICK c : c = [NoCall EXCEPT !.state = "asked", !.kind = kind, !.id = i]
  OBVIOUS
<1>2. c \in Callings /\ c.state = "asked" /\ c.kind = kind /\ c.id = i
  BY <1>1, NoRowIs DEF NoCall, Callings
<1>3. PICK sent \in BOOLEAN : sent = (h.sent \/ kind = "send")
  OBVIOUS
<1>4. h' = [h EXCEPT !.call = c, !.sent = sent]
  BY <1>1, <1>3 DEF Calls
<1>5. h' \in Works /\ SameReads /\ h'.gone = h.gone /\ h'.call = c /\ h'.sent = sent
  BY <1>2, <1>4 DEF Works, SameReads
<1> QED BY <1>2, <1>3, <1>5, Zenon

LEMMA KnownPosted ==
  ASSUME Types, Copies, NEW i \in Ids, Known(t.rows, i)
  PROVE  i \in Posted /\ CopyOf(t.rows[i], srv.rows[i])
<1>1. CopyOf(t.rows[i], srv.rows[i]) /\ t.rows[i] \in AnyRow /\ srv.rows[i] \in AnyRow
  BY DEF Copies, TranscriptOf, Types, Transcripts, Servers
<1>2. srv.rows[i].seq > 0
  BY <1>1 DEF CopyOf, AnyRow
<1> QED BY <1>1, <1>2 DEF Copies, ServerSound

\* The reducer's overlays change, and a call starts.
LEMMA CallStarts ==
  ASSUME TranscriptInv, NEW kind \in {"send", "resend", "react", "delete", "hide"},
         NEW i \in 0..MaxMessages, Calls(kind, i), UNCHANGED <<feedVars, srv, wire>>,
         t' \in Transcripts, t'.rows = t.rows, t'.deferred = t.deferred, t'.hidden = t.hidden,
         t'.older = t.older, PendingAlone(t'),
         kind \in {"react", "delete", "hide"} => i \in Posted,
         kind = "resend" => h.sent
  PROVE  TranscriptInv'
<1> USE DEF TranscriptInv
<1>1. /\ h' \in Works /\ SameReads /\ h'.gone = h.gone
      /\ h'.call.state = "asked" /\ h'.call.kind = kind /\ h'.call.id = i
      /\ h'.sent <=> h.sent \/ kind = "send"
  BY CallsIs DEF Types
<1>2. Types'
  BY <1>1 DEF Types, feedVars
<1>3. CallSound'
  BY <1>1 DEF CallSound, Posted
<1>4. Screen'
  <2>1. HiddenAway(t') /\ OwnPosted' = OwnPosted
    BY DEF Screen, HiddenAway, OwnPosted, Posted
  <2> QED BY <1>1, <2>1 DEF Screen, Sends, feedVars
<1>5. TranscriptOf(t', srv.rows) /\ Gains
  BY DEF Gains, Copies, TranscriptOf, Has, HasLast, Known
<1> QED BY <1>1, <1>2, <1>3, <1>4, <1>5, SameWire, QuietStep

LEMMA Sending ==
  ASSUME TranscriptInv, Send
  PROVE  TranscriptInv'
<1> USE DEF TranscriptInv
<1>1. PICK kind \in {"send", "resend"} : kind = IF h.sent THEN "resend" ELSE "send"
  OBVIOUS
<1>2. /\ feed # "shut" /\ Calls(kind, 0) /\ UNCHANGED <<feedVars, srv, wire>>
      /\ t.pending = (IF h.sent THEN "failed" ELSE "none") /\ t' = [t EXCEPT !.pending = "sending"]
  BY <1>1 DEF Send, MayMutate
<1>3. /\ t' \in Transcripts /\ t'.rows = t.rows /\ t'.deferred = t.deferred /\ t'.hidden = t.hidden
      /\ t'.older = t.older
  BY <1>2 DEF Types, Transcripts
<1>4. PendingAlone(t')
  <2>1. CASE h.sent
    BY <1>2, <1>3, <2>1 DEF Screen, PendingAlone
  <2>2. CASE ~h.sent
    <3>1. OwnPosted = {}
      BY <1>2, <2>2 DEF Screen
    <3>2. ASSUME NEW i \in Ids, Known(t.rows, i) PROVE t.rows[i].sender # "own"
      BY <3>1, <3>2, KnownPosted DEF CopyOf, OwnPosted
    <3> QED BY <1>3, <3>2 DEF PendingAlone
  <2> QED BY <2>1, <2>2
<1>5. 0 \in 0..MaxMessages /\ (kind = "resend" => h.sent)
  BY <1>1
<1> QED BY <1>2, <1>3, <1>4, <1>5, CallStarts

LEMMA Mutating ==
  ASSUME TranscriptInv, NEW kind \in {"react", "delete", "hide"}, NEW i \in Ids, Mutate(kind, i)
  PROVE  TranscriptInv'
<1> USE DEF TranscriptInv
<1>1. /\ Known(t.rows, i) /\ Calls(kind, i) /\ UNCHANGED <<feedVars, srv, wire>>
      /\ \/ t' = [t EXCEPT !.reacting = @ \cup {i}]
         \/ t' = [t EXCEPT !.deleting = @ \cup {i}]
         \/ t' = t
  BY DEF Mutate
<1>2. /\ t' \in Transcripts /\ t'.rows = t.rows /\ t'.deferred = t.deferred /\ t'.hidden = t.hidden
      /\ t'.older = t.older /\ t'.pending = t.pending
  BY <1>1 DEF Types, Transcripts
<1>3. PendingAlone(t')
  BY <1>2 DEF Screen, PendingAlone
<1>4. i \in Posted /\ i \in 0..MaxMessages
  BY <1>1, KnownPosted DEF Ids
<1> QED BY <1>1, <1>2, <1>3, <1>4, CallStarts

\* A call ends.
LEMMA CallEnds ==
  ASSUME TranscriptInv, h' = [h EXCEPT !.call = NoCall], UNCHANGED <<feedVars, srv, wire>>,
         t' \in Transcripts, Advanced(t, t', srv.rows)
  PROVE  TranscriptInv'
<1> USE DEF TranscriptInv
<1>1. /\ h' \in Works /\ SameReads /\ h'.gone = h.gone /\ h'.sent = h.sent /\ h'.call = NoCall
  BY NoRowIs DEF Types, Works, SameReads, NoCall, Callings
<1>2. Types'
  BY <1>1 DEF Types, feedVars
<1>3. CallSound'
  BY <1>1, CallKept DEF Copies
<1>4. Screen'
  <2>1. HiddenAway(t') /\ t'.hidden = t.hidden /\ PendingAlone(t')
    BY DEF Advanced, SameRoom
  <2> QED BY <1>1, <2>1, ScreenKept DEF feedVars
<1> QED BY <1>1, <1>2, <1>3, <1>4, SameWire, AdvancingStep

LEMMA CallFailing ==
  ASSUME TranscriptInv, NEW blocked \in BOOLEAN, CallFails(blocked)
  PROVE  TranscriptInv'
<1> USE DEF TranscriptInv
<1>1. h' = [h EXCEPT !.call = NoCall] /\ UNCHANGED <<feedVars, srv, wire>> /\ h.call # NoCall
  BY DEF CallFails
<1>2. /\ h.call \in Callings /\ t \in Transcripts
      /\ srv.rows \in [Ids -> AnyRow] /\ TranscriptOf(t, srv.rows) /\ HiddenAway(t) /\ PendingAlone(t)
  BY DEF Types, Works, Servers, Copies, Screen
<1>3. \/ t' = t
      \/ t' = [t EXCEPT !.reacting = @ \ {h.call.id}]
      \/ t' = [t EXCEPT !.deleting = @ \ {h.call.id}]
      \/ \E p \in {"none", "failed"} : t' = [t EXCEPT !.pending = p] /\ t.pending = "sending"
  <2>1. CASE h.call.kind \in Sends
    <3>1. t' = [t EXCEPT !.pending = IF @ # "sending" THEN @
                                     ELSE IF blocked /\ h.call.kind = "send" THEN "none"
                                     ELSE "failed"]
      BY <2>1 DEF CallFails, Sends
    <3>2. CASE t.pending # "sending"
      <4>1. t' = [t EXCEPT !.pending = t.pending]
        BY <3>1, <3>2
      <4>2. [t EXCEPT !.pending = t.pending] = t
        BY <1>2 DEF Transcripts
      <4> QED BY <4>1, <4>2
    <3>3. CASE t.pending = "sending"
      BY <3>1, <3>3
    <3> QED BY <3>2, <3>3
  <2>2. CASE h.call.kind \in {"react", "delete", "hide"}
    BY <2>2 DEF CallFails, Sends
  <2>3. CASE h.call.kind = "none"
    BY <1>1, <2>3 DEF Copies, CallSound
  <2> QED BY <1>2, <2>1, <2>2, <2>3 DEF Callings, Sends
<1>4. /\ t' \in Transcripts /\ t'.rows = t.rows /\ t'.deferred = t.deferred /\ t'.hidden = t.hidden
      /\ t'.older = t.older /\ (t'.pending # "none" => t.pending # "none")
  BY <1>2, <1>3 DEF Transcripts
<1>5. Advanced(t, t', srv.rows)
  BY <1>2, <1>4, SameRowsAdvance
<1> QED BY <1>1, <1>4, <1>5, CallEnds

\* A row that is shown once more adds nothing to a page of its own.
LEMMA OneRowPage ==
  ASSUME NEW i \in Ids, NEW r \in AnyRow, NEW rows \in [Ids -> AnyRow], CopyOf(r, rows[i])
  PROVE  \E page \in SUBSET (Ids \X AnyRow) : page = {<<i, r>>} /\ PageOf(page, rows)
<1>1. PICK p : p = <<i, r>>
  OBVIOUS
<1>2. p \in Ids \X AnyRow /\ p[1] = i /\ p[2] = r
  BY <1>1
<1>3. PICK page : page = {p}
  OBVIOUS
<1>4. page \in SUBSET (Ids \X AnyRow) /\ \A q \in page : q = p
  BY <1>2, <1>3
<1>5. PageOf(page, rows)
  BY <1>2, <1>4 DEF PageOf, OneRowEach
<1> QED BY <1>1, <1>3, <1>4, <1>5

LEMMA PendingCleared ==
  ASSUME NEW s \in Transcripts, NEW q \in Transcripts, NEW rows \in [Ids -> AnyRow],
         Advanced(s, q, rows)
  PROVE  \E p \in Transcripts : p = [q EXCEPT !.pending = "none"] /\ Advanced(s, p, rows)
<1>1. PICK p : p = [q EXCEPT !.pending = "none"]
  OBVIOUS
<1>2. /\ p \in Transcripts /\ p.rows = q.rows /\ p.deferred = q.deferred /\ p.hidden = q.hidden
      /\ p.older = q.older /\ p.pending = "none"
  BY <1>1 DEF Transcripts
<1>3. TranscriptOf(p, rows) /\ HiddenAway(p) /\ SameRoom(s, p) /\ PendingAlone(p)
  BY <1>2 DEF Advanced, TranscriptOf, HiddenAway, SameRoom, PendingAlone
<1>4. Grown(s, p, rows)
  BY <1>2 DEF Advanced, Grown, HasLast
<1> QED BY <1>1, <1>2, <1>3, <1>4 DEF Advanced

LEMMA Hiding ==
  ASSUME TranscriptInv, h.call.kind = "hide", CallReturns
  PROVE  TranscriptInv'
<1> USE DEF TranscriptInv
<1>1. PICK i : i = h.call.id
  OBVIOUS
<1>2. /\ t' = Hide(t, i) /\ h' = [h EXCEPT !.call = NoCall, !.gone = @ \cup {i}]
      /\ UNCHANGED <<feedVars, srv, wire>> /\ h.call.state = "answered"
  BY <1>1 DEF CallReturns, Sends
<1>3. i \in srv.hidden /\ i \in Ids
  <2>1. i \in srv.hidden
    BY <1>1, <1>2 DEF Copies, CallSound
  <2> QED BY <2>1 DEF Types, Servers
<1>4. /\ t.rows \in [Ids -> AnyRow] /\ t.deferred \in [Ids -> Patches] /\ t.hidden \subseteq Ids
      /\ h.gone \subseteq Ids
  BY DEF Types, Transcripts, Works
<1>5. /\ h' \in Works /\ SameReads /\ h'.gone = h.gone \cup {i} /\ h'.sent = h.sent /\ h'.call = NoCall
  <2>1. PICK G \in SUBSET Ids : G = h.gone \cup {i}
    BY <1>3, <1>4
  <2>2. PICK c \in Callings : c = NoCall
    <3>1. 0 \in 0..MaxMessages
      OBVIOUS
    <3>2. NoCall \in Callings
      BY <3>1, NoRowIs DEF NoCall, Callings
    <3> QED BY <3>2
  <2>3. h' = [h EXCEPT !.call = c, !.gone = G]
    BY <1>2, <2>1, <2>2
  <2> QED BY <2>1, <2>2, <2>3 DEF Types, Works, SameReads
<1>6. /\ t'.rows = [t.rows EXCEPT ![i] = NoRow] /\ t'.deferred = [t.deferred EXCEPT ![i] = NoPatch]
      /\ t'.hidden = t.hidden \cup {i} /\ t'.older = t.older /\ t'.pending = t.pending
      /\ t' \in Transcripts
  <2>1. PICK R \in [Ids -> AnyRow] : R = [t.rows EXCEPT ![i] = NoRow]
    BY <1>4, NoRowIs
  <2>2. PICK D \in [Ids -> Patches] : D = [t.deferred EXCEPT ![i] = NoPatch]
    BY <1>4, NoRowIs
  <2>3. t' = [t EXCEPT !.hidden = @ \cup {i}, !.rows = R, !.deferred = D,
                       !.reacting = @ \ {i}, !.deleting = @ \ {i}]
    <3>1. [t EXCEPT !.hidden = @ \cup {i}, !.rows[i] = NoRow, !.deferred[i] = NoPatch,
                    !.reacting = @ \ {i}, !.deleting = @ \ {i}]
          = [t EXCEPT !.hidden = @ \cup {i}, !.rows = R, !.deferred = D,
                      !.reacting = @ \ {i}, !.deleting = @ \ {i}]
      BY <2>1, <2>2 DEF Types, Transcripts
    <3> QED BY <1>2, <3>1 DEF Hide
  <2> QED BY <1>3, <2>1, <2>2, <2>3 DEF Types, Transcripts
<1>7. /\ t'.rows[i] = NoRow /\ t'.deferred[i] = NoPatch
      /\ \A j \in Ids : j # i => t'.rows[j] = t.rows[j] /\ t'.deferred[j] = t.deferred[j]
  BY <1>3, <1>4, <1>6
<1>8. Types'
  BY <1>2, <1>5, <1>6 DEF Types, feedVars
<1>9. CallSound'
  BY <1>2, <1>5, CallKept DEF Copies
<1>10. Screen'
  <2>1. HiddenAway(t')
    BY <1>4, <1>6, <1>7 DEF Screen, HiddenAway
  <2>2. PendingAlone(t')
    BY <1>6, <1>7 DEF Screen, PendingAlone, Known
  <2>3. OwnPosted' = OwnPosted
    BY <1>2 DEF OwnPosted, Posted
  <2>4. h'.call.kind = "none"
    BY <1>5 DEF NoCall
  <2> QED BY <1>2, <1>3, <1>5, <1>6, <2>1, <2>2, <2>3, <2>4 DEF Screen, Sends, feedVars
<1>11. TranscriptOf(t', srv.rows)
  <2>1. srv.rows[i] \in AnyRow
    BY <1>3 DEF Types, Servers
  <2> QED BY <1>7, <2>1, NoPatchOf DEF Copies, TranscriptOf, Known
<1>12. Gains
  <2>1. \A j \in Visible : j \in Ids /\ j # i
    BY <1>3 DEF Visible, Posted, Ids, Types, Servers
  <2> QED BY <1>2, <1>7, <2>1 DEF Gains, Has, HasLast, Known
<1> QED BY <1>2, <1>5, <1>6, <1>8, <1>9, <1>10, <1>11, <1>12, SameWire, QuietStep

LEMMA CallReturning ==
  ASSUME TranscriptInv, h.call.kind # "hide", CallReturns
  PROVE  h' = [h EXCEPT !.call = NoCall] /\ t' \in Transcripts /\ Advanced(t, t', srv.rows)
<1> USE DEF TranscriptInv
<1>1. PICK i, row : i = h.call.id /\ row = h.call.row
  OBVIOUS
<1>2. h' = [h EXCEPT !.call = NoCall]
  <2>1. h' = [h EXCEPT !.call = NoCall, !.gone = h.gone]
    BY DEF CallReturns
  <2>2. [h EXCEPT !.call = NoCall, !.gone = h.gone] = [h EXCEPT !.call = NoCall]
    BY DEF Types, Works
  <2> QED BY <2>1, <2>2
<1>3. /\ row \in AnyRow /\ row.reacts \in Nat
      /\ h.call.kind \in {"none", "send", "resend", "react", "delete"} /\ h.call.state = "answered"
  BY <1>1 DEF Types, Works, Callings, AnyRow, CallReturns
<1>4. h.call.kind # "none"
  BY <1>3 DEF Copies, CallSound, NoCall
<1>5. /\ t \in Transcripts /\ srv.rows \in [Ids -> AnyRow] /\ TranscriptOf(t, srv.rows)
      /\ HiddenAway(t) /\ PendingAlone(t)
  BY DEF Types, Servers, Copies, Screen
<1>6. \A j \in Posted : j \in Ids
  BY DEF Posted, Ids, Types, Servers
<1>7. CASE h.call.kind \in Sends
  <2>1. PICK j : j = CHOOSE k \in OwnPosted : TRUE
    OBVIOUS
  <2>2. j \in OwnPosted /\ CopyOf(row, srv.rows[j])
    BY <1>1, <1>3, <1>7, <2>1 DEF Copies, CallSound
  <2>3. j \in Ids
    BY <1>6, <2>2 DEF OwnPosted
  <2>4. PICK page \in SUBSET (Ids \X AnyRow) : page = {<<j, row>>} /\ PageOf(page, srv.rows)
    BY <1>3, <1>5, <2>2, <2>3, OneRowPage
  <2>5. PICK q \in Transcripts : q = Merge(t, page, TRUE) /\ Advanced(t, q, srv.rows)
    BY <1>5, <2>4, MergeAdvances
  <2>6. PICK p \in Transcripts : p = [q EXCEPT !.pending = "none"] /\ Advanced(t, p, srv.rows)
    BY <1>5, <2>5, PendingCleared
  <2>7. t' = [Merge(t, {<<CHOOSE k \in OwnPosted : TRUE, h.call.row>>}, TRUE) EXCEPT !.pending = "none"]
    BY <1>7 DEF CallReturns, Sends
  <2>8. t' = p
    BY <1>1, <2>1, <2>4, <2>5, <2>6, <2>7
  <2> QED BY <1>2, <2>6, <2>8
<1>8. CASE h.call.kind = "react"
  <2>1. i \in Ids /\ MarkOf(row.reacts, srv.rows[i])
    BY <1>1, <1>3, <1>6, <1>8 DEF Copies, CallSound
  <2>2. t' = ReactionSettles(t, i, row.reacts)
    BY <1>1, <1>8 DEF CallReturns, Sends
  <2> QED BY <1>2, <1>3, <1>5, <2>1, <2>2, SettlingAdvances
<1>9. CASE h.call.kind = "delete"
  <2>1. i \in Ids /\ CopyOf(row, srv.rows[i]) /\ row.deleted
    BY <1>1, <1>3, <1>6, <1>9 DEF Copies, CallSound
  <2>2. t' = Deleted(t, i, row)
    BY <1>1, <1>9 DEF CallReturns, Sends
  <2> QED BY <1>2, <1>3, <1>5, <2>1, <2>2, DeletingAdvances
<1> QED BY <1>3, <1>4, <1>7, <1>8, <1>9 DEF Sends

LEMMA Returning ==
  ASSUME TranscriptInv, CallReturns
  PROVE  TranscriptInv'
<1>1. CASE h.call.kind = "hide"
  BY <1>1, Hiding
<1>2. CASE h.call.kind # "hide"
  <2>1. UNCHANGED <<feedVars, srv, wire>>
    BY DEF CallReturns
  <2> QED BY <1>2, <2>1, CallReturning, CallEnds
<1> QED BY <1>1, <1>2

-----------------------------------------------------------------------------
(* Steps of the server.                                                    *)

\* A row that fits: a new message, or a later change of one.
Fits(kind, i, row) ==
  /\ row.seq = Change
  /\ i \in Posted => row.sender = srv.rows[i].sender /\ (srv.rows[i].deleted => row.deleted)
  /\ i \notin Posted => /\ i = srv.count + 1 /\ kind = "message"
                        /\ row.sender = "own" => OwnPosted = {} /\ h.sent
  /\ kind = "reaction" => row.reacts = Change /\ ~row.deleted

\* The change has been made, and told to everybody who can see the message.
Committed(kind, i, row) ==
  /\ srv' \in Servers /\ srv'.hidden = srv.hidden /\ srv'.seq = Change
  /\ srv'.count = (IF i > srv.count THEN i ELSE srv.count)
  /\ srv'.rows[i] = row /\ \A j \in Ids : j # i => srv'.rows[j] = srv.rows[j]
  /\ wire \subseteq wire'
  /\ \A e \in wire' : e \in wire \/ (e \in Events /\ e.kind = kind /\ e.id = i /\ e.row = row)
  /\ i \notin srv.hidden => \E e \in wire' : e.kind = kind /\ e.id = i /\ e.row = row

LEMMA CommitIs ==
  ASSUME Types, NEW kind \in {"message", "deleted", "reaction"}, NEW i \in Ids, NEW row \in AnyRow,
         Commit(kind, i, row)
  PROVE  Committed(kind, i, row)
<1>1. srv \in Servers /\ srv.rows \in [Ids -> AnyRow] /\ srv.seq \in Nat /\ srv.count \in 0..MaxMessages
  BY DEF Types, Servers
<1>2. PICK n \in 0..MaxMessages : n = IF i > srv.count THEN i ELSE srv.count
  BY <1>1 DEF Ids
<1>3. PICK R \in [Ids -> AnyRow] : R = [srv.rows EXCEPT ![i] = row]
  BY <1>1
<1>4. PICK c \in Nat : c = Change
  BY <1>1 DEF Change
<1>5. srv' = [srv EXCEPT !.seq = c, !.rows = R, !.count = n]
  <2>1. [srv EXCEPT !.seq = Change, !.rows[i] = row, !.count = IF i > @ THEN i ELSE @]
        = [srv EXCEPT !.seq = c, !.rows = R, !.count = n]
    BY <1>1, <1>2, <1>3, <1>4 DEF Servers
  <2> QED BY <2>1 DEF Commit
<1>6. srv' \in Servers /\ srv'.hidden = srv.hidden /\ srv'.seq = c /\ srv'.count = n /\ srv'.rows = R
  BY <1>1, <1>5 DEF Servers
<1>7. R[i] = row /\ \A j \in Ids : j # i => R[j] = srv.rows[j]
  BY <1>1, <1>3
<1>8. PICK e : e = Event(kind, i, row)
  OBVIOUS
<1>9. e \in Events /\ e.kind = kind /\ e.id = i /\ e.row = row
  BY <1>8 DEF Event, Events
<1>10. wire' = IF i \in srv.hidden THEN wire ELSE wire \cup {e}
  BY <1>8 DEF Commit
<1> QED BY <1>2, <1>4, <1>6, <1>7, <1>9, <1>10 DEF Committed

\* A copy of a row stays a copy, and an earlier one, when the row changes.
LEMMA CopyAges ==
  ASSUME NEW x \in AnyRow, NEW y \in AnyRow, y.seq > x.seq,
         x.seq > 0 => y.sender = x.sender /\ (x.deleted => y.deleted)
  PROVE  /\ \A r \in AnyRow : CopyOf(r, x) => CopyOf(r, y) /\ r.seq < y.seq
         /\ \A c \in Nat : MarkOf(c, x) => MarkOf(c, y)
         /\ \A d \in Patches : PatchOf(d, x) => PatchOf(d, y)
<1>1. \A r \in AnyRow : CopyOf(r, x) => CopyOf(r, y) /\ r.seq < y.seq
  BY DEF CopyOf, AnyRow
<1>2. \A c \in Nat : MarkOf(c, x) => MarkOf(c, y)
  BY DEF MarkOf, AnyRow
<1> QED BY <1>1, <1>2 DEF PatchOf, Patches

LEMMA CommitGrows ==
  ASSUME Types, Copies, NEW kind \in {"message", "deleted", "reaction"}, NEW i \in Ids,
         NEW row \in AnyRow, Committed(kind, i, row), Fits(kind, i, row)
  PROVE  /\ \A j \in Ids, r \in AnyRow : CopyOf(r, srv.rows[j]) => CopyOf(r, srv'.rows[j])
         /\ \A j \in Ids, c \in Nat : MarkOf(c, srv.rows[j]) => MarkOf(c, srv'.rows[j])
         /\ \A j \in Ids, d \in Patches : PatchOf(d, srv.rows[j]) => PatchOf(d, srv'.rows[j])
         /\ CopyOf(row, srv'.rows[i])
         /\ i \notin Posted => srv.rows[i].seq = 0
         /\ \A j : j \in Posted' <=> j \in Posted \/ j = i
         /\ \A j : j \in OwnPosted' <=> j \in OwnPosted \/ (i \notin Posted /\ j = i /\ row.sender = "own")
<1>1. /\ \A j \in Ids : srv.rows[j] \in AnyRow /\ srv.rows[j].seq \in Nat
      /\ srv.seq \in Nat /\ srv.count \in 0..MaxMessages /\ row.seq \in Nat
  BY DEF Types, Servers, AnyRow
<1>2. i \notin Posted => srv.rows[i].seq = 0
  BY <1>1 DEF Copies, ServerSound
<1>3. srv'.rows[i] = row /\ \A j \in Ids : j # i => srv'.rows[j] = srv.rows[j]
  BY DEF Committed
<1>4. row.seq > srv.rows[i].seq /\ row.seq > 0
  BY <1>1 DEF Fits, Change, Copies, ServerSound
<1>5. srv.rows[i].seq > 0 => row.sender = srv.rows[i].sender /\ (srv.rows[i].deleted => row.deleted)
  BY <1>1, <1>2 DEF Fits
<1>6. /\ \A r \in AnyRow : CopyOf(r, srv.rows[i]) => CopyOf(r, row)
      /\ \A c \in Nat : MarkOf(c, srv.rows[i]) => MarkOf(c, row)
      /\ \A d \in Patches : PatchOf(d, srv.rows[i]) => PatchOf(d, row)
  BY <1>1, <1>4, <1>5, CopyAges
<1>7. CopyOf(row, srv'.rows[i])
  BY <1>1, <1>3, <1>4 DEF CopyOf
<1>8. \A j : j \in Posted' <=> j \in Posted \/ j = i
  <2>1. Posted = 1..srv.count /\ Posted' = 1..srv'.count /\ i \in Nat /\ i > 0
    BY DEF Posted, Ids
  <2>2. srv'.count = IF i > srv.count THEN i ELSE srv.count
    BY DEF Committed
  <2>3. i \notin Posted => i = srv.count + 1
    BY DEF Fits
  <2> QED BY <1>1, <2>1, <2>2, <2>3
<1>9. \A j : j \in OwnPosted' <=> j \in OwnPosted \/ (i \notin Posted /\ j = i /\ row.sender = "own")
  <2>1. \A j : j \in OwnPosted' <=> j \in Posted' /\ srv'.rows[j].sender = "own"
    BY DEF OwnPosted
  <2>2. \A j : j \in OwnPosted <=> j \in Posted /\ srv.rows[j].sender = "own"
    BY DEF OwnPosted
  <2>3. \A j \in Posted : j \in Ids
    BY DEF Posted, Ids, Types, Servers
  <2>4. i \in Posted => row.sender = srv.rows[i].sender
    BY DEF Fits
  <2> QED BY <1>3, <1>8, <2>1, <2>2, <2>3, <2>4
<1>10. \A j \in Ids, r \in AnyRow : CopyOf(r, srv.rows[j]) => CopyOf(r, srv'.rows[j])
  BY <1>3, <1>6
<1>11. \A j \in Ids, c \in Nat : MarkOf(c, srv.rows[j]) => MarkOf(c, srv'.rows[j])
  BY <1>3, <1>6
<1>12. \A j \in Ids, d \in Patches : PatchOf(d, srv.rows[j]) => PatchOf(d, srv'.rows[j])
  BY <1>3, <1>6
<1> QED BY <1>2, <1>7, <1>8, <1>9, <1>10, <1>11, <1>12

\* Of a page, a row of a message that has not changed is as good as before, and
\* one of the change is not in it.
LEMMA PageBehind ==
  ASSUME Types, Copies, NEW k \in ReadKinds
  PROVE  /\ Last(h.reads[k].page) <= srv.count /\ Cursor(h.reads[k].page) <= srv.seq
         /\ Last(h.reads[k].page) \in Nat /\ Cursor(h.reads[k].page) \in Nat
         /\ \A p \in h.reads[k].page : p[1] \in Posted /\ p[2].seq <= srv.seq /\ p[2].seq > 0
<1>1. PICK page \in AnyPage : page = h.reads[k].page
  BY DEF Types, Works, Reads, AnyPage
<1>2. /\ srv.seq \in Nat /\ srv.count \in 0..MaxMessages
      /\ \A j \in Ids : srv.rows[j] \in AnyRow /\ srv.rows[j].seq \in Nat /\ srv.rows[j].seq <= srv.seq
  BY DEF Types, Servers, AnyRow, Copies, ServerSound
<1>3. ASSUME NEW p \in page
      PROVE  /\ p[1] \in Ids /\ p[2].seq \in Nat /\ p[1] \in Posted
             /\ p[2].seq <= srv.seq /\ p[2].seq > 0
  <2>1. /\ p[1] \in Ids /\ p[2] \in AnyRow /\ p[2].seq \in Nat
    BY DEF AnyPage, AnyRow
  <2>2. CopyOf(p[2], srv.rows[p[1]])
    BY <1>1 DEF Copies, PageOf
  <2>3. p[2].seq > 0 /\ p[2].seq <= srv.rows[p[1]].seq
    BY <2>2 DEF CopyOf
  <2>4. srv.rows[p[1]].seq > 0 /\ srv.rows[p[1]].seq <= srv.seq
    BY <1>2, <2>1, <2>3
  <2>5. p[1] \in Posted
    BY <2>1, <2>4 DEF Copies, ServerSound
  <2> QED BY <1>2, <2>1, <2>3, <2>4, <2>5
<1>4. Cursor(page) \in 0..srv.seq
  BY <1>2, <1>3, CursorIs
<1>5. Last(page) \in 0..MaxMessages /\ Last(page) <= srv.count
  <2>1. /\ Last(page) \in 0..MaxMessages /\ (page = {} => Last(page) = 0)
        /\ (page # {} => \E p \in page : p[1] = Last(page))
    BY LastIs
  <2>2. CASE page = {}
    BY <1>2, <2>1, <2>2
  <2>3. CASE page # {}
    BY <1>2, <1>3, <2>1, <2>3 DEF Posted
  <2> QED BY <2>2, <2>3
<1> QED BY <1>1, <1>2, <1>3, <1>4, <1>5

\* A change is committed; the hook's reads and the transcript stay.
LEMMA Committing ==
  ASSUME TranscriptInv, NEW kind \in {"message", "deleted", "reaction"}, NEW i \in Ids,
         NEW row \in AnyRow, Commit(kind, i, row), Fits(kind, i, row),
         UNCHANGED feedVars, t' = t, h' \in Works, SameReads, h'.gone = h.gone, h'.sent = h.sent,
         h'.call.kind = h.call.kind, CallSound'
  PROVE  TranscriptInv'
<1> USE DEF TranscriptInv
<1>1. Committed(kind, i, row)
  BY CommitIs
<1>2. /\ \A j \in Ids, r \in AnyRow : CopyOf(r, srv.rows[j]) => CopyOf(r, srv'.rows[j])
      /\ \A j \in Ids, c \in Nat : MarkOf(c, srv.rows[j]) => MarkOf(c, srv'.rows[j])
      /\ \A j \in Ids, d \in Patches : PatchOf(d, srv.rows[j]) => PatchOf(d, srv'.rows[j])
      /\ CopyOf(row, srv'.rows[i])
      /\ i \notin Posted => srv.rows[i].seq = 0
      /\ \A j : j \in Posted' <=> j \in Posted \/ j = i
      /\ \A j : j \in OwnPosted' <=> j \in OwnPosted \/ (i \notin Posted /\ j = i /\ row.sender = "own")
  BY <1>1, CommitGrows
<1>3. /\ srv'.hidden = srv.hidden /\ srv'.seq = srv.seq + 1 /\ srv'.count >= srv.count
      /\ srv'.rows[i] = row /\ (\A j \in Ids : j # i => srv'.rows[j] = srv.rows[j])
      /\ srv.seq \in Nat /\ srv.count \in Nat /\ srv' \in Servers
      /\ i \notin Posted => i > srv.count
      /\ row.seq = srv.seq + 1 /\ row.seq \in Nat
  BY <1>1 DEF Committed, Change, Types, Servers, Fits, AnyRow
<1>4. \A j \in Visible' : j \in Ids /\ j \notin srv.hidden /\ (j # i => j \in Visible /\ srv'.rows[j] = srv.rows[j])
  <2>1. \A j \in Posted : j \in Ids
    BY DEF Posted, Ids, Types, Servers
  <2> QED BY <1>2, <1>3, <2>1 DEF Visible
<1>5. wire' \subseteq Events /\ wire \subseteq wire'
  BY <1>1 DEF Committed, Types
<1>6. Types'
  BY <1>3, <1>5 DEF Types, feedVars
<1>7. ServerSound'
  <2>1. \A j \in Ids : j \in Posted' <=> srv'.rows[j].seq > 0
    BY <1>2, <1>3 DEF Copies, ServerSound
  <2>2. \A j \in Ids : srv'.rows[j].seq <= srv'.seq
    <3>1. \A j \in Ids : srv.rows[j].seq <= srv.seq /\ srv.rows[j].seq \in Nat
      BY DEF Copies, ServerSound, Types, Servers, AnyRow
    <3> QED BY <1>3, <3>1
  <2>3. \A j, l \in OwnPosted' : j = l
    BY <1>2 DEF Copies, ServerSound, Fits
  <2> QED BY <2>1, <2>2, <2>3 DEF ServerSound
<1>8. Copies'
  <2>1. TranscriptOf(t', srv'.rows)
    BY <1>2 DEF Copies, TranscriptOf, Types, Transcripts
  <2>2. \A e \in wire' : EventOf(e, srv'.rows)
    <3>1. \A e \in wire : EventOf(e, srv'.rows)
      BY <1>2 DEF Copies, EventOf, Types, Events, AnyRow
    <3>2. ASSUME NEW e \in wire', e.kind = kind, e.id = i, e.row = row PROVE EventOf(e, srv'.rows)
      <4>1. kind = "reaction" => row.reacts = row.seq /\ ~row.deleted
        BY DEF Fits
      <4> QED BY <1>2, <1>3, <3>2, <4>1 DEF EventOf, MarkOf
    <3> QED BY <1>1, <3>1, <3>2 DEF Committed
  <2>3. \A k \in ReadKinds : PageOf(h'.reads[k].page, srv'.rows)
    <3>1. \A k \in ReadKinds : \A p \in h.reads[k].page : p[1] \in Ids /\ p[2] \in AnyRow
      BY DEF Types, Works, Reads
    <3> QED BY <1>2, <3>1 DEF Copies, PageOf, SameReads
  <2> QED BY <1>7, <2>1, <2>2, <2>3 DEF Copies
<1>9. Screen'
  <2>1. HiddenAway(t') /\ PendingAlone(t') /\ t'.hidden \subseteq srv'.hidden
    BY <1>3 DEF Screen
  <2>2. feed' # "shut" /\ ~h'.sent => OwnPosted' = {}
    BY <1>2 DEF Screen, Fits, feedVars
  <2> QED BY <2>1, <2>2 DEF Screen
<1>10. Hook'
  <2>1. ReadsInTurn'
    BY DEF Hook, ReadsInTurn, SameReads
  <2>2. h.base.latest \in Nat /\ h.base.cursor \in Nat /\ t.older \in Nat /\ srv'.count \in Nat
    BY <1>3 DEF Types, Works, Bases, Transcripts, Servers
  <2>3. h.base.latest <= srv'.count /\ h.base.cursor <= srv'.seq /\ t.older <= srv'.count
    BY <1>3, <2>2 DEF Hook, Turns
  <2>4. Turns'
    BY <2>3 DEF Hook, Turns, SameReads, feedVars
  <2> QED BY <2>1, <2>4 DEF Hook
\* A page says nothing of the change.
<1>11. ASSUME NEW k \in ReadKinds
       PROVE  /\ i \notin Posted => i > Last(h.reads[k].page)
              /\ row.seq > Cursor(h.reads[k].page)
              /\ \A j \in Ids : j # i /\ Brings(h.reads[k], j) => Brings(h.reads[k], j)'
  <2>1. \A j \in Ids : j # i /\ Brings(h.reads[k], j) => Brings(h.reads[k], j)'
    BY <1>3 DEF Brings, SameReads
  <2>2. /\ Last(h.reads[k].page) <= srv.count /\ Cursor(h.reads[k].page) <= srv.seq
        /\ Last(h.reads[k].page) \in Nat /\ Cursor(h.reads[k].page) \in Nat
    BY PageBehind
  <2>3. i \in Nat
    BY DEF Ids
  <2> QED BY <1>3, <2>1, <2>2, <2>3
<1>12. "initial" \in ReadKinds /\ "older" \in ReadKinds /\ "run" \in ReadKinds
  BY DEF ReadKinds
<1>13. ASSUME NEW k \in ReadKinds, HistoryEnds(h.reads[k]) PROVE HistoryEnds(h.reads[k])'
  <2>1. PICK r : r = h.reads[k] /\ r = h'.reads[k]
    BY DEF SameReads
  <2>2. ASSUME NEW j \in Visible', Oldest(r) <= j
        PROVE  /\ j <= Last(r.page) => InPage(r, j)
               /\ srv'.rows[j].seq <= Cursor(r.page) => Brings(r, j)'
    <3>1. CASE j # i
      <4>1. j \in Visible /\ j \in Ids /\ srv'.rows[j] = srv.rows[j]
        BY <1>4, <3>1
      <4> QED BY <1>11, <1>13, <2>1, <2>2, <3>1, <4>1 DEF HistoryEnds
    <3>2. CASE j = i
      <4>1. ~(srv'.rows[j].seq <= Cursor(r.page))
        <5>1. Cursor(r.page) \in Nat
          BY <2>1, PageBehind, Zenon
        <5>2. row.seq > Cursor(r.page)
          BY <1>11, <2>1, Zenon
        <5> QED BY <1>3, <3>2, <5>1, <5>2
      <4>2. CASE i \in Posted
        <5>1. i \in Visible
          BY <1>4, <3>2, <4>2 DEF Visible
        <5> QED BY <1>13, <2>1, <2>2, <3>2, <4>1, <5>1 DEF HistoryEnds
      <4>3. CASE i \notin Posted
        <5>1. Last(r.page) \in Nat
          BY <2>1, PageBehind, Zenon
        <5>2. i > Last(r.page)
          BY <1>11, <2>1, <4>3, Zenon
        <5> QED BY <3>2, <4>1, <5>1, <5>2 DEF Ids
      <4> QED BY <4>2, <4>3
    <3> QED BY <3>1, <3>2
  <2>3. r.more => r.page # {}
    BY <1>13, <2>1 DEF HistoryEnds
  <2>4. HistoryEnds(r)'
    BY <2>2, <2>3 DEF HistoryEnds, Oldest, Last, Cursor, InPage
  <2> QED BY <2>1, <2>4
<1>14. Pages'
  <2>1. h.reads["initial"].state = "answered" => HistoryEnds(h.reads["initial"])'
    BY <1>12, <1>13 DEF Pages
  <2>2. ASSUME h.reads["older"].state = "answered"
        PROVE  /\ h.reads["older"].more => h.reads["older"].page # {}
               /\ \A j \in Visible' : Oldest(h.reads["older"]) <= j /\ j < t.older => InPage(h.reads["older"], j)
    <3>1. t.older <= srv.count /\ t.older \in Nat
      BY DEF Hook, Turns, Types, Transcripts
    <3>2. \A j \in Visible' : j < t.older => j \in Visible
      BY <1>2, <1>3, <1>4, <3>1 DEF Visible, Ids
    <3> QED BY <2>2, <3>2 DEF Pages
  <2>3. ASSUME h.reads["run"].state = "answered", h.phase = "first"
        PROVE  HistoryEnds(h.reads["run"])'
    BY <1>12, <1>13, <2>3 DEF Pages
  <2>4. ASSUME h.reads["run"].state = "answered", h.phase = "gap", NEW j \in Visible',
               h.base.latest < j, j <= Last(h.reads["run"].page)
        PROVE  InPage(h.reads["run"], j)
    <3>1. Last(h.reads["run"].page) \in Nat /\ Last(h.reads["run"].page) <= srv.count
      BY <1>12, PageBehind
    <3>2. j \in Visible
      BY <1>3, <1>4, <2>4, <1>2, <3>1 DEF Visible, Ids
    <3> QED BY <2>4, <3>2 DEF Pages
  <2>5. ASSUME h.reads["run"].state = "answered", h.phase = "update", NEW j \in Visible',
               h.base.cursor < srv'.rows[j].seq, srv'.rows[j].seq <= Cursor(h.reads["run"].page)
        PROVE  Brings(h.reads["run"], j)'
    <3>1. Cursor(h.reads["run"].page) \in Nat /\ row.seq > Cursor(h.reads["run"].page)
      BY <1>11, <1>12, PageBehind
    <3>2. j # i
      BY <1>3, <2>5, <3>1
    <3>3. j \in Visible /\ j \in Ids /\ srv'.rows[j] = srv.rows[j]
      BY <1>4, <3>2
    <3> QED BY <1>11, <1>12, <2>5, <3>2, <3>3 DEF Pages
  <2>6. \A r : Oldest(r)' = Oldest(r) /\ Last(r.page)' = Last(r.page) /\ Cursor(r.page)' = Cursor(r.page)
    BY DEF Oldest, Last, Cursor
  <2>7. h'.reads = h.reads /\ h'.phase = h.phase /\ h'.base = h.base
    BY DEF SameReads
  <2> QED BY <2>1, <2>2, <2>3, <2>4, <2>5, <2>6, <2>7, Zenon DEF Pages, InPage
<1>15. Floor'
  <2>1. h.base.latest \in Nat /\ h.base.cursor \in Nat /\ h.base.latest <= srv.count /\ h.base.cursor <= srv.seq
    BY DEF Hook, Turns, Types, Works, Bases
  <2>2. ASSUME NEW j \in Visible', t.older <= j, j <= h.base.latest PROVE Known(t.rows, j)
    <3>1. j \in Visible
      BY <1>2, <1>3, <1>4, <2>1, <2>2 DEF Visible, Ids
    <3> QED BY <2>2, <3>1 DEF Floor
  <2>3. ASSUME NEW j \in Visible', srv'.rows[j].seq <= h.base.cursor
        PROVE  /\ t.older <= j => Has(j)'
               /\ InPage(h.reads["older"], j) => Has(j)' \/ Brings(h.reads["older"], j)'
    <3>1. j # i
      BY <1>3, <2>1, <2>3
    <3>2. j \in Visible /\ j \in Ids /\ srv'.rows[j] = srv.rows[j]
      BY <1>4, <3>1
    <3> QED BY <1>11, <1>12, <2>3, <3>1, <3>2 DEF Floor, Has
  <2> QED BY <2>2, <2>3 DEF Floor, SameReads, InPage
<1>16. \A j \in Visible' : j = i => OnWire(j)' /\ (i \notin Posted => Announced(j)')
  <2>1. ASSUME i \in Visible' PROVE OnWire(i)' /\ (i \notin Posted => Announced(i)')
    <3>1. i \notin srv.hidden
      BY <1>4, <2>1
    <3>2. PICK e \in wire' : e.kind = kind /\ e.id = i /\ e.row = row
      BY <1>1, <3>1 DEF Committed
    <3> QED BY <1>3, <3>2 DEF OnWire, Announced, Fits
  <2> QED BY <2>1
<1>17. Promised'
  <2> SUFFICES ASSUME ~Owed', NEW j \in Visible'
               PROVE  /\ t.older <= j => Met(j)' /\ Coming(j)'
                      /\ InPage(h.reads["older"], j) => Coming(j)' \/ Brings(h.reads["older"], j)'
    BY DEF Promised, SameReads, InPage
  <2>1. ~Owed
    BY DEF Owed, SameReads, feedVars
  <2>2. Announced(j) => Announced(j)'
    BY <1>5 DEF Announced
  <2>3. RunFinds(j) => RunFinds(j)'
    BY DEF RunFinds, AskedRun, InPage, Oldest, SameReads
  <2>4. RunAsks => RunAsks'
    BY DEF RunAsks, AskedRun, SameReads
  <2>5. Met(j) => Met(j)'
    BY <2>2, <2>3 DEF Met
  <2>6. CASE j # i
    <3>1. j \in Visible /\ j \in Ids /\ srv'.rows[j] = srv.rows[j]
      BY <1>4, <2>6
    <3>2. OnWire(j) => OnWire(j)'
      BY <1>5, <3>1 DEF OnWire
    <3>3. Has(j) => Has(j)'
      BY <3>1 DEF Has
    <3>4. Coming(j) => Coming(j)'
      BY <1>11, <1>12, <2>4, <2>6, <3>1, <3>2, <3>3 DEF Coming
    <3> QED BY <1>11, <1>12, <2>1, <2>5, <2>6, <3>1, <3>4 DEF Promised
  <2>7. CASE j = i
    <3>1. Coming(j)' /\ (i \notin Posted => Met(j)')
      BY <1>16, <2>7 DEF Coming, Met
    <3>2. i \in Posted => i \in Visible
      BY <1>4, <2>7 DEF Visible
    <3> QED BY <2>1, <2>5, <2>7, <3>1, <3>2 DEF Promised
  <2> QED BY <2>6, <2>7
<1> QED BY <1>6, <1>8, <1>9, <1>10, <1>14, <1>15, <1>17

LEMMA NewRowIs ==
  ASSUME Types, NEW sender \in {"user", "ai", "own"}
  PROVE  /\ NewRow(sender) \in AnyRow /\ NewRow(sender).seq = Change
         /\ NewRow(sender).sender = sender /\ ~NewRow(sender).deleted
<1>1. PICK c \in Nat : c = Change
  BY DEF Change, Types, Servers
<1>2. PICK r : r = [NoRow EXCEPT !.seq = c, !.body = c, !.sender = sender]
  OBVIOUS
<1>3. r \in AnyRow /\ r.seq = c /\ r.sender = sender /\ ~r.deleted
  BY <1>2 DEF NoRow, AnyRow
<1> QED BY <1>1, <1>2, <1>3 DEF NewRow

LEMMA ChangedRowIs ==
  ASSUME Types, NEW i \in Ids
  PROVE  /\ Redrafted(i) \in AnyRow /\ Redrafted(i).seq = Change
         /\ Redrafted(i).sender = srv.rows[i].sender /\ Redrafted(i).deleted = srv.rows[i].deleted
         /\ Reacted(i) \in AnyRow /\ Reacted(i).seq = Change /\ Reacted(i).reacts = Change
         /\ Reacted(i).sender = srv.rows[i].sender /\ Reacted(i).deleted = srv.rows[i].deleted
         /\ Tombstone(i) \in AnyRow /\ Tombstone(i).seq = Change
         /\ Tombstone(i).sender = srv.rows[i].sender /\ Tombstone(i).deleted
<1>1. PICK c \in Nat : c = Change
  BY DEF Change, Types, Servers
<1>2. PICK x \in AnyRow : x = srv.rows[i]
  BY DEF Types, Servers
<1>3. PICK r : r = [x EXCEPT !.seq = c, !.body = c]
  OBVIOUS
<1>4. r \in AnyRow /\ r.seq = c /\ r.sender = x.sender /\ r.deleted = x.deleted
  BY <1>3 DEF AnyRow
<1>5. PICK q : q = [x EXCEPT !.seq = c, !.reacts = c]
  OBVIOUS
<1>6. q \in AnyRow /\ q.seq = c /\ q.reacts = c /\ q.sender = x.sender /\ q.deleted = x.deleted
  BY <1>5 DEF AnyRow
<1>7. PICK z : z = [x EXCEPT !.seq = c, !.body = c, !.reacts = 0, !.deleted = TRUE]
  OBVIOUS
<1>8. z \in AnyRow /\ z.seq = c /\ z.sender = x.sender /\ z.deleted
  BY <1>7 DEF AnyRow
<1>9. r = Redrafted(i) /\ q = Reacted(i) /\ z = Tombstone(i)
  BY <1>1, <1>2, <1>3, <1>5, <1>7 DEF Redrafted, Reacted, Tombstone
<1> QED BY <1>1, <1>2, <1>4, <1>6, <1>8, <1>9

LEMMA NewFits ==
  ASSUME Types, srv.count < MaxMessages, NEW sender \in {"user", "ai", "own"},
         sender = "own" => OwnPosted = {} /\ h.sent
  PROVE  /\ srv.count + 1 \in Ids /\ srv.count + 1 \notin Posted
         /\ Fits("message", srv.count + 1, NewRow(sender))
<1>1. srv.count \in 0..MaxMessages
  BY DEF Types, Servers
<1>2. srv.count + 1 \in Ids /\ srv.count + 1 \notin Posted
  BY <1>1 DEF Ids, Posted
<1> QED BY <1>2, NewRowIs DEF Fits

\* A change by somebody else leaves what a call has been answered sound.
LEMMA CallOutlives ==
  ASSUME Types, Copies, NEW kind \in {"message", "deleted", "reaction"}, NEW i \in Ids,
         NEW row \in AnyRow, Commit(kind, i, row), Fits(kind, i, row), h' = h,
         i \notin Posted => row.sender # "own"
  PROVE  CallSound'
<1>1. Committed(kind, i, row)
  BY CommitIs
<1>2. /\ \A j \in Ids, r \in AnyRow : CopyOf(r, srv.rows[j]) => CopyOf(r, srv'.rows[j])
      /\ \A j \in Ids, c \in Nat : MarkOf(c, srv.rows[j]) => MarkOf(c, srv'.rows[j])
      /\ \A j : j \in Posted' <=> j \in Posted \/ j = i
      /\ \A j : j \in OwnPosted' <=> j \in OwnPosted
  BY <1>1, CommitGrows
<1>3. /\ h.call.row \in AnyRow /\ h.call.row.reacts \in Nat
      /\ h.call.kind \in {"none", "send", "resend", "react", "delete", "hide"}
  BY DEF Types, Works, Callings, AnyRow
<1>4. /\ \A j \in Posted : j \in Ids
      /\ OwnPosted \subseteq Posted /\ srv'.hidden = srv.hidden
  BY <1>1 DEF Posted, Ids, Types, Servers, OwnPosted, Committed
<1>5. h.call.kind \in {"react", "delete", "hide"} => h.call.id \in Posted'
  BY <1>2 DEF Copies, CallSound
<1>6. ASSUME h.call.state = "answered", h.call.kind \in Sends
      PROVE  OwnPosted' # {} /\ \A j \in OwnPosted' : CopyOf(h.call.row, srv'.rows[j])
  <2>1. OwnPosted # {} /\ \A j \in OwnPosted : CopyOf(h.call.row, srv.rows[j])
    BY <1>6 DEF Copies, CallSound
  <2> QED BY <1>2, <1>3, <1>4, <2>1
<1>7. ASSUME h.call.state = "answered", h.call.kind \in {"react", "delete"}
      PROVE  CopyOf(h.call.row, srv'.rows[h.call.id])
  BY <1>2, <1>3, <1>4, <1>7 DEF Copies, CallSound
<1>8. ASSUME h.call.state = "answered", h.call.kind = "react"
      PROVE  MarkOf(h.call.row.reacts, srv'.rows[h.call.id])
  BY <1>2, <1>3, <1>4, <1>8 DEF Copies, CallSound
<1>9. h'.call = h.call
  OBVIOUS
<1> QED BY <1>4, <1>5, <1>6, <1>7, <1>8, <1>9 DEF Copies, CallSound

LEMMA OthersChanging ==
  ASSUME TranscriptInv, OthersChange
  PROVE  TranscriptInv'
<1> USE DEF TranscriptInv
<1>1. UNCHANGED feedVars /\ t' = t /\ h' = h /\ h' \in Works /\ SameReads
  BY DEF OthersChange, Types, SameReads
<1>2. ASSUME NEW kind \in {"message", "deleted", "reaction"}, NEW i \in Ids,
             NEW row \in AnyRow, Commit(kind, i, row), Fits(kind, i, row),
             i \notin Posted => row.sender # "own"
      PROVE  TranscriptInv'
  <2>1. CallSound'
    BY <1>1, <1>2, CallOutlives
  <2> QED BY <1>1, <1>2, <2>1, Committing
<1>3. CASE /\ srv.count < MaxMessages
           /\ \E sender \in {"user", "ai"} : Commit("message", srv.count + 1, NewRow(sender))
  <2>1. PICK sender \in {"user", "ai"} : Commit("message", srv.count + 1, NewRow(sender))
    BY <1>3
  <2>2. /\ srv.count + 1 \in Ids /\ Fits("message", srv.count + 1, NewRow(sender))
        /\ NewRow(sender) \in AnyRow /\ NewRow(sender).sender # "own"
    BY <1>3, NewFits, NewRowIs
  <2> QED BY <1>2, <2>1, <2>2
<1>4. ASSUME NEW i \in Posted,
             \/ Commit("message", i, Redrafted(i))
             \/ ~srv.rows[i].deleted /\ Commit("reaction", i, Reacted(i))
             \/ ~srv.rows[i].deleted /\ Commit("deleted", i, Tombstone(i))
      PROVE  TranscriptInv'
  <2>1. i \in Ids
    BY DEF Posted, Ids, Types, Servers
  <2>2. CASE Commit("message", i, Redrafted(i))
    <3>1. Redrafted(i) \in AnyRow /\ Fits("message", i, Redrafted(i))
      BY <2>1, ChangedRowIs DEF Fits
    <3> QED BY <1>2, <2>1, <2>2, <3>1
  <2>3. CASE ~srv.rows[i].deleted /\ Commit("reaction", i, Reacted(i))
    <3>1. Reacted(i) \in AnyRow /\ Fits("reaction", i, Reacted(i))
      BY <2>1, <2>3, ChangedRowIs DEF Fits
    <3> QED BY <1>2, <2>1, <2>3, <3>1
  <2>4. CASE ~srv.rows[i].deleted /\ Commit("deleted", i, Tombstone(i))
    <3>1. Tombstone(i) \in AnyRow /\ Fits("deleted", i, Tombstone(i))
      BY <2>1, <2>4, ChangedRowIs DEF Fits
    <3> QED BY <1>2, <2>1, <2>4, <3>1
  <2> QED BY <1>4, <2>2, <2>3, <2>4
<1> QED BY <1>3, <1>4 DEF OthersChange

LEMMA AnsweredIs ==
  ASSUME h \in Works, NEW row \in AnyRow, AnsweredWith(row)
  PROVE  /\ h' \in Works /\ SameReads /\ h'.gone = h.gone /\ h'.sent = h.sent
         /\ h'.call.state = "answered" /\ h'.call.kind = h.call.kind /\ h'.call.id = h.call.id
         /\ h'.call.row = row
<1>1. h.call \in Callings
  BY DEF Works
<1>2. PICK c : c = [h.call EXCEPT !.state = "answered", !.row = row]
  OBVIOUS
<1>3. c \in Callings /\ c.state = "answered" /\ c.kind = h.call.kind /\ c.id = h.call.id /\ c.row = row
  BY <1>1, <1>2 DEF Callings
<1>4. h' = [h EXCEPT !.call = c]
  <2>1. [h EXCEPT !.call.state = "answered", !.call.row = row] = [h EXCEPT !.call = c]
    BY <1>1, <1>2 DEF Works, Callings
  <2> QED BY <2>1 DEF AnsweredWith
<1> QED BY <1>3, <1>4 DEF Works, SameReads

\* The server answers without a change.
LEMMA Replaying ==
  ASSUME TranscriptInv, NEW row \in AnyRow, AnsweredWith(row), UNCHANGED <<feedVars, srv, wire, t>>,
         h.call.state = "asked", h.call.kind \in {"send", "resend", "delete"},
         h.call.kind \in Sends => OwnPosted # {} /\ \A j \in OwnPosted : CopyOf(row, srv.rows[j]),
         h.call.kind = "delete" => CopyOf(row, srv.rows[h.call.id]) /\ row.deleted
  PROVE  TranscriptInv'
<1> USE DEF TranscriptInv
<1>1. /\ h' \in Works /\ SameReads /\ h'.gone = h.gone /\ h'.sent = h.sent
      /\ h'.call.state = "answered" /\ h'.call.kind = h.call.kind /\ h'.call.id = h.call.id
      /\ h'.call.row = row
  BY AnsweredIs DEF Types
<1>2. Types'
  BY <1>1 DEF Types, feedVars
<1>3. OwnPosted' = OwnPosted /\ Posted' = Posted
  BY DEF OwnPosted, Posted
<1>4. CallSound'
  BY <1>1, <1>3 DEF Copies, CallSound, Sends
<1>5. Screen'
  BY <1>1, <1>3 DEF Screen, HiddenAway, PendingAlone, feedVars
<1>6. t'.older = t.older /\ TranscriptOf(t', srv.rows) /\ Gains
  BY SameGains DEF Copies
<1> QED BY <1>1, <1>2, <1>4, <1>5, <1>6, SameWire, QuietStep

\* A message is hidden for the user.
LEMMA Withdrawing ==
  ASSUME TranscriptInv, h.call.kind = "hide", h.call.state = "asked", NEW i, i = h.call.id,
         srv' = [srv EXCEPT !.hidden = @ \cup {i}], AnsweredWith(srv.rows[i]),
         UNCHANGED <<feedVars, wire, t>>
  PROVE  TranscriptInv'
<1> USE DEF TranscriptInv
<1>1. i \in Posted /\ i \in Ids
  <2>1. i \in Posted
    BY DEF Copies, CallSound
  <2> QED BY <2>1 DEF Posted, Ids, Types, Servers
<1>2. /\ h' \in Works /\ SameReads /\ h'.gone = h.gone /\ h'.sent = h.sent
      /\ h'.call.state = "answered" /\ h'.call.kind = "hide" /\ h'.call.id = i
  <2>1. srv.rows[i] \in AnyRow
    BY <1>1 DEF Types, Servers
  <2> QED BY <2>1, AnsweredIs DEF Types
<1>3. /\ srv' \in Servers /\ srv'.rows = srv.rows /\ srv'.count = srv.count /\ srv'.seq = srv.seq
      /\ srv'.hidden = srv.hidden \cup {i}
  <2>1. PICK H \in SUBSET Ids : H = srv.hidden \cup {i}
    BY <1>1 DEF Types, Servers
  <2> QED BY <2>1 DEF Types, Servers
<1>4. Posted' = Posted /\ OwnPosted' = OwnPosted /\ Visible' \subseteq Visible
  BY <1>3 DEF Posted, OwnPosted, Visible
<1>5. Types'
  BY <1>2, <1>3 DEF Types, feedVars
<1>6. Copies'
  <2>1. ServerSound'
    BY <1>3, <1>4 DEF Copies, ServerSound
  <2>2. CallSound'
    BY <1>1, <1>2, <1>3, <1>4 DEF CallSound, Sends
  <2> QED BY <1>2, <1>3, <2>1, <2>2 DEF Copies, SameReads
<1>7. Screen'
  BY <1>2, <1>3, <1>4 DEF Screen, HiddenAway, PendingAlone, Sends, feedVars
<1>8. Hook'
  BY <1>2, <1>3 DEF Hook, ReadsInTurn, Turns, SameReads, feedVars
<1>9. h'.reads = h.reads /\ h'.phase = h.phase /\ h'.base = h.base /\ t' = t
  BY <1>2 DEF SameReads
<1>10. \A r : Oldest(r)' = Oldest(r) /\ Last(r.page)' = Last(r.page) /\ Cursor(r.page)' = Cursor(r.page)
  BY DEF Oldest, Last, Cursor
<1>11. \A r, j : Brings(r, j)' <=> Brings(r, j)
  BY <1>3 DEF Brings
<1>12. \A r : HistoryEnds(r) => HistoryEnds(r)'
  BY <1>3, <1>4, <1>11, Zenon DEF HistoryEnds, InPage, Oldest, Last, Cursor
<1>13. Pages'
  <2>1. h.reads["initial"].state = "answered" => HistoryEnds(h.reads["initial"])'
    BY <1>9, <1>12 DEF Pages
  <2>2. ASSUME h.reads["older"].state = "answered"
        PROVE  /\ h.reads["older"].more => h.reads["older"].page # {}
               /\ \A j \in Visible' : Oldest(h.reads["older"]) <= j /\ j < t.older => InPage(h.reads["older"], j)
    BY <1>4, <2>2 DEF Pages
  <2>3. ASSUME h.reads["run"].state = "answered", h.phase = "first"
        PROVE  HistoryEnds(h.reads["run"])'
    BY <1>9, <1>12, <2>3 DEF Pages
  <2>4. ASSUME h.reads["run"].state = "answered", h.phase = "gap", NEW j \in Visible',
               h.base.latest < j, j <= Last(h.reads["run"].page)
        PROVE  InPage(h.reads["run"], j)
    BY <1>4, <2>4 DEF Pages
  <2>5. ASSUME h.reads["run"].state = "answered", h.phase = "update", NEW j \in Visible',
               h.base.cursor < srv'.rows[j].seq, srv'.rows[j].seq <= Cursor(h.reads["run"].page)
        PROVE  Brings(h.reads["run"], j)'
    <3>1. Brings(h.reads["run"], j)
      BY <1>3, <1>4, <2>5 DEF Pages
    <3> QED BY <1>3, <1>9, <3>1 DEF Brings
  <2> QED BY <1>9, <1>10, <2>1, <2>2, <2>3, <2>4, <2>5, Zenon DEF Pages, InPage
<1>14. \A j \in Visible' : (Has(j)' <=> Has(j)) /\ (Coming(j) => Coming(j)') /\ (Met(j) => Met(j)')
  <2>1. \A j : (Has(j)' <=> Has(j)) /\ (OnWire(j)' <=> OnWire(j)) /\ (Announced(j)' <=> Announced(j))
    BY <1>3 DEF Has, OnWire, Announced
  <2>2. \A j : (RunFinds(j)' <=> RunFinds(j)) /\ (RunAsks' <=> RunAsks)
    BY <1>9, Zenon DEF RunFinds, RunAsks, AskedRun, InPage, Oldest
  <2>3. \A j : Brings(h.reads["run"], j) => Brings(h.reads["run"], j)'
    BY <1>3, <1>9 DEF Brings
  <2> QED BY <2>1, <2>2, <2>3 DEF Coming, Met
<1>15. Floor'
  <2>1. \A j : Brings(h.reads["older"], j) => Brings(h.reads["older"], j)'
    BY <1>3, <1>9 DEF Brings
  <2> QED BY <1>3, <1>4, <1>9, <1>14, <2>1 DEF Floor, InPage
<1>16. Promised'
  <2>1. \A j : Brings(h.reads["older"], j) => Brings(h.reads["older"], j)'
    BY <1>3, <1>9 DEF Brings
  <2>2. ~Owed' => ~Owed
    BY <1>2 DEF Owed, SameReads, feedVars
  <2> QED BY <1>4, <1>9, <1>14, <2>1, <2>2 DEF Promised, InPage
<1> QED BY <1>5, <1>6, <1>7, <1>8, <1>13, <1>15, <1>16

LEMMA ServerMutating ==
  ASSUME TranscriptInv, ServerMutates
  PROVE  TranscriptInv'
<1> USE DEF TranscriptInv
<1>1. h.call.state = "asked" /\ UNCHANGED <<feedVars, t>>
  BY DEF ServerMutates
<1>2. h.call \in Callings /\ h \in Works /\ h.call.kind # "none"
  BY <1>1 DEF Types, Works, Copies, CallSound, NoCall
<1>3. PICK i : i = h.call.id
  OBVIOUS
<1>4. h.call.kind \in {"react", "delete", "hide"} => i \in Posted /\ i \in Ids
  <2>1. \A j \in Posted : j \in Ids
    BY DEF Posted, Ids, Types, Servers
  <2> QED BY <1>3, <2>1 DEF Copies, CallSound
<1>5. \A j \in Posted : j \in Ids /\ srv.rows[j] \in AnyRow /\ CopyOf(srv.rows[j], srv.rows[j])
  <2>1. \A j \in Posted : j \in Ids /\ srv.rows[j] \in AnyRow /\ srv.rows[j].seq \in Nat
    BY DEF Posted, Ids, Types, Servers, AnyRow
  <2> QED BY <2>1 DEF Copies, ServerSound, CopyOf
<1>6. CASE h.call.kind \in Sends /\ OwnPosted # {}
  <2>1. PICK j \in OwnPosted : AnsweredWith(srv.rows[j]) /\ UNCHANGED <<srv, wire>>
    BY <1>6 DEF ServerMutates, Sends
  <2>2. srv.rows[j] \in AnyRow /\ \A l \in OwnPosted : CopyOf(srv.rows[j], srv.rows[l])
    BY <1>5 DEF OwnPosted, Copies, ServerSound
  <2> QED BY <1>1, <1>6, <2>1, <2>2, Replaying DEF Sends
<1>7. CASE h.call.kind \in Sends /\ OwnPosted = {}
  <2>1. PICK j : j = srv.count + 1
    OBVIOUS
  <2>2. PICK row : row = NewRow("own")
    OBVIOUS
  <2>3. /\ srv.count < MaxMessages /\ Commit("message", j, row) /\ AnsweredWith(row)
    BY <1>7, <2>1, <2>2 DEF ServerMutates, Sends
  <2>4. /\ j \in Ids /\ j \notin Posted /\ Fits("message", j, row) /\ row \in AnyRow
        /\ row.sender = "own"
    BY <1>7, <2>1, <2>2, <2>3, NewFits, NewRowIs DEF Screen
  <2>5. Committed("message", j, row)
    BY <2>3, <2>4, CommitIs
  <2>6. /\ \A l : l \in OwnPosted' <=> l \in OwnPosted \/ l = j
        /\ CopyOf(row, srv'.rows[j])
    BY <2>4, <2>5, CommitGrows
  <2>7. /\ h' \in Works /\ SameReads /\ h'.gone = h.gone /\ h'.sent = h.sent
        /\ h'.call.state = "answered" /\ h'.call.kind = h.call.kind /\ h'.call.row = row
    BY <1>2, <2>3, <2>4, AnsweredIs
  <2>8. CallSound'
    BY <1>2, <1>7, <2>6, <2>7 DEF CallSound, Sends
  <2> QED BY <1>1, <2>3, <2>4, <2>7, <2>8, Committing
<1>8. ASSUME NEW kind \in {"reaction", "deleted"}, NEW row \in AnyRow, Commit(kind, i, row),
             AnsweredWith(row), Fits(kind, i, row),
             \/ h.call.kind = "react" /\ kind = "reaction"
             \/ h.call.kind = "delete" /\ row.deleted
      PROVE  TranscriptInv'
  <2>1. Committed(kind, i, row) /\ i \in Ids /\ i \in Posted
    BY <1>4, <1>8, CommitIs
  <2>2. /\ \A l : l \in Posted' <=> l \in Posted \/ l = i
        /\ CopyOf(row, srv'.rows[i])
    BY <1>8, <2>1, CommitGrows
  <2>3. /\ h' \in Works /\ SameReads /\ h'.gone = h.gone /\ h'.sent = h.sent
        /\ h'.call.state = "answered" /\ h'.call.kind = h.call.kind /\ h'.call.row = row
        /\ h'.call.id = i
    BY <1>2, <1>3, <1>8, AnsweredIs
  <2>4. h.call.kind = "react" => MarkOf(row.reacts, srv'.rows[i])
    <3>1. srv'.rows[i] = row /\ row.seq \in Nat
      BY <1>8, <2>1 DEF Committed, AnyRow
    <3> QED BY <1>8, <3>1 DEF Fits, MarkOf
  <2>5. CallSound'
    BY <1>8, <2>1, <2>2, <2>3, <2>4 DEF CallSound, Sends
  <2> QED BY <1>1, <1>8, <2>1, <2>3, <2>5, Committing
<1>9. CASE h.call.kind = "react"
  <2>1. ~srv.rows[i].deleted /\ Commit("reaction", i, Reacted(i)) /\ AnsweredWith(Reacted(i))
    BY <1>3, <1>9 DEF ServerMutates, Sends
  <2>2. Reacted(i) \in AnyRow /\ Fits("reaction", i, Reacted(i))
    BY <1>4, <1>9, <2>1, ChangedRowIs DEF Fits
  <2> QED BY <1>8, <1>9, <2>1, <2>2
<1>10. CASE h.call.kind = "delete"
  <2>1. CASE srv.rows[i].deleted
    <3>1. AnsweredWith(srv.rows[i]) /\ UNCHANGED <<srv, wire>>
      BY <1>3, <1>10, <2>1 DEF ServerMutates, Sends
    <3> QED BY <1>1, <1>3, <1>4, <1>5, <1>10, <2>1, <3>1, Replaying DEF Sends
  <2>2. CASE ~srv.rows[i].deleted
    <3>1. Commit("deleted", i, Tombstone(i)) /\ AnsweredWith(Tombstone(i))
      BY <1>3, <1>10, <2>2 DEF ServerMutates, Sends
    <3>2. /\ Tombstone(i) \in AnyRow /\ Fits("deleted", i, Tombstone(i)) /\ Tombstone(i).deleted
      BY <1>4, <1>10, ChangedRowIs DEF Fits
    <3> QED BY <1>8, <1>10, <3>1, <3>2
  <2> QED BY <2>1, <2>2
<1>11. CASE h.call.kind = "hide"
  <2>1. /\ srv' = [srv EXCEPT !.hidden = @ \cup {i}] /\ AnsweredWith(srv.rows[i]) /\ UNCHANGED wire
    BY <1>3, <1>11 DEF ServerMutates, Sends
  <2> QED BY <1>1, <1>3, <1>11, <2>1, Withdrawing
<1> QED BY <1>2, <1>6, <1>7, <1>9, <1>10, <1>11 DEF Callings, Sends

-----------------------------------------------------------------------------
(* The server's pages.                                                     *)

\* A page that holds rows as they are.
Fresh(r) ==
  /\ r.state = "answered" /\ OneRowEach(r.page) /\ (r.more => r.page # {})
  /\ \A p \in r.page : p[1] \in Visible /\ p[2] = srv.rows[p[1]]

LEMMA VisibleIs ==
  ASSUME Types, Copies
  PROVE  \A i \in Visible : /\ i \in Ids /\ i \in Posted /\ i \notin srv.hidden
                            /\ srv.rows[i] \in AnyRow /\ srv.rows[i].seq \in Nat
                            /\ srv.rows[i].seq > 0 /\ srv.rows[i].seq <= srv.seq
<1>1. \A i \in Visible : i \in Ids /\ i \in Posted /\ i \notin srv.hidden
  BY DEF Visible, Posted, Ids, Types, Servers
<1>2. \A i \in Ids : srv.rows[i] \in AnyRow /\ srv.rows[i].seq \in Nat
  BY DEF Types, Servers, AnyRow
<1> QED BY <1>1, <1>2 DEF Copies, ServerSound

LEMMA HistoryIs ==
  ASSUME Types, Copies, NEW before \in 0..MaxMessages
  PROVE  \E r \in Reads :
           /\ r = History(before) /\ Fresh(r)
           /\ \A i \in Visible : (before = 0 \/ i < before) =>
                /\ r.page # {}
                /\ Oldest(r) <= i => InPage(r, i) /\ Brings(r, i)
<1>1. PICK S : S = {i \in Visible : before = 0 \/ i < before}
  OBVIOUS
<1>2. PICK rank : rank = [i \in Ids |-> -i]
  OBVIOUS
<1>3. /\ S \in SUBSET Ids /\ S \in SUBSET Visible
      /\ \A i \in Visible : i \in S <=> (before = 0 \/ i < before)
  BY <1>1, VisibleIs
<1>4. \A i \in S : rank[i] \in Int /\ rank[i] + MaxMessages >= 0 /\ rank[i] = -i /\ i \in Nat
  BY <1>2, <1>3 DEF Ids
<1>5. srv \in Servers
  BY DEF Types
<1>6. PICK r \in Reads :
        /\ r = AnswerPage(S, rank) /\ r.state = "answered" /\ OneRowEach(r.page)
        /\ \A p \in r.page : p[1] \in S /\ p[2] = srv.rows[p[1]]
        /\ S # {} => r.page # {}
        /\ r.more => r.page # {}
        /\ r.more \/ \A i \in S : <<i, srv.rows[i]>> \in r.page
        /\ \A p \in r.page, j \in S : rank[j] <= rank[p[1]] => <<j, srv.rows[j]>> \in r.page
  BY <1>3, <1>4, <1>5, AnswerIs
<1>7. r = History(before)
  BY <1>1, <1>2, <1>6 DEF History
<1>8. Fresh(r)
  BY <1>3, <1>6 DEF Fresh
<1>9. ASSUME NEW i \in S, Oldest(r) <= i PROVE InPage(r, i) /\ Brings(r, i)
  <2>1. <<i, srv.rows[i]>> \in r.page
    <3>1. CASE ~r.more
      BY <1>6, <3>1
    <3>2. CASE r.more
      <4>1. PICK p \in r.page : p[1] = Oldest(r)
        BY <1>6, <3>2, OldestIs
      <4>2. p[1] \in S /\ p[1] <= i
        BY <1>6, <1>9, <4>1
      <4>3. rank[i] <= rank[p[1]]
        BY <1>4, <4>2
      <4> QED BY <1>6, <4>3
    <3> QED BY <3>1, <3>2
  <2>2. PICK p \in r.page : p = <<i, srv.rows[i]>>
    BY <2>1
  <2>3. p[1] = i /\ p[2] = srv.rows[i]
    BY <2>2
  <2> QED BY <2>3 DEF InPage, Brings
<1>10. \A i \in S : r.page # {}
  BY <1>6
<1> QED BY <1>3, <1>7, <1>8, <1>9, <1>10

LEMMA GapFillIs ==
  ASSUME Types, Copies, NEW since \in 0..MaxMessages
  PROVE  \E r \in Reads :
           /\ r = GapFill(since) /\ Fresh(r)
           /\ \A i \in Visible : since < i =>
                /\ r.more \/ InPage(r, i)
                /\ i <= Last(r.page) => InPage(r, i)
<1>1. PICK S : S = {i \in Visible : i > since}
  OBVIOUS
<1>2. PICK rank : rank = [i \in Ids |-> i]
  OBVIOUS
<1>3. /\ S \in SUBSET Ids /\ S \in SUBSET Visible
      /\ \A i \in Visible : since < i => i \in S
  BY <1>1, VisibleIs DEF Ids
<1>4. \A i \in S : rank[i] \in Int /\ rank[i] + MaxMessages >= 0 /\ rank[i] = i /\ i \in Nat /\ i > 0
  BY <1>2, <1>3 DEF Ids
<1>5. srv \in Servers /\ \A i \in S : rank[i] \in Int /\ rank[i] + MaxMessages >= 0
  BY <1>4 DEF Types
<1>6. PICK r \in Reads :
        /\ r = AnswerPage(S, rank) /\ r.state = "answered" /\ OneRowEach(r.page)
        /\ \A p \in r.page : p[1] \in S /\ p[2] = srv.rows[p[1]]
        /\ S # {} => r.page # {}
        /\ r.more => r.page # {}
        /\ r.more \/ \A i \in S : <<i, srv.rows[i]>> \in r.page
        /\ \A p \in r.page, j \in S : rank[j] <= rank[p[1]] => <<j, srv.rows[j]>> \in r.page
  BY <1>3, <1>5, AnswerIs
<1>7. r = GapFill(since)
  BY <1>1, <1>2, <1>6 DEF GapFill
<1>8. Fresh(r)
  BY <1>3, <1>6 DEF Fresh
<1>9. ASSUME NEW i \in S, ~r.more \/ i <= Last(r.page) PROVE InPage(r, i)
  <2>1. <<i, srv.rows[i]>> \in r.page
    <3>1. CASE ~r.more
      BY <1>6, <3>1
    <3>2. CASE i <= Last(r.page)
      <4>1. PICK page \in AnyPage : page = r.page
        BY DEF Reads, AnyPage
      <4>2. /\ page = {} => Last(page) = 0
            /\ page # {} => \E p \in page : p[1] = Last(page)
        BY LastIs
      <4>3. PICK p \in r.page : p[1] = Last(r.page)
        BY <1>4, <3>2, <4>1, <4>2
      <4>4. p[1] \in S /\ i <= p[1]
        BY <1>6, <3>2, <4>3
      <4>5. rank[i] <= rank[p[1]]
        BY <1>4, <4>4
      <4> QED BY <1>6, <4>5
    <3> QED BY <1>9, <3>1, <3>2
  <2>2. PICK p \in r.page : p = <<i, srv.rows[i]>>
    BY <2>1
  <2>3. p[1] = i
    BY <2>2
  <2> QED BY <2>3 DEF InPage
<1> QED BY <1>3, <1>7, <1>8, <1>9

LEMMA ChangedSinceIs ==
  ASSUME Types, Copies, NEW cursor \in Nat
  PROVE  \E r \in Reads :
           /\ r = ChangedSince(cursor) /\ Fresh(r)
           /\ \A i \in Visible : cursor < srv.rows[i].seq =>
                /\ r.more \/ Brings(r, i)
                /\ srv.rows[i].seq <= Cursor(r.page) => Brings(r, i)
<1>1. PICK S : S = {i \in Visible : srv.rows[i].seq > cursor}
  OBVIOUS
<1>2. PICK rank : rank = [i \in Ids |-> srv.rows[i].seq]
  OBVIOUS
<1>3. /\ S \in SUBSET Ids /\ S \in SUBSET Visible
      /\ \A i \in Visible : cursor < srv.rows[i].seq => i \in S
  BY <1>1, VisibleIs
<1>4. \A i \in S : /\ rank[i] \in Int /\ rank[i] + MaxMessages >= 0 /\ rank[i] = srv.rows[i].seq
                   /\ srv.rows[i].seq \in Nat /\ srv.rows[i].seq > 0 /\ srv.rows[i].seq <= srv.seq
  BY <1>2, <1>3, VisibleIs
<1>5. srv \in Servers /\ srv.seq \in Nat
  BY DEF Types, Servers
<1>6. PICK r \in Reads :
        /\ r = AnswerPage(S, rank) /\ r.state = "answered" /\ OneRowEach(r.page)
        /\ \A p \in r.page : p[1] \in S /\ p[2] = srv.rows[p[1]]
        /\ S # {} => r.page # {}
        /\ r.more => r.page # {}
        /\ r.more \/ \A i \in S : <<i, srv.rows[i]>> \in r.page
        /\ \A p \in r.page, j \in S : rank[j] <= rank[p[1]] => <<j, srv.rows[j]>> \in r.page
  BY <1>3, <1>4, <1>5, AnswerIs
<1>7. r = ChangedSince(cursor)
  BY <1>1, <1>2, <1>6 DEF ChangedSince
<1>8. Fresh(r)
  BY <1>3, <1>6 DEF Fresh
<1>9. ASSUME NEW i \in S, ~r.more \/ srv.rows[i].seq <= Cursor(r.page) PROVE Brings(r, i)
  <2>1. <<i, srv.rows[i]>> \in r.page
    <3>1. CASE ~r.more
      BY <1>6, <3>1
    <3>2. CASE srv.rows[i].seq <= Cursor(r.page)
      <4>1. PICK page \in AnyPage : page = r.page
        BY DEF Reads, AnyPage
      <4>2. \A p \in page : p[2].seq > 0 /\ p[2].seq <= srv.seq
        BY <1>4, <1>6, <4>1
      <4>3. /\ page = {} => Cursor(page) = 0
            /\ page # {} => Cursor(page) > 0 /\ \E p \in page : p[2].seq = Cursor(page)
        BY <1>5, <4>2, CursorIs
      <4>4. PICK p \in r.page : p[2].seq = Cursor(r.page)
        BY <1>4, <3>2, <4>1, <4>3
      <4>5. p[1] \in S /\ srv.rows[i].seq <= srv.rows[p[1]].seq
        BY <1>6, <3>2, <4>4
      <4>6. rank[i] <= rank[p[1]]
        BY <1>4, <4>5
      <4> QED BY <1>6, <4>6
    <3> QED BY <1>9, <3>1, <3>2
  <2>2. PICK p \in r.page : p = <<i, srv.rows[i]>>
    BY <2>1
  <2>3. p[1] = i /\ p[2] = srv.rows[i]
    BY <2>2
  <2> QED BY <2>3 DEF Brings
<1> QED BY <1>3, <1>7, <1>8, <1>9

\* What the answer to a read has to hold.
Answers(k, r) ==
  /\ k = "initial" => HistoryEnds(r)
  /\ k = "older" => \A i \in Visible : Oldest(r) <= i /\ i < t.older => InPage(r, i)
  /\ k = "run" =>
       /\ h.phase = "first" =>
            /\ HistoryEnds(r)
            /\ \A i \in Visible : r.page # {} /\ (InPage(r, i) \/ i < Oldest(r))
       /\ h.phase = "gap" => \A i \in Visible : h.base.latest < i =>
            /\ r.more \/ InPage(r, i)
            /\ i <= Last(r.page) => InPage(r, i)
       /\ h.phase = "update" => \A i \in Visible : h.base.cursor < srv.rows[i].seq =>
            /\ r.more \/ Brings(r, i)
            /\ srv.rows[i].seq <= Cursor(r.page) => Brings(r, i)

LEMMA Answering ==
  ASSUME TranscriptInv, NEW k \in ReadKinds, h.reads[k].state = "asked", NEW r \in Reads, Fresh(r),
         Answers(k, r), h' = [h EXCEPT !.reads[k] = r], UNCHANGED <<feedVars, srv, wire, t>>
  PROVE  TranscriptInv'
<1> USE DEF TranscriptInv
<1>1. /\ "run" \in ReadKinds /\ "older" \in ReadKinds /\ "initial" \in ReadKinds
      /\ h.reads \in [ReadKinds -> Reads] /\ h \in Works
  BY DEF ReadKinds, Types, Works
<1>2. /\ h' \in Works /\ h'.reads = [h.reads EXCEPT ![k] = r]
      /\ h'.loaded = h.loaded /\ h'.call = h.call /\ h'.sent = h.sent /\ h'.gone = h.gone
      /\ h'.base = h.base /\ h'.phase = h.phase /\ h'.retry = h.retry
  <2>1. PICK R \in [ReadKinds -> Reads] : R = [h.reads EXCEPT ![k] = r]
    BY <1>1
  <2> QED BY <1>1, <2>1 DEF Works
<1>3. h'.reads[k] = r /\ \A l \in ReadKinds : l # k => h'.reads[l] = h.reads[l]
  BY <1>1, <1>2
<1>4. \A i \in Visible : /\ i \in Ids /\ srv.rows[i].seq \in Nat /\ i \notin t.hidden
                         /\ CopyOf(srv.rows[i], srv.rows[i])
  BY VisibleIs DEF CopyOf, Screen
<1>5. \A i : InPage(r, i) => Brings(r, i)
  BY DEF Fresh, InPage, Brings
<1>6. Types'
  BY <1>2 DEF Types, feedVars
<1>7. Copies'
  <2>1. PageOf(r.page, srv.rows)
    BY <1>4 DEF Fresh, PageOf
  <2>2. \A l \in ReadKinds : PageOf(h'.reads[l].page, srv.rows)
    BY <1>3, <2>1 DEF Copies
  <2>3. CallSound'
    BY <1>2, CallKept DEF Copies
  <2>4. ServerSound'
    BY Zenon DEF Copies, ServerSound, OwnPosted, Posted
  <2> QED BY <2>2, <2>3, <2>4 DEF Copies
<1>8. Screen'
  BY <1>2, ScreenKept DEF Screen, feedVars
<1>9. Hook'
  <2>1. ReadsInTurn'
    BY <1>1, <1>2, <1>3 DEF Hook, ReadsInTurn, Fresh
  <2>2. Turns'
    BY <1>2 DEF Hook, Turns, feedVars
  <2> QED BY <2>1, <2>2 DEF Hook
<1>10. Visible' = Visible /\ h'.base = h.base /\ h'.phase = h.phase /\ t' = t /\ srv' = srv
  BY <1>2 DEF Visible, Posted
<1>11. \A q, i : (Brings(q, i)' <=> Brings(q, i)) /\ (InPage(q, i)' <=> InPage(q, i))
  BY <1>10 DEF Brings, InPage
<1>12. \A q : /\ HistoryEnds(q) => HistoryEnds(q)'
              /\ Oldest(q)' = Oldest(q) /\ Last(q.page)' = Last(q.page) /\ Cursor(q.page)' = Cursor(q.page)
  <2>1. ASSUME NEW q, HistoryEnds(q) PROVE HistoryEnds(q)'
    <3>1. \A i \in Visible' : Oldest(q) <= i =>
            /\ i <= Last(q.page) => InPage(q, i)
            /\ srv'.rows[i].seq <= Cursor(q.page) => Brings(q, i)'
      BY <1>10, <1>11, <2>1 DEF HistoryEnds
    <3>2. q.more => q.page # {}
      BY <2>1 DEF HistoryEnds
    <3> QED BY <3>1, <3>2 DEF HistoryEnds, Oldest, Last, Cursor, InPage
  <2>2. \A q : Oldest(q)' = Oldest(q) /\ Last(q.page)' = Last(q.page) /\ Cursor(q.page)' = Cursor(q.page)
    BY DEF Oldest, Last, Cursor
  <2> QED BY <2>1, <2>2
<1>13. PICK ini, old, run : ini = h'.reads["initial"] /\ old = h'.reads["older"] /\ run = h'.reads["run"]
  OBVIOUS
<1>14. /\ k # "initial" => ini = h.reads["initial"]
       /\ k = "initial" => ini = r
       /\ k # "older" => old = h.reads["older"]
       /\ k = "older" => old = r
       /\ k # "run" => run = h.reads["run"]
       /\ k = "run" => run = r
  BY <1>1, <1>3, <1>13
<1>15. Pages'
  <2>1. ASSUME ini.state = "answered" PROVE HistoryEnds(ini)
    BY <1>14, <2>1 DEF Pages, Answers
  <2>2. ASSUME old.state = "answered"
        PROVE  /\ old.more => old.page # {}
               /\ \A i \in Visible : Oldest(old) <= i /\ i < t.older => InPage(old, i)
    BY <1>14, <2>2 DEF Pages, Answers, Fresh
  <2>3. ASSUME run.state = "answered"
        PROVE  /\ h.phase = "first" => HistoryEnds(run)
               /\ h.phase = "gap" => \A i \in Visible :
                    h.base.latest < i /\ i <= Last(run.page) => InPage(run, i)
               /\ h.phase = "update" => \A i \in Visible :
                    h.base.cursor < srv.rows[i].seq /\ srv.rows[i].seq <= Cursor(run.page) => Brings(run, i)
    BY <1>14, <2>3 DEF Pages, Answers
  <2>4. ini.state = "answered" => HistoryEnds(ini)'
    BY <1>12, <2>1
  <2>5. run.state = "answered" /\ h.phase = "first" => HistoryEnds(run)'
    BY <1>12, <2>3
  <2>6. \A i : Brings(run, i) => Brings(run, i)'
    BY <1>11
  <2> QED BY <1>10, <1>12, <1>13, <2>2, <2>3, <2>4, <2>5, <2>6 DEF Pages, InPage
<1>16. Floor'
  <2>1. \A i : Has(i)' <=> Has(i)
    BY <1>10 DEF Has
  <2>2. ASSUME NEW i \in Visible, srv.rows[i].seq <= h.base.cursor, InPage(old, i)
        PROVE  Has(i) \/ Brings(old, i)
    BY <1>5, <1>14, <2>2 DEF Floor
  <2>3. \A i : Brings(old, i) => Brings(old, i)'
    BY <1>11
  <2> QED BY <1>10, <1>13, <2>1, <2>2, <2>3 DEF Floor, InPage
<1>17. Promised'
  <2> SUFFICES ASSUME ~Owed', NEW i \in Visible
               PROVE  /\ t.older <= i => Met(i)' /\ Coming(i)'
                      /\ InPage(old, i) => Coming(i)' \/ Brings(old, i)'
    BY <1>10, <1>13 DEF Promised, InPage
  <2>1. ~Owed
    BY <1>2 DEF Owed, feedVars
  <2>2. /\ Has(i)' <=> Has(i)
        /\ Announced(i)' <=> Announced(i)
        /\ OnWire(i)' <=> OnWire(i)
    BY <1>10 DEF Has, Announced, OnWire
  <2>3. CASE k # "run"
    <3>1. run = h.reads["run"]
      BY <1>14, <2>3
    <3>2. (RunFinds(i) => RunFinds(i)') /\ (RunAsks => RunAsks')
      BY <1>10, <1>13, <3>1 DEF RunFinds, RunAsks, AskedRun, InPage, Oldest
    <3>3. Brings(h.reads["run"], i) => Brings(h.reads["run"], i)'
      BY <1>10, <1>13, <3>1 DEF Brings
    <3>4. (Met(i) => Met(i)') /\ (Coming(i) => Coming(i)')
      BY <1>10, <2>2, <3>2, <3>3 DEF Met, Coming
    <3>5. InPage(old, i) => Coming(i) \/ Brings(old, i)
      BY <1>5, <1>14, <2>1 DEF Promised
    <3>6. Brings(old, i) => Brings(old, i)'
      BY <1>11
    <3> QED BY <2>1, <3>4, <3>5, <3>6 DEF Promised
  <2>4. CASE k = "run"
    <3>1. run = r /\ old = h.reads["older"] /\ h.phase # "none" /\ h.phase \in {"none", "first", "gap", "update"}
      BY <1>14, <2>4 DEF Hook, ReadsInTurn, Types, Works
    <3>2. t.older <= i => Met(i)'
      <4>1. ASSUME t.older <= i, ~Known(t.rows, i), ~Announced(i) PROVE RunFinds(i)'
        <5>1. RunFinds(i)
          BY <2>1, <4>1 DEF Promised, Met
        <5>2. CASE h.phase = "first"
          <6>1. InPage(run, i) \/ i < Oldest(run)
            BY <2>4, <3>1, <5>2 DEF Answers
          <6> QED BY <1>10, <1>13, <5>2, <6>1 DEF RunFinds, InPage, Oldest
        <5>3. CASE h.phase = "gap"
          <6>1. h.base.latest < i
            BY <1>4, <4>1 DEF Floor, Types, Works, Bases, Ids
          <6>2. run.more \/ InPage(run, i)
            BY <2>4, <3>1, <5>3, <6>1 DEF Answers
          <6> QED BY <1>10, <1>13, <5>3, <6>2 DEF RunFinds, InPage
        <5> QED BY <5>1, <5>2, <5>3 DEF RunFinds
      <4> QED BY <1>10, <2>2, <4>1 DEF Met
    <3>3. CASE h.phase = "first"
      <4>1. run.page # {}
        BY <2>4, <3>1, <3>3 DEF Answers
      <4>2. RunAsks'
        BY <1>10, <1>13, <3>3, <4>1 DEF RunAsks
      <4> QED BY <3>2, <4>2 DEF Coming
    <3>4. CASE h.phase = "gap"
      <4>1. RunAsks'
        BY <1>10, <3>4 DEF RunAsks
      <4> QED BY <3>2, <4>1 DEF Coming
    <3>5. CASE h.phase = "update"
      <4>1. CASE h.base.cursor < srv.rows[i].seq
        <5>1. run.more \/ Brings(run, i)
          BY <2>4, <3>1, <3>5, <4>1 DEF Answers
        <5>2. Brings(run, i) => Brings(h.reads["run"], i)'
          BY <1>10, <1>13 DEF Brings
        <5>3. run.more => RunAsks'
          BY <1>10, <1>13, <3>5 DEF RunAsks
        <5> QED BY <3>2, <5>1, <5>2, <5>3 DEF Coming
      <4>2. CASE ~(h.base.cursor < srv.rows[i].seq)
        <5>1. srv.rows[i].seq <= h.base.cursor
          BY <1>4, <4>2 DEF Types, Works, Bases
        <5>2. /\ t.older <= i => Has(i)
              /\ InPage(old, i) => Has(i) \/ Brings(old, i)
          BY <3>1, <5>1 DEF Floor
        <5>3. Brings(old, i) => Brings(old, i)'
          BY <1>11
        <5> QED BY <2>2, <3>2, <5>2, <5>3 DEF Coming
      <4> QED BY <4>1, <4>2
    <3> QED BY <3>1, <3>3, <3>4, <3>5
  <2> QED BY <2>3, <2>4
<1> QED BY <1>6, <1>7, <1>8, <1>9, <1>15, <1>16, <1>17

LEMMA ServerAnswering ==
  ASSUME TranscriptInv, NEW k \in ReadKinds, ServerAnswers(k)
  PROVE  TranscriptInv'
<1> USE DEF TranscriptInv
<1>1. h.reads[k].state = "asked" /\ UNCHANGED <<feedVars, srv, wire, t>>
  BY DEF ServerAnswers
<1>2. /\ t.older \in 0..MaxMessages /\ h.base.latest \in 0..MaxMessages /\ h.base.cursor \in Nat
      /\ h.phase \in {"none", "first", "gap", "update"} /\ 0 \in 0..MaxMessages
  BY DEF Types, Transcripts, Works, Bases
<1>3. \A i \in Visible : i \in Nat
  BY VisibleIs DEF Ids
<1>4. CASE k = "initial" \/ (k = "run" /\ h.phase = "first")
  <2>1. PICK r \in Reads :
           /\ r = History(0) /\ Fresh(r)
           /\ \A i \in Visible : (0 = 0 \/ i < 0) =>
                /\ r.page # {}
                /\ Oldest(r) <= i => InPage(r, i) /\ Brings(r, i)
    BY <1>2, HistoryIs
  <2>2. h' = [h EXCEPT !.reads[k] = r]
    BY <1>4, <2>1 DEF ServerAnswers
  <2>3. HistoryEnds(r)
    BY <2>1 DEF HistoryEnds, Fresh
  <2>4. Oldest(r) \in Nat
    BY <2>1, OldestIs DEF Fresh
  <2>5. Answers(k, r)
    BY <1>3, <1>4, <2>1, <2>3, <2>4 DEF Answers
  <2> QED BY <1>1, <2>1, <2>2, <2>5, Answering
<1>5. CASE k = "older"
  <2>1. PICK r \in Reads :
           /\ r = History(t.older) /\ Fresh(r)
           /\ \A i \in Visible : (t.older = 0 \/ i < t.older) =>
                /\ r.page # {}
                /\ Oldest(r) <= i => InPage(r, i) /\ Brings(r, i)
    BY <1>2, HistoryIs
  <2>2. h' = [h EXCEPT !.reads[k] = r]
    BY <1>5, <2>1 DEF ServerAnswers
  <2>3. Answers(k, r)
    BY <1>5, <2>1 DEF Answers
  <2> QED BY <1>1, <2>1, <2>2, <2>3, Answering
<1>6. CASE k = "run" /\ h.phase = "gap"
  <2>1. PICK r \in Reads :
           /\ r = GapFill(h.base.latest) /\ Fresh(r)
           /\ \A i \in Visible : h.base.latest < i =>
                /\ r.more \/ InPage(r, i)
                /\ i <= Last(r.page) => InPage(r, i)
    BY <1>2, GapFillIs
  <2>2. h' = [h EXCEPT !.reads[k] = r]
    BY <1>6, <2>1 DEF ServerAnswers
  <2>3. Answers(k, r)
    BY <1>6, <2>1 DEF Answers
  <2> QED BY <1>1, <2>1, <2>2, <2>3, Answering
<1>7. CASE k = "run" /\ h.phase = "update"
  <2>1. PICK r \in Reads :
           /\ r = ChangedSince(h.base.cursor) /\ Fresh(r)
           /\ \A i \in Visible : h.base.cursor < srv.rows[i].seq =>
                /\ r.more \/ Brings(r, i)
                /\ srv.rows[i].seq <= Cursor(r.page) => Brings(r, i)
    BY <1>2, ChangedSinceIs
  <2>2. h' = [h EXCEPT !.reads[k] = r]
    BY <1>7, <2>1 DEF ServerAnswers
  <2>3. Answers(k, r)
    BY <1>7, <2>1 DEF Answers
  <2> QED BY <1>1, <2>1, <2>2, <2>3, Answering
<1>8. k = "run" => h.phase # "none"
  BY <1>1 DEF Hook, ReadsInTurn
<1> QED BY <1>2, <1>4, <1>5, <1>6, <1>7, <1>8 DEF ReadKinds

-----------------------------------------------------------------------------
(* A page arrives.                                                         *)

\* The transcript is sound as before, and has lost nothing.
Carried ==
  /\ t' \in Transcripts /\ TranscriptOf(t', srv.rows) /\ HiddenAway(t') /\ PendingAlone(t')
  /\ t'.hidden = t.hidden /\ Gains

Lands(k, upsert) ==
  /\ Carried
  /\ \A i \in Visible : /\ upsert /\ InPage(h.reads[k], i) => Known(t'.rows, i)
                        /\ Brings(h.reads[k], i) => Has(i)'

LEMMA Landing ==
  ASSUME TranscriptInv, NEW k \in ReadKinds, NEW upsert \in BOOLEAN, srv' = srv,
         NEW old \in 0..MaxMessages,
         \/ t' = [Merge(t, h.reads[k].page, upsert) EXCEPT !.older = old]
         \/ t' = Merge(t, h.reads[k].page, upsert) /\ old = t.older
  PROVE  Lands(k, upsert) /\ t'.older = old
<1> USE DEF TranscriptInv
<1>1. PICK page \in SUBSET (Ids \X AnyRow) : page = h.reads[k].page
  BY DEF Types, Works, Reads
<1>2. /\ PageOf(page, srv.rows) /\ TranscriptOf(t, srv.rows) /\ HiddenAway(t) /\ PendingAlone(t)
      /\ t \in Transcripts /\ srv.rows \in [Ids -> AnyRow]
  BY <1>1 DEF Copies, Screen, Types, Servers
<1>3. PICK q \in Transcripts : /\ q = Merge(t, page, upsert) /\ Advanced(t, q, srv.rows)
                               /\ Brought(t, q, page, upsert, srv.rows)
  BY <1>2, MergeAdvances
<1>4. /\ t' \in Transcripts /\ t'.rows = q.rows /\ t'.deferred = q.deferred /\ t'.hidden = q.hidden
      /\ t'.pending = q.pending /\ t'.older = old
  <2>1. CASE t' = [q EXCEPT !.older = old]
    BY <2>1 DEF Transcripts
  <2>2. CASE t' = q /\ old = t.older
    BY <1>3, <2>2 DEF Advanced, SameRoom
  <2> QED BY <1>1, <1>3, <2>1, <2>2
<1>5. /\ TranscriptOf(t', srv.rows) /\ HiddenAway(t') /\ PendingAlone(t') /\ t'.hidden = t.hidden
  BY <1>3, <1>4 DEF Advanced, SameRoom, TranscriptOf, HiddenAway, PendingAlone
<1>6. \A i \in Visible : i \notin t.hidden /\ i \in Ids /\ srv.rows[i].seq > 0
  BY VisibleIs DEF Screen
<1>7. Gains
  <2>1. \A i \in Ids : \A n : HasLast(q, i, n) <=> HasLast(t', i, n)
    BY <1>4 DEF HasLast
  <2> QED BY <1>3, <1>4, <1>6, <2>1 DEF Gains, Advanced, Grown, Has
<1>8. ASSUME NEW i \in Visible
      PROVE  /\ upsert /\ InPage(h.reads[k], i) => Known(t'.rows, i)
             /\ Brings(h.reads[k], i) => Has(i)'
  BY <1>1, <1>3, <1>4, <1>6 DEF Brought, InPage, Brings, Has, HasLast
<1> QED BY <1>4, <1>5, <1>7, <1>8 DEF Lands, Carried

\* A run moves on, ends, or begins anew.
LEMMA RunMoves ==
  ASSUME TranscriptInv, feed # "shut", h.loaded, srv' = srv, wire' = wire,
         h' \in Works, SameButRun(h, h'), Carried,
         Begun \/ Rests \/ (AsksOn /\ feed = "live" /\ h.phase # "none" /\ h'.base.latest # 0),
         h'.base.latest <= srv.count, h'.base.cursor <= srv.seq, t'.older <= srv.count,
         h'.base.latest = 0 => h'.base.cursor = 0 /\ t'.older = 0,
         t'.older = t.older \/ h.reads["older"].state = "none",
         Floor', Promised'
  PROVE  TranscriptInv'
<1> USE DEF TranscriptInv
<1>1. h'.loaded /\ (feed = "live" /\ h.phase # "none" => ~h.retry /\ running = TRUE)
  BY DEF Hook, Turns, SameButRun
<1>2. /\ h'.reads["run"] \in {NoRead, Asked} /\ h'.reads["run"].page = {}
      /\ h'.reads["run"].state # "answered"
      /\ h'.phase # "none" <=> h'.reads["run"].state # "none"
  BY ReadIs DEF Begun, AsksOn, Rests
<1>3. h'.reads["initial"] = h.reads["initial"] /\ h'.reads["older"] = h.reads["older"]
  BY DEF SameButRun
<1>4. ReadKinds = {"initial", "older", "run"}
  BY DEF ReadKinds
<1>5. feed' = "live" /\ wanted' \in BOOLEAN /\ running' \in BOOLEAN
  BY DEF Begun, AsksOn, Rests, Types
<1>6. Types'
  BY <1>5 DEF Types, Carried
<1>7. Copies'
  <2>1. CallSound'
    BY CallKept DEF Copies, SameButRun
  <2> QED BY <1>2, <1>3, <1>4, <2>1, CopiesKept DEF Carried
<1>8. Screen'
  BY ScreenKept DEF Carried, SameButRun
<1>9. Hook'
  <2>1. ReadsInTurn'
    BY <1>1, <1>2, <1>3, <1>4 DEF Hook, ReadsInTurn
  <2>2. Turns'
    <3>1. h'.phase # "none" => ~h'.retry
      BY <1>1 DEF Begun, AsksOn, Rests
    <3>2. h'.phase = "first" => h'.base.latest = 0
      BY DEF Begun, AsksOn, Rests
    <3>3. h'.phase \in {"gap", "update"} => h'.base.latest # 0
      BY DEF Begun, AsksOn, Rests
    <3>4. running' = (h'.phase # "none")
      BY <1>1 DEF Begun, AsksOn, Rests
    <3> QED BY <1>1, <3>1, <3>2, <3>3, <3>4 DEF Turns
  <2> QED BY <2>1, <2>2 DEF Hook
<1>10. Pages'
  <2>1. h.reads["initial"].state = "none"
    BY <1>1 DEF Hook, ReadsInTurn
  <2>2. ASSUME h.reads["older"].state = "answered"
        PROVE  /\ h.reads["older"].more => h.reads["older"].page # {}
               /\ \A i \in Visible : Oldest(h.reads["older"]) <= i /\ i < t'.older => InPage(h.reads["older"], i)
    BY <2>2 DEF Pages
  <2>3. Visible' = Visible /\ \A r : Oldest(r)' = Oldest(r)
    BY DEF Visible, Posted, Oldest
  <2> QED BY <1>2, <1>3, <2>1, <2>2, <2>3 DEF Pages, InPage
<1> QED BY <1>6, <1>7, <1>8, <1>9, <1>10

\* A page of changes has been taken.
LEMMA UpdateTaken ==
  ASSUME TranscriptInv, feed = "live", h.phase = "update", h.reads["run"].state = "answered",
         UNCHANGED <<srv, wire>>, TakeUpdate(h.reads["run"])
  PROVE  TranscriptInv'
<1> USE DEF TranscriptInv
<1>1. PICK r \in Reads : r = h.reads["run"]
  BY DEF Types, Works, ReadKinds
<1>2. PICK c : c = IF r.page = {} THEN h.base.cursor ELSE Cursor(r.page)
  OBVIOUS
<1>3. /\ "run" \in ReadKinds /\ h \in Works /\ h.base \in Bases /\ wanted \in BOOLEAN
      /\ h.loaded /\ ~h.retry /\ h.base.latest # 0 /\ srv.seq \in Nat
      /\ h.base.latest <= srv.count /\ h.base.cursor <= srv.seq /\ t.older <= srv.count
  BY DEF ReadKinds, Types, Works, Servers, Hook, Turns
<1>4. c \in Nat /\ c <= srv.seq
  <2>1. Cursor(r.page) \in Nat /\ Cursor(r.page) <= srv.seq
    BY <1>1, <1>3, PageBehind, Zenon
  <2> QED BY <1>2, <1>3, <2>1 DEF Bases
<1>5. PICK base : base = [h.base EXCEPT !.cursor = c]
  OBVIOUS
<1>6. base \in Bases /\ base.latest = h.base.latest /\ base.cursor = c
  BY <1>3, <1>4, <1>5 DEF Bases
<1>7. /\ t' = Merge(t, r.page, FALSE)
      /\ IF r.more THEN NextPage(base) ELSE Ends([h EXCEPT !.base = base, !.retry = FALSE])
  <2>1. base = [h.base EXCEPT !.cursor = IF r.page = {} THEN @ ELSE Cursor(r.page)]
    BY <1>2, <1>3, <1>5 DEF Bases
  <2> QED BY <1>1, <2>1 DEF TakeUpdate
<1>8. Lands("run", FALSE) /\ t'.older = t.older
  <2>1. t.older \in 0..MaxMessages
    BY DEF Types, Transcripts
  <2> QED BY <1>1, <1>3, <1>7, <2>1, Landing
<1>9. /\ h' \in Works /\ SameButRun(h, h') /\ h'.base = base
      /\ \/ Begun
         \/ AsksOn /\ r.more /\ h'.phase = "update"
         \/ Rests /\ h'.retry
         \/ Rests /\ ~r.more
  <2>1. CASE r.more
    BY <1>3, <1>6, <1>7, <2>1, NextPageIs
  <2>2. CASE ~r.more
    <3>1. PICK g : g = [h EXCEPT !.base = base, !.retry = FALSE]
      OBVIOUS
    <3>2. g \in Works /\ SameButRun(h, g) /\ g.base = base /\ g.loaded
      BY <1>3, <1>6, <3>1 DEF Works, SameButRun
    <3>3. /\ h' \in Works /\ SameButRun(g, h') /\ h'.base = g.base
          /\ Begun \/ (Rests /\ h'.retry = g.retry)
      BY <1>3, <1>7, <2>2, <3>1, <3>2, EndsIs
    <3> QED BY <2>2, <3>2, <3>3 DEF SameButRun
  <2> QED BY <2>1, <2>2
<1>10. h'.reads["older"] = h.reads["older"] /\ Visible' = Visible
  BY <1>9 DEF SameButRun, Visible, Posted
<1>11. ASSUME NEW i \in Visible, h.base.cursor < srv.rows[i].seq, srv.rows[i].seq <= c
       PROVE  Has(i)'
  <2>1. r.page # {} /\ c = Cursor(r.page)
    <3>1. srv.rows[i].seq \in Nat
      BY VisibleIs
    <3> QED BY <1>2, <1>3, <1>11, <3>1 DEF Bases
  <2>2. Brings(h.reads["run"], i)
    BY <1>1, <1>11, <2>1 DEF Pages
  <2> QED BY <1>8, <2>2 DEF Lands
<1>12. \A i : Brings(h.reads["older"], i) => Brings(h.reads["older"], i)'
  BY <1>10 DEF Brings
<1>13. Floor'
  <2>1. ASSUME NEW i \in Visible, t.older <= i, i <= h.base.latest PROVE Known(t'.rows, i)
    BY <1>8, <2>1 DEF Floor, Lands, Carried, Gains
  <2>2. ASSUME NEW i \in Visible, srv.rows[i].seq <= c
        PROVE  /\ t.older <= i => Has(i)'
               /\ InPage(h.reads["older"], i) => Has(i)' \/ Brings(h.reads["older"], i)
    <3>1. CASE h.base.cursor < srv.rows[i].seq
      BY <1>11, <2>2, <3>1
    <3>2. CASE ~(h.base.cursor < srv.rows[i].seq)
      <4>1. srv.rows[i].seq <= h.base.cursor
        BY <1>3, <3>2, VisibleIs DEF Bases
      <4> QED BY <1>8, <4>1 DEF Floor, Lands, Carried, Gains
    <3> QED BY <3>1, <3>2
  <2> QED BY <1>6, <1>8, <1>9, <1>10, <1>12, <2>1, <2>2 DEF Floor, InPage
<1>14. Promised'
  <2>1. CASE Begun \/ (Rests /\ h'.retry)
    BY <2>1, PromisedAnew DEF Owed
  <2>2. CASE (AsksOn /\ r.more /\ h'.phase = "update") \/ (Rests /\ ~r.more)
    <3> SUFFICES ASSUME ~Owed', NEW i \in Visible
                 PROVE  /\ t.older <= i => Met(i)' /\ Coming(i)'
                        /\ InPage(h.reads["older"], i) => Coming(i)' \/ Brings(h.reads["older"], i)'
      BY <1>8, <1>10 DEF Promised, InPage
    <3>1. ~Owed
      BY <1>3, <2>2 DEF Owed, AsksOn, Rests
    <3>2. t.older <= i => Met(i)'
      <4>1. t.older <= i => Known(t.rows, i) \/ Announced(i)
        BY <3>1 DEF Promised, Met, RunFinds
      <4> QED BY <1>8, <4>1 DEF Met, Announced, Lands, Carried, Gains
    <3>3. Coming(i) => Coming(i)'
      <4>1. (Has(i) => Has(i)') /\ (OnWire(i) => OnWire(i)')
        BY <1>8 DEF Lands, Carried, Gains, OnWire
      <4>2. Brings(h.reads["run"], i) => Has(i)'
        BY <1>8 DEF Lands
      <4>3. AsksOn /\ h'.phase = "update" => RunAsks'
        BY ReadIs DEF AsksOn, RunAsks, AskedRun
      <4>4. RunAsks => r.more
        BY <1>1, ReadIs DEF RunAsks, AskedRun
      <4> QED BY <2>2, <4>1, <4>2, <4>3, <4>4 DEF Coming
    <3> QED BY <1>12, <3>1, <3>2, <3>3 DEF Promised
  <2> QED BY <1>9, <2>1, <2>2
<1> QED BY <1>3, <1>4, <1>6, <1>8, <1>9, <1>13, <1>14, RunMoves DEF Lands

\* A page of newer messages has been taken.
LEMMA GapTaken ==
  ASSUME TranscriptInv, feed = "live", h.phase = "gap", h.reads["run"].state = "answered",
         UNCHANGED <<srv, wire>>, TakeGap(h.reads["run"])
  PROVE  TranscriptInv'
<1> USE DEF TranscriptInv
<1>1. PICK r \in Reads : r = h.reads["run"]
  BY DEF Types, Works, ReadKinds
<1>2. PICK l : l = IF r.page = {} THEN h.base.latest ELSE Last(r.page)
  OBVIOUS
<1>3. /\ "run" \in ReadKinds /\ h \in Works /\ h.base \in Bases /\ wanted \in BOOLEAN
      /\ h.loaded /\ ~h.retry /\ h.base.latest # 0 /\ srv.seq \in Nat
      /\ h.base.latest <= srv.count /\ h.base.cursor <= srv.seq /\ t.older <= srv.count
  BY DEF ReadKinds, Types, Works, Servers, Hook, Turns
<1>4. l \in 0..MaxMessages /\ l <= srv.count /\ l # 0
  <2>1. PICK page \in AnyPage : page = r.page
    BY DEF Reads, AnyPage
  <2>2. /\ Last(page) \in 0..MaxMessages
        /\ page # {} => \E p \in page : p[1] = Last(page)
    BY LastIs
  <2>3. \A p \in page : p[1] # 0
    BY DEF AnyPage, Ids
  <2>4. Last(page) <= srv.count
    BY <1>1, <1>3, <2>1, PageBehind, Zenon
  <2> QED BY <1>2, <1>3, <2>1, <2>2, <2>3, <2>4 DEF Bases
<1>5. PICK base : base = [h.base EXCEPT !.latest = l]
  OBVIOUS
<1>6. base \in Bases /\ base.latest = l /\ base.cursor = h.base.cursor
  BY <1>3, <1>4, <1>5 DEF Bases
<1>7. /\ t' = Merge(t, r.page, TRUE)
      /\ IF r.more THEN NextPage(base) ELSE BeginUpdate(base)
  <2>1. base = [h.base EXCEPT !.latest = IF r.page = {} THEN @ ELSE Last(r.page)]
    BY <1>2, <1>3, <1>5 DEF Bases
  <2> QED BY <1>1, <2>1 DEF TakeGap
<1>8. Lands("run", TRUE) /\ t'.older = t.older
  <2>1. t.older \in 0..MaxMessages
    BY DEF Types, Transcripts
  <2> QED BY <1>1, <1>3, <1>7, <2>1, Landing
<1>9. /\ h' \in Works /\ SameButRun(h, h') /\ h'.base = base
      /\ \/ Begun
         \/ AsksOn /\ r.more /\ h'.phase = "gap"
         \/ AsksOn /\ ~r.more /\ h'.phase = "update"
         \/ Rests /\ h'.retry
  <2>1. CASE r.more
    BY <1>3, <1>6, <1>7, <2>1, NextPageIs
  <2>2. CASE ~r.more
    BY <1>3, <1>6, <1>7, <2>2, BeginUpdateIs
  <2> QED BY <2>1, <2>2
<1>10. h'.reads["older"] = h.reads["older"] /\ Visible' = Visible
  BY <1>9 DEF SameButRun, Visible, Posted
<1>11. \A i : Brings(h.reads["older"], i) => Brings(h.reads["older"], i)'
  BY <1>10 DEF Brings
<1>12. Floor'
  <2>1. ASSUME NEW i \in Visible, t.older <= i, i <= l PROVE Known(t'.rows, i)
    <3>1. CASE i <= h.base.latest
      BY <1>8, <2>1, <3>1 DEF Floor, Lands, Carried, Gains
    <3>2. CASE ~(i <= h.base.latest)
      <4>1. h.base.latest < i /\ i <= Last(r.page)
        BY <1>2, <1>3, <2>1, <3>2, VisibleIs DEF Bases, Ids
      <4>2. InPage(h.reads["run"], i)
        BY <1>1, <4>1 DEF Pages
      <4> QED BY <1>8, <4>2 DEF Lands
    <3> QED BY <3>1, <3>2
  <2>2. ASSUME NEW i \in Visible, srv.rows[i].seq <= h.base.cursor
        PROVE  /\ t.older <= i => Has(i)'
               /\ InPage(h.reads["older"], i) => Has(i)' \/ Brings(h.reads["older"], i)
    BY <1>8, <2>2 DEF Floor, Lands, Carried, Gains
  <2> QED BY <1>6, <1>8, <1>9, <1>10, <1>11, <2>1, <2>2 DEF Floor, InPage
<1>13. Promised'
  <2>1. CASE Begun \/ (Rests /\ h'.retry)
    BY <2>1, PromisedAnew DEF Owed
  <2>2. CASE AsksOn /\ (r.more => h'.phase = "gap")
    <3> SUFFICES ASSUME NEW i \in Visible, ~Owed'
                 PROVE  t.older <= i => Met(i)'
      <4>1. RunAsks'
        BY <2>2, ReadIs DEF AsksOn, RunAsks, AskedRun
      <4> QED BY <1>8, <1>10, <4>1 DEF Promised, Coming
    <3>1. ~Owed
      BY <1>3, <2>2 DEF Owed, AsksOn
    <3>2. t.older <= i => Known(t.rows, i) \/ Announced(i) \/ r.more \/ InPage(h.reads["run"], i)
      BY <1>1, <3>1 DEF Promised, Met, RunFinds, AskedRun
    <3>3. Known(t.rows, i) \/ InPage(h.reads["run"], i) => Known(t'.rows, i)
      BY <1>8 DEF Lands, Carried, Gains
    <3>4. Announced(i) => Announced(i)'
      BY DEF Announced
    <3>5. r.more => RunFinds(i)'
      BY <2>2, ReadIs DEF AsksOn, RunFinds, AskedRun
    <3> QED BY <3>2, <3>3, <3>4, <3>5 DEF Met
  <2> QED BY <1>9, <2>1, <2>2
<1> QED BY <1>3, <1>4, <1>6, <1>8, <1>9, <1>12, <1>13, RunMoves DEF Lands

\* The first page has been taken.
LEMMA FirstTaken ==
  ASSUME TranscriptInv, feed = "live", h.phase = "first", h.reads["run"].state = "answered",
         UNCHANGED <<srv, wire>>, TakeFirst(h.reads["run"])
  PROVE  TranscriptInv'
<1> USE DEF TranscriptInv
<1>1. PICK r \in Reads : r = h.reads["run"]
  BY DEF Types, Works, ReadKinds
<1>2. /\ "run" \in ReadKinds /\ h \in Works /\ h.base \in Bases /\ wanted \in BOOLEAN
      /\ h.loaded /\ ~h.retry /\ h.base.latest = 0 /\ h.base.cursor = 0 /\ t.older = 0
      /\ srv.seq \in Nat /\ srv.count \in Nat
      /\ h.reads["older"].state = "none" /\ h.reads["older"].page = {}
  <2>1. /\ "run" \in ReadKinds /\ h \in Works /\ h.base \in Bases /\ wanted \in BOOLEAN
        /\ h.loaded /\ ~h.retry /\ h.base.latest = 0 /\ h.base.cursor = 0 /\ t.older = 0
        /\ srv.seq \in Nat /\ srv.count \in Nat
    BY DEF ReadKinds, Types, Works, Servers, Hook, Turns
  <2>2. h.reads["older"].state = "none"
    BY <2>1 DEF Hook, ReadsInTurn
  <2>3. h.reads["older"] \in {NoRead, Asked}
    BY <2>2 DEF Hook, ReadsInTurn, ReadKinds
  <2> QED BY <2>1, <2>2, <2>3, ReadIs
<1>3. /\ Last(r.page) \in 0..MaxMessages /\ Last(r.page) <= srv.count
      /\ Cursor(r.page) \in Nat /\ Cursor(r.page) <= srv.seq
      /\ r.page # {} => Last(r.page) # 0 /\ Cursor(r.page) # 0
      /\ r.page = {} => Last(r.page) = 0 /\ Cursor(r.page) = 0
  <2>1. PICK page \in AnyPage : page = r.page
    BY DEF Reads, AnyPage
  <2>2. /\ Last(page) \in 0..MaxMessages
        /\ page = {} => Last(page) = 0
        /\ page # {} => \E p \in page : p[1] = Last(page)
    BY LastIs
  <2>3. \A p \in page : p[1] # 0
    BY DEF AnyPage, Ids
  <2>4. /\ Last(page) <= srv.count /\ Cursor(page) <= srv.seq /\ Cursor(page) \in Nat
    BY <1>1, <1>2, <2>1, PageBehind, Zenon
  <2>5. \A p \in page : p[2].seq > 0 /\ p[2].seq <= srv.seq
    BY <1>1, <1>2, <2>1, PageBehind
  <2>6. /\ page = {} => Cursor(page) = 0
        /\ page # {} => Cursor(page) > 0
    BY <1>2, <2>5, CursorIs
  <2> QED BY <2>1, <2>2, <2>3, <2>4, <2>6
<1>4. HistoryEnds(r) /\ (r.more => r.page # {})
  BY <1>1 DEF Pages, HistoryEnds
<1>5. /\ Oldest(r) \in 0..MaxMessages /\ Oldest(r) <= srv.count
      /\ r.page = {} => Oldest(r) = 0
  <2>1. /\ Oldest(r) \in 0..MaxMessages
        /\ ~r.more => Oldest(r) = 0
        /\ r.more => \E p \in r.page : p[1] = Oldest(r)
    BY <1>4, OldestIs
  <2>2. \A p \in r.page : p[1] \in Posted
    BY <1>1, <1>2, PageBehind
  <2> QED BY <1>2, <1>4, <2>1, <2>2 DEF Posted
<1>6. PICK base : base = [latest |-> Last(r.page), cursor |-> Cursor(r.page)]
  OBVIOUS
<1>7. base \in Bases /\ base.latest = Last(r.page) /\ base.cursor = Cursor(r.page)
  BY <1>3, <1>6 DEF Bases
<1>8. /\ t' = [Merge(t, r.page, TRUE) EXCEPT !.older = Oldest(r)]
      /\ IF base.cursor = 0 THEN Ends([h EXCEPT !.base = base]) ELSE BeginUpdate(base)
  BY <1>1, <1>2, <1>6 DEF TakeFirst
<1>9. Lands("run", TRUE) /\ t'.older = Oldest(r)
  BY <1>1, <1>2, <1>5, <1>8, Landing
<1>10. /\ h' \in Works /\ SameButRun(h, h') /\ h'.base = base
       /\ \/ Begun
          \/ AsksOn /\ r.page # {} /\ h'.phase = "update"
          \/ Rests /\ r.page = {}
  <2>1. CASE base.cursor = 0
    <3>1. PICK g : g = [h EXCEPT !.base = base]
      OBVIOUS
    <3>2. g \in Works /\ SameButRun(h, g) /\ g.base = base /\ g.loaded
      BY <1>2, <1>7, <3>1 DEF Works, SameButRun
    <3>3. /\ h' \in Works /\ SameButRun(g, h') /\ h'.base = g.base
          /\ Begun \/ (Rests /\ h'.retry = g.retry)
      BY <1>2, <1>8, <2>1, <3>1, <3>2, EndsIs
    <3> QED BY <1>3, <1>7, <2>1, <3>2, <3>3 DEF SameButRun
  <2>2. CASE base.cursor # 0
    <3>1. BeginUpdate(base)
      BY <1>8, <2>2
    <3> QED BY <1>2, <1>3, <1>7, <2>2, <3>1, BeginUpdateIs
  <2> QED BY <2>1, <2>2
<1>11. h'.reads["older"] = h.reads["older"] /\ Visible' = Visible
  BY <1>10 DEF SameButRun, Visible, Posted
<1>12. \A i : ~InPage(h.reads["older"], i)
  BY <1>2 DEF InPage
<1>13. Floor'
  <2>1. ASSUME NEW i \in Visible, Oldest(r) <= i, i <= Last(r.page) PROVE Known(t'.rows, i)
    BY <1>1, <1>4, <1>9, <2>1 DEF HistoryEnds, Lands
  <2>2. ASSUME NEW i \in Visible, srv.rows[i].seq <= Cursor(r.page), Oldest(r) <= i PROVE Has(i)'
    BY <1>1, <1>4, <1>9, <2>2 DEF HistoryEnds, Lands
  <2> QED BY <1>7, <1>9, <1>10, <1>11, <1>12, <2>1, <2>2 DEF Floor, InPage
<1>14. Promised'
  <2>1. CASE Begun
    BY <2>1, PromisedAnew
  <2>2. ASSUME ~Owed', ~Begun, NEW i \in Visible, Oldest(r) <= i
        PROVE  Met(i)' /\ Coming(i)'
    <3>1. ~Owed
      BY <1>2, <1>10, <2>2 DEF Owed, AsksOn, Rests
    <3>2. t.older <= i
      BY <1>2, VisibleIs DEF Ids
    <3>3. ~(i < Oldest(r))
      BY <1>5, <2>2, VisibleIs DEF Ids
    <3>4. Known(t.rows, i) \/ Announced(i) \/ InPage(h.reads["run"], i)
      BY <1>1, <3>1, <3>2, <3>3 DEF Promised, Met, RunFinds, AskedRun
    <3>5. Met(i)'
      BY <1>9, <3>4 DEF Lands, Carried, Gains, Met, Announced
    <3>6. Coming(i)'
      <4>1. CASE AsksOn /\ h'.phase = "update"
        BY <4>1, ReadIs DEF AsksOn, Coming, RunAsks, AskedRun
      <4>2. CASE r.page = {}
        <5>1. Has(i) \/ OnWire(i)
          BY <1>1, <3>1, <3>2, <4>2 DEF Promised, Coming, RunAsks, AskedRun, Brings
        <5> QED BY <1>9, <5>1 DEF Lands, Carried, Gains, Coming, OnWire
      <4> QED BY <1>10, <2>2, <4>1, <4>2
    <3> QED BY <3>5, <3>6
  <2> QED BY <1>9, <1>11, <1>12, <2>1, <2>2 DEF Promised, InPage
<1>15. /\ h'.base.latest <= srv.count /\ h'.base.cursor <= srv.seq /\ t'.older <= srv.count
       /\ h'.base.latest = 0 => h'.base.cursor = 0 /\ t'.older = 0
       /\ r.page # {} => h'.base.latest # 0
  <2>1. h'.base.latest = 0 => r.page = {}
    BY <1>3, <1>7, <1>10
  <2> QED BY <1>3, <1>5, <1>7, <1>9, <1>10, <2>1
<1>16. Begun \/ Rests \/ (AsksOn /\ h.phase # "none" /\ h'.base.latest # 0)
  BY <1>10, <1>15
<1> QED BY <1>2, <1>9, <1>10, <1>13, <1>14, <1>15, <1>16, RunMoves DEF Lands

-----------------------------------------------------------------------------
(* Steps of the feed.                                                      *)

\* While a catch-up is owed nothing is promised.
LEMMA OwedStep ==
  ASSUME TranscriptInv, Owed', feed' = "live" => wanted' /\ running' = (h'.phase # "none"),
         feed = "shut" => feed' = "shut", UNCHANGED <<srv, wire>>,
         Types', Advanced(t, t', srv.rows),
         h'.base = h.base, h'.loaded = h.loaded, h'.gone = h.gone, h'.sent = h.sent,
         h'.call \in {h.call, NoCall}, h'.retry => h.retry,
         \A k \in ReadKinds : h'.reads[k] \in {h.reads[k], NoRead},
         \/ h'.phase = h.phase /\ h'.reads["run"] = h.reads["run"]
         \/ h'.phase = "none" /\ h'.reads["run"] = NoRead
  PROVE  TranscriptInv'
<1> USE DEF TranscriptInv
<1>1. Gains /\ t'.older = t.older
  BY AdvancedGains DEF Advanced, SameRoom
<1>2. "initial" \in ReadKinds /\ "older" \in ReadKinds /\ "run" \in ReadKinds
  BY DEF ReadKinds
<1>3. Copies'
  <2>1. CallSound'
    BY CallKept DEF Copies
  <2>2. TranscriptOf(t', srv.rows)
    BY DEF Advanced
  <2>3. \A k \in ReadKinds : h'.reads[k].page \in {h.reads[k].page, {}}
    BY ReadIs
  <2> QED BY <2>1, <2>2, <2>3, CopiesKept
<1>4. Screen'
  BY ScreenKept DEF Advanced, SameRoom
<1>5. Hook'
  <2>1. ReadsInTurn'
    BY <1>1, <1>2, ReadIs DEF Hook, ReadsInTurn
  <2>2. Turns'
    BY <1>1 DEF Hook, Turns
  <2> QED BY <2>1, <2>2 DEF Hook
<1>6. Pages'
  <2>1. \A k \in ReadKinds : h'.reads[k] = h.reads[k] \/ h'.reads[k].state # "answered"
    BY ReadIs
  <2>2. h'.reads["run"].state = "answered" => h'.phase = h.phase
    BY ReadIs
  <2> QED BY <1>1, <2>1, <2>2, PagesKept
<1>7. Floor'
  <2>1. h'.reads["older"].page \in {h.reads["older"].page, {}}
    BY <1>2, ReadIs
  <2> QED BY <1>1, <2>1, FloorKept
<1>8. Promised'
  BY PromisedAnew
<1> QED BY <1>3, <1>4, <1>5, <1>6, <1>7, <1>8

LEMMA SameAdvanced ==
  ASSUME Types, Copies, Screen, t' = t
  PROVE  Advanced(t, t', srv.rows)
<1>1. /\ t \in Transcripts /\ srv.rows \in [Ids -> AnyRow] /\ TranscriptOf(t, srv.rows)
      /\ HiddenAway(t) /\ PendingAlone(t)
  BY DEF Types, Servers, Copies, Screen
<1> QED BY <1>1, SameRowsAdvance

LEMMA Stopping ==
  ASSUME TranscriptInv, feed # "live", h' = StopRun(h), UNCHANGED <<feedVars, srv, wire, t>>
  PROVE  TranscriptInv'
<1> USE DEF TranscriptInv
<1>1. PICK q \in Works : /\ q = StopRun(h) /\ SameButRun(h, q) /\ q.base = h.base
                         /\ q.retry = h.retry /\ q.phase = "none" /\ q.reads["run"] = NoRead
  BY StopRunIs DEF Types
<1>2. Types'
  BY <1>1 DEF Types, feedVars
<1>3. \A k \in ReadKinds : h'.reads[k] \in {h.reads[k], NoRead}
  BY <1>1 DEF SameButRun, ReadKinds
<1>4. Advanced(t, t', srv.rows)
  BY SameAdvanced
<1>5. feed' # "live" /\ Owed'
  BY DEF Owed, feedVars
<1> QED BY <1>1, <1>2, <1>3, <1>4, <1>5, OwedStep DEF SameButRun, feedVars

LEMMA RunReceiving ==
  ASSUME TranscriptInv, RunReceives
  PROVE  TranscriptInv'
<1>1. h.reads["run"].state = "answered" /\ UNCHANGED <<srv, wire>>
  BY DEF RunReceives
<1>2. CASE feed # "live" /\ h' = StopRun(h) /\ UNCHANGED <<feedVars, t>>
  BY <1>1, <1>2, Stopping
<1>3. CASE feed = "live" /\ h.phase = "first" /\ TakeFirst(h.reads["run"])
  BY <1>1, <1>3, FirstTaken
<1>4. CASE feed = "live" /\ h.phase = "gap" /\ TakeGap(h.reads["run"])
  BY <1>1, <1>4, GapTaken
<1>5. CASE feed = "live" /\ h.phase = "update" /\ TakeUpdate(h.reads["run"])
  BY <1>1, <1>5, UpdateTaken
<1> QED BY <1>2, <1>3, <1>4, <1>5 DEF RunReceives

LEMMA SameCarried ==
  ASSUME TranscriptInv, t' = t, srv' = srv
  PROVE  Carried
BY SameGains DEF TranscriptInv, Carried, Types, Copies, Screen

\* A run fails; it is owed again.
LEMMA RunFailing ==
  ASSUME TranscriptInv, RunFails
  PROVE  TranscriptInv'
<1> USE DEF TranscriptInv
<1>1. h.phase # "none" /\ UNCHANGED <<srv, wire, t>>
  BY DEF RunFails
<1>2. CASE feed # "live"
  BY <1>1, <1>2, Stopping DEF RunFails
<1>3. CASE feed = "live"
  <2>1. /\ h \in Works /\ h.loaded /\ wanted \in BOOLEAN /\ h.base.latest <= srv.count
        /\ h.base.cursor <= srv.seq /\ t.older <= srv.count
        /\ h.base.latest = 0 => h.base.cursor = 0 /\ t.older = 0
    BY <1>1 DEF Types, Hook, Turns
  <2>2. PICK g : g = [h EXCEPT !.retry = TRUE]
    OBVIOUS
  <2>3. g \in Works /\ SameButRun(h, g) /\ g.base = h.base /\ g.loaded /\ g.retry
    BY <2>1, <2>2 DEF Works, SameButRun
  <2>4. Ends(g)
    BY <1>3, <2>2 DEF RunFails
  <2>5. /\ h' \in Works /\ SameButRun(g, h') /\ h'.base = g.base
        /\ Begun \/ (Rests /\ h'.retry = g.retry)
    BY <2>1, <2>3, <2>4, EndsIs
  <2>6. SameButRun(h, h') /\ h'.base = h.base /\ (Begun \/ (Rests /\ h'.retry))
    BY <2>3, <2>5 DEF SameButRun
  <2>7. Floor'
    BY <1>1, <2>6, SameGains, FloorKept DEF SameButRun
  <2>8. Promised'
    BY <2>6, PromisedAnew DEF Owed
  <2>9. Carried
    BY <1>1, SameCarried
  <2> QED BY <1>1, <1>3, <2>1, <2>5, <2>6, <2>7, <2>8, <2>9, RunMoves
<1> QED BY <1>2, <1>3

LEMMA Retrying ==
  ASSUME TranscriptInv, RetryRun
  PROVE  TranscriptInv'
<1> USE DEF TranscriptInv
<1>1. /\ feed = "live" /\ h.retry /\ h.phase = "none" /\ UNCHANGED <<srv, wire, t>>
      /\ h' = StartRun(h) /\ StayLive /\ running' /\ ~wanted'
  BY DEF RetryRun
<1>2. /\ h \in Works /\ h.loaded /\ h.base.latest <= srv.count
      /\ h.base.cursor <= srv.seq /\ t.older <= srv.count
      /\ h.base.latest = 0 => h.base.cursor = 0 /\ t.older = 0
  BY <1>1 DEF Types, Hook, Turns
<1>3. PICK q \in Works :
        /\ q = StartRun(h) /\ SameButRun(h, q) /\ q.base = h.base /\ ~q.retry
        /\ q.phase = (IF h.base.latest = 0 THEN "first" ELSE "gap")
        /\ q.reads["run"] = Asked
  BY <1>2, StartRunIs
<1>4. feed' = "live" /\ wanted' = FALSE /\ running' = TRUE
  BY <1>1 DEF StayLive
<1>5. Begun
  BY <1>1, <1>2, <1>3, <1>4 DEF Begun, SameButRun
<1>6. h' \in Works /\ SameButRun(h, h') /\ h'.base = h.base
  BY <1>1, <1>3
<1>7. Floor'
  BY <1>1, <1>6, SameGains, FloorKept DEF SameButRun
<1>8. Promised'
  BY <1>5, PromisedAnew
<1>9. Carried
  BY <1>1, SameCarried
<1> QED BY <1>1, <1>2, <1>5, <1>6, <1>7, <1>8, <1>9, RunMoves

LEMMA GoingLive ==
  ASSUME TranscriptInv, FeedGoesLive
  PROVE  TranscriptInv'
<1> USE DEF TranscriptInv
<1>1. /\ feed = "off" /\ feed' = "live" /\ wanted' \in BOOLEAN /\ running' \in BOOLEAN
      /\ UNCHANGED <<srv, wire, t>> /\ h \in Works
  BY DEF FeedGoesLive, GoLive, Types
<1>2. CASE h.loaded /\ h.phase = "none"
  <2>1. h' = StartRun(h) /\ running' = TRUE /\ wanted' = FALSE
    BY <1>1, <1>2 DEF FeedGoesLive
  <2>2. PICK q \in Works :
          /\ q = StartRun(h) /\ SameButRun(h, q) /\ q.base = h.base /\ ~q.retry
          /\ q.phase = (IF h.base.latest = 0 THEN "first" ELSE "gap")
          /\ q.reads["run"] = Asked
    BY <1>1, StartRunIs
  <2>3. Begun
    BY <1>1, <1>2, <2>1, <2>2 DEF Begun, SameButRun
  <2>4. h' \in Works /\ SameButRun(h, h') /\ h'.base = h.base
    BY <2>1, <2>2
  <2>5. Floor'
    BY <1>1, <2>4, SameGains, FloorKept DEF SameButRun
  <2>6. Promised'
    BY <2>3, PromisedAnew
  <2>7. Carried
    BY <1>1, SameCarried
  <2>8. /\ h.base.latest <= srv.count /\ h.base.cursor <= srv.seq /\ t.older <= srv.count
        /\ h.base.latest = 0 => h.base.cursor = 0 /\ t.older = 0
    BY DEF Hook, Turns
  <2> QED BY <1>1, <1>2, <2>3, <2>4, <2>5, <2>6, <2>7, <2>8, RunMoves
<1>3. CASE ~(h.loaded /\ h.phase = "none")
  <2>1. h' = [h EXCEPT !.retry = FALSE] /\ wanted' /\ running' = (h.phase # "none")
    BY <1>3 DEF FeedGoesLive
  <2>2. /\ h' \in Works /\ h'.reads = h.reads /\ h'.base = h.base /\ h'.loaded = h.loaded
        /\ h'.gone = h.gone /\ h'.sent = h.sent /\ h'.call = h.call /\ ~h'.retry /\ h'.phase = h.phase
    BY <1>1, <2>1 DEF Works
  <2>3. Types' /\ Owed'
    BY <1>1, <2>1, <2>2 DEF Types, Owed
  <2>4. Advanced(t, t', srv.rows)
    BY <1>1, SameAdvanced
  <2> QED BY <1>1, <2>1, <2>2, <2>3, <2>4, OwedStep
<1> QED BY <1>2, <1>3

LEMMA GoingOff ==
  ASSUME TranscriptInv, NEW how \in {"retried", "lost", "suspended"}, FeedGoesOff(how)
  PROVE  TranscriptInv'
<1> USE DEF TranscriptInv
<1>1. /\ feed = "live" /\ feed' = "off" /\ wanted' = FALSE /\ running' = FALSE
      /\ UNCHANGED <<srv, wire>> /\ h \in Works /\ h.call \in Callings
  BY DEF FeedGoesOff, GoOff, Types, Works
<1>2. PICK q \in Works :
        /\ q = IF how = "retried" THEN h ELSE StopRun(h)
        /\ SameButRun(h, q) /\ q.base = h.base
        /\ \/ how = "retried" /\ q.phase = h.phase /\ q.reads["run"] = h.reads["run"]
           \/ q.phase = "none" /\ q.reads["run"] = NoRead
  <2>1. CASE how = "retried"
    BY <1>1, <2>1 DEF SameButRun
  <2>2. CASE how # "retried"
    BY <1>1, <2>2, StopRunIs
  <2> QED BY <2>1, <2>2
<1>3. PICK g : g = [q EXCEPT !.retry = FALSE]
  OBVIOUS
<1>4. /\ g \in Works /\ g.reads = q.reads /\ g.base = q.base /\ g.loaded = q.loaded /\ g.gone = q.gone
      /\ g.sent = q.sent /\ g.call = q.call /\ ~g.retry /\ g.phase = q.phase
  BY <1>3 DEF Works
<1>5. \A k \in ReadKinds : g.reads[k] \in {h.reads[k], NoRead}
  BY <1>2, <1>4 DEF SameButRun, ReadKinds
<1>6. Owed' /\ feed' # "live"
  BY <1>1 DEF Owed
<1>7. CASE how = "suspended"
  <2>1. /\ t' = Suspend(t) /\ h' = [g EXCEPT !.reads = [k \in DOMAIN @ |-> NoRead], !.call = NoCall]
    BY <1>2, <1>3, <1>7 DEF FeedGoesOff
  <2>2. PICK R : R = [k \in DOMAIN g.reads |-> NoRead]
    OBVIOUS
  <2>3. R \in [ReadKinds -> Reads] /\ \A k \in ReadKinds : R[k] = NoRead
    BY <1>4, <2>2, ReadIs DEF Works
  <2>4. NoCall \in Callings
    <3>1. 0 \in 0..MaxMessages
      OBVIOUS
    <3> QED BY <3>1, NoRowIs DEF NoCall, Callings
  <2>5. h' = [g EXCEPT !.reads = R, !.call = NoCall]
    BY <2>1, <2>2
  <2>6. /\ h' \in Works /\ h'.reads = R /\ h'.base = g.base /\ h'.loaded = g.loaded /\ h'.gone = g.gone
        /\ h'.sent = g.sent /\ h'.call = NoCall /\ ~h'.retry /\ h'.phase = g.phase
    BY <1>4, <2>3, <2>4, <2>5 DEF Works
  <2>7. t' \in Transcripts /\ Advanced(t, t', srv.rows)
    <3>1. /\ t \in Transcripts /\ srv.rows \in [Ids -> AnyRow] /\ TranscriptOf(t, srv.rows)
          /\ HiddenAway(t) /\ PendingAlone(t)
      BY DEF Types, Servers, Copies, Screen
    <3>2. PICK p : p = IF t.pending = "sending" THEN "failed" ELSE t.pending
      OBVIOUS
    <3>3. t' = [t EXCEPT !.pending = p, !.reacting = {}, !.deleting = {}]
      BY <2>1, <3>2 DEF Suspend
    <3>4. /\ t' \in Transcripts /\ t'.rows = t.rows /\ t'.deferred = t.deferred /\ t'.hidden = t.hidden
          /\ t'.older = t.older /\ t'.pending = p
      BY <3>1, <3>2, <3>3 DEF Transcripts
    <3>5. t'.pending # "none" => t.pending # "none"
      BY <3>2, <3>4
    <3> QED BY <3>1, <3>4, <3>5, SameRowsAdvance
  <2>8. Types'
    BY <1>1, <2>6, <2>7 DEF Types
  <2>9. "run" \in ReadKinds
    BY DEF ReadKinds
  <2>10. /\ \A k \in ReadKinds : h'.reads[k] \in {h.reads[k], NoRead}
         /\ h'.phase = "none" /\ h'.reads["run"] = NoRead
    BY <1>2, <1>4, <1>7, <2>3, <2>6, <2>9
  <2> QED BY <1>1, <1>2, <1>4, <1>6, <2>6, <2>7, <2>8, <2>10, OwedStep DEF SameButRun
<1>8. CASE how # "suspended"
  <2>1. h' = g /\ t' = t
    BY <1>2, <1>3, <1>8 DEF FeedGoesOff
  <2>2. Types'
    BY <1>1, <1>4, <2>1 DEF Types
  <2>3. Advanced(t, t', srv.rows)
    BY <2>1, SameAdvanced
  <2> QED BY <1>1, <1>2, <1>4, <1>5, <1>6, <2>1, <2>2, <2>3, OwedStep DEF SameButRun
<1> QED BY <1>7, <1>8

LEMMA EmptyIs ==
  /\ EmptyTranscript \in Transcripts /\ EmptyTranscript.hidden = {} /\ EmptyTranscript.pending = "none"
  /\ EmptyTranscript.older = 0
  /\ \A i \in Ids : EmptyTranscript.rows[i] = NoRow /\ EmptyTranscript.deferred[i] = NoPatch
<1>1. PICK R \in [Ids -> AnyRow] : R = [i \in Ids |-> NoRow]
  BY NoRowIs
<1>2. PICK D \in [Ids -> Patches] : D = [i \in Ids |-> NoPatch]
  BY NoRowIs
<1>3. EmptyTranscript = [rows |-> R, deferred |-> D, hidden |-> {},
                         pending |-> "none", reacting |-> {}, deleting |-> {}, older |-> 0]
  BY <1>1, <1>2 DEF EmptyTranscript
<1>4. 0 \in 0..MaxMessages
  OBVIOUS
<1>5. \A i \in Ids : R[i] = NoRow /\ D[i] = NoPatch
  BY <1>1, <1>2
<1> QED BY <1>3, <1>4, <1>5 DEF Transcripts

LEMMA NoWorkIs ==
  ASSUME NEW l \in BOOLEAN
  PROVE  \E q \in Works :
           /\ q = [NoWork EXCEPT !.loaded = l] /\ (l = FALSE => q = NoWork)
           /\ q.loaded = l /\ q.base.latest = 0 /\ q.base.cursor = 0
           /\ q.phase = "none" /\ ~q.retry /\ q.call = NoCall /\ ~q.sent /\ q.gone = {}
           /\ \A k \in ReadKinds : q.reads[k] = NoRead
<1>1. PICK R \in [ReadKinds -> Reads] : R = [k \in {"initial", "older", "run"} |-> NoRead]
  BY ReadIs DEF ReadKinds
<1>2. \A k \in ReadKinds : R[k] = NoRead
  BY <1>1 DEF ReadKinds
<1>3. PICK b : b = [latest |-> 0, cursor |-> 0]
  OBVIOUS
<1>4. 0 \in 0..MaxMessages /\ 0 \in 0..MaxPages
  OBVIOUS
<1>5. b \in Bases /\ b.latest = 0 /\ b.cursor = 0
  BY <1>3, <1>4 DEF Bases
<1>6. NoCall \in Callings
  BY <1>4, NoRowIs DEF NoCall, Callings
<1>7. PICK q : q = [loaded |-> l, base |-> b, phase |-> "none", pages |-> 0, retry |-> FALSE,
                    reads |-> R, call |-> NoCall, sent |-> FALSE, gone |-> {}]
  OBVIOUS
<1>8. q = [NoWork EXCEPT !.loaded = l] /\ (l = FALSE => q = NoWork)
  <2>1. PICK w \in Works :
          w = [loaded |-> FALSE, base |-> b, phase |-> "none", pages |-> 0, retry |-> FALSE,
               reads |-> R, call |-> NoCall, sent |-> FALSE, gone |-> {}]
    BY <1>4, <1>5, <1>6 DEF Works
  <2>2. w = NoWork
    BY <1>1, <1>3, <2>1, Zenon DEF NoWork
  <2>3. PICK v \in Works : v = [w EXCEPT !.loaded = l]
    BY DEF Works
  <2>4. /\ v.loaded = l /\ v.base = b /\ v.phase = "none" /\ v.pages = 0 /\ ~v.retry /\ v.reads = R
        /\ v.call = NoCall /\ ~v.sent /\ v.gone = {}
    BY <2>1, <2>3 DEF Works
  <2>5. v.retry = FALSE /\ v.sent = FALSE /\ v.retry \in BOOLEAN /\ v.sent \in BOOLEAN
    BY <2>3, <2>4 DEF Works
  <2>6. q.loaded = l /\ q.base = b /\ q.phase = "none" /\ q.pages = 0 /\ q.retry = FALSE /\ q.reads = R
        /\ q.call = NoCall /\ q.sent = FALSE /\ q.gone = {} /\ q \in Works
    BY <1>4, <1>5, <1>6, <1>7 DEF Works
  <2>7. v = q
    BY <2>4, <2>5, <2>6 DEF Works
  <2>8. l = FALSE => w = q
    BY <2>1, <1>7
  <2> QED BY <2>2, <2>3, <2>7, <2>8
<1>9. q \in Works
  BY <1>4, <1>5, <1>6, <1>7 DEF Works
<1>10. /\ q.loaded = l /\ q.base = b /\ q.phase = "none" /\ ~q.retry /\ q.call = NoCall /\ ~q.sent
       /\ q.gone = {} /\ q.reads = R
  BY <1>7
<1> QED BY <1>2, <1>5, <1>8, <1>9, <1>10

LEMMA BeingKicked ==
  ASSUME TranscriptInv, Kicked
  PROVE  TranscriptInv'
<1> USE DEF TranscriptInv
<1>1. /\ feed' = "shut" /\ wanted' = FALSE /\ running' = FALSE /\ t' = EmptyTranscript
      /\ h' = [NoWork EXCEPT !.loaded = h.loaded] /\ UNCHANGED <<srv, wire>>
  BY DEF Kicked, Shut
<1>2. PICK q \in Works :
         /\ q = h' /\ q.loaded = h.loaded /\ q.base.latest = 0 /\ q.base.cursor = 0
         /\ q.phase = "none" /\ ~q.retry /\ q.call = NoCall /\ ~q.sent /\ q.gone = {}
         /\ \A k \in ReadKinds : q.reads[k] = NoRead
  <2>1. h.loaded \in BOOLEAN
    BY DEF Types, Works
  <2> QED BY <1>1, <2>1, NoWorkIs
<1>3. /\ t' \in Transcripts /\ t'.hidden = {} /\ t'.pending = "none" /\ t'.older = 0
      /\ \A i \in Ids : t'.rows[i] = NoRow /\ t'.deferred[i] = NoPatch
  BY <1>1, EmptyIs
<1>4. Types'
  BY <1>1, <1>2, <1>3 DEF Types
<1>5. Copies'
  <2>1. CallSound'
    BY <1>1, <1>2, CallKept DEF Copies
  <2>2. TranscriptOf(t', srv.rows)
    <3>1. \A i \in Ids : srv.rows[i] \in AnyRow
      BY DEF Types, Servers
    <3> QED BY <1>3, <3>1, NoPatchOf DEF TranscriptOf, Known
  <2> QED BY <1>1, <1>2, <2>1, <2>2, ReadIs, CopiesKept
<1>6. Screen'
  BY <1>1, <1>2, <1>3 DEF Screen, HiddenAway, PendingAlone, NoCall, Sends
<1>7. Hook'
  <2>1. ReadsInTurn'
    BY <1>2, ReadIs DEF ReadsInTurn, ReadKinds
  <2>2. srv.count \in Nat /\ srv.seq \in Nat
    BY DEF Types, Servers
  <2>3. Turns'
    BY <1>1, <1>2, <1>3, <2>2 DEF Turns
  <2> QED BY <2>1, <2>3 DEF Hook
<1>8. Pages'
  BY <1>2, ReadIs DEF Pages, ReadKinds
<1>9. Floor'
  <2>1. Visible' = Visible
    BY <1>1 DEF Visible, Posted
  <2>2. \A i \in Visible : ~(i <= 0) /\ ~(srv.rows[i].seq <= 0)
    BY VisibleIs DEF Ids
  <2> QED BY <1>1, <1>2, <2>1, <2>2 DEF Floor
<1>10. Promised'
  BY <1>1, PromisedAnew DEF Owed
<1> QED BY <1>4, <1>5, <1>6, <1>7, <1>8, <1>9, <1>10

-----------------------------------------------------------------------------
(* The history arrives.                                                    *)

\* What a first page tells, whoever reads it.
LEMMA FirstPage ==
  ASSUME TranscriptInv, NEW k \in ReadKinds, NEW r \in Reads, r = h.reads[k], HistoryEnds(r)
  PROVE  /\ Last(r.page) \in 0..MaxMessages /\ Last(r.page) <= srv.count
         /\ Cursor(r.page) \in Nat /\ Cursor(r.page) <= srv.seq
         /\ r.page # {} => Last(r.page) # 0 /\ Cursor(r.page) # 0
         /\ r.page = {} => Last(r.page) = 0 /\ Cursor(r.page) = 0
         /\ Oldest(r) \in 0..MaxMessages /\ Oldest(r) <= srv.count
         /\ r.page = {} => Oldest(r) = 0
<1> USE DEF TranscriptInv
<1>1. PICK page \in AnyPage : page = r.page
  BY DEF Reads, AnyPage
<1>2. srv.seq \in Nat /\ srv.count \in Nat
  BY DEF Types, Servers
<1>3. /\ Last(page) \in 0..MaxMessages
      /\ page = {} => Last(page) = 0
      /\ page # {} => \E p \in page : p[1] = Last(page)
  BY LastIs
<1>4. \A p \in page : p[1] # 0
  BY DEF AnyPage, Ids
<1>5. /\ Last(page) <= srv.count /\ Cursor(page) <= srv.seq /\ Cursor(page) \in Nat
  BY <1>1, PageBehind, Zenon
<1>6. \A p \in page : p[2].seq > 0 /\ p[2].seq <= srv.seq /\ p[1] \in Posted
  BY <1>1, PageBehind
<1>7. /\ page = {} => Cursor(page) = 0
      /\ page # {} => Cursor(page) > 0
  BY <1>2, <1>6, CursorIs
<1>8. r.more => r.page # {}
  BY DEF HistoryEnds
<1>9. /\ Oldest(r) \in 0..MaxMessages
      /\ ~r.more => Oldest(r) = 0
      /\ r.more => \E p \in r.page : p[1] = Oldest(r)
  BY <1>8, OldestIs
<1>10. Oldest(r) <= srv.count
  BY <1>1, <1>2, <1>6, <1>9 DEF Posted
<1> QED BY <1>1, <1>3, <1>4, <1>5, <1>7, <1>8, <1>9, <1>10

LEMMA InitialArriving ==
  ASSUME TranscriptInv, InitialArrives
  PROVE  TranscriptInv'
<1> USE DEF TranscriptInv
<1>1. "initial" \in ReadKinds /\ "older" \in ReadKinds /\ "run" \in ReadKinds /\ h \in Works
      /\ h.reads \in [ReadKinds -> Reads]
  BY DEF ReadKinds, Types, Works
<1>2. PICK r \in Reads : r = h.reads["initial"]
  BY <1>1
<1>3. r.state = "answered" /\ UNCHANGED <<srv, wire>>
  BY <1>2 DEF InitialArrives
<1>4. /\ ~h.loaded /\ h.phase = "none" /\ ~h.retry /\ h.base.latest = 0 /\ t.older = 0
      /\ h.reads["run"] = NoRead /\ h.reads["older"] = NoRead
      /\ feed = "live" => wanted = TRUE /\ running = FALSE
  <2>1. ~h.loaded
    BY <1>2, <1>3 DEF Hook, ReadsInTurn
  <2>2. /\ h.phase = "none" /\ ~h.retry /\ h.base.latest = 0 /\ t.older = 0
        /\ feed = "live" => wanted = TRUE /\ running = FALSE
    BY <2>1 DEF Hook, Turns, Types
  <2>3. h.reads["run"].state = "none" /\ h.reads["older"].state = "none"
    BY <2>2 DEF Hook, ReadsInTurn
  <2>4. h.reads["run"] = NoRead /\ h.reads["older"] = NoRead
    BY <1>1, <2>3, ReadIs DEF Hook, ReadsInTurn
  <2> QED BY <2>1, <2>2, <2>4
<1>5. HistoryEnds(r)
  BY <1>2, <1>3 DEF Pages
<1>6. /\ Last(r.page) \in 0..MaxMessages /\ Last(r.page) <= srv.count
      /\ Cursor(r.page) \in Nat /\ Cursor(r.page) <= srv.seq
      /\ r.page # {} => Last(r.page) # 0 /\ Cursor(r.page) # 0
      /\ r.page = {} => Last(r.page) = 0 /\ Cursor(r.page) = 0
      /\ Oldest(r) \in 0..MaxMessages /\ Oldest(r) <= srv.count
      /\ r.page = {} => Oldest(r) = 0
  BY <1>1, <1>2, <1>5, FirstPage
<1>7. PICK base : base = [latest |-> Last(r.page), cursor |-> Cursor(r.page)]
  OBVIOUS
<1>8. base \in Bases /\ base.latest = Last(r.page) /\ base.cursor = Cursor(r.page)
  BY <1>6, <1>7 DEF Bases
<1>9. PICK g : g = [h EXCEPT !.loaded = TRUE, !.reads["initial"] = NoRead, !.base = base]
  OBVIOUS
<1>10. /\ g \in Works /\ g.loaded /\ g.base = base /\ g.phase = "none" /\ ~g.retry /\ g.call = h.call
       /\ g.sent = h.sent /\ g.gone = h.gone /\ \A k \in ReadKinds : g.reads[k] = NoRead
  <2>1. PICK R \in [ReadKinds -> Reads] : R = [h.reads EXCEPT !["initial"] = NoRead]
    BY <1>1, ReadIs
  <2>2. \A k \in ReadKinds : R[k] = NoRead
    BY <1>1, <1>4, <2>1 DEF ReadKinds
  <2>3. g = [h EXCEPT !.loaded = TRUE, !.reads = R, !.base = base]
    BY <1>1, <1>9, <2>1 DEF Works
  <2> QED BY <1>1, <1>4, <1>8, <2>2, <2>3 DEF Works
<1>11. /\ t' = [Merge(t, r.page, TRUE) EXCEPT !.older = Oldest(r)]
       /\ IF feed = "live" THEN StartOwed(g, wanted, g.phase # "none")
          ELSE h' = g /\ UNCHANGED feedVars
  BY <1>2, <1>7, <1>9 DEF InitialArrives
<1>12. Lands("initial", TRUE) /\ t'.older = Oldest(r)
  BY <1>1, <1>2, <1>3, <1>6, <1>11, Landing
<1>13. /\ h' \in Works /\ SameButRun(g, h') /\ h'.base = base
       /\ \/ feed = "live" /\ Begun
          \/ feed # "live" /\ UNCHANGED feedVars /\ h' = g
  <2>1. CASE feed = "live"
    <3>1. h' = StartRun(g) /\ StayLive /\ running' /\ ~wanted'
      BY <1>4, <1>10, <1>11, <2>1 DEF StartOwed
    <3>2. PICK q \in Works :
            /\ q = StartRun(g) /\ SameButRun(g, q) /\ q.base = g.base /\ ~q.retry
            /\ q.phase = (IF g.base.latest = 0 THEN "first" ELSE "gap")
            /\ q.reads["run"] = Asked
      BY <1>10, StartRunIs
    <3>3. feed' = "live" /\ running' \in BOOLEAN /\ wanted' \in BOOLEAN
      BY <3>1 DEF StayLive
    <3>4. Begun
      BY <1>10, <3>1, <3>2, <3>3 DEF Begun, SameButRun
    <3> QED BY <1>10, <2>1, <3>1, <3>2, <3>4
  <2>2. CASE feed # "live"
    BY <1>10, <1>11, <2>2 DEF SameButRun
  <2> QED BY <2>1, <2>2
<1>14. /\ h'.reads["initial"] = NoRead /\ h'.reads["older"] = NoRead
       /\ h'.reads["run"] \in {NoRead, Asked}
       /\ h'.phase # "none" <=> h'.reads["run"].state # "none"
       /\ h'.loaded /\ ~h'.retry /\ h'.call = h.call /\ h'.sent = h.sent /\ h'.gone = h.gone
       /\ feed = "shut" <=> feed' = "shut"
       /\ Begun \/ Owed'
  <2>1. h'.reads["initial"] = NoRead /\ h'.reads["older"] = NoRead
    BY <1>1, <1>10, <1>13 DEF SameButRun
  <2>2. CASE feed = "live" /\ Begun
    BY <1>4, <1>10, <1>13, <2>1, <2>2, ReadIs DEF Begun, SameButRun
  <2>3. CASE feed # "live" /\ UNCHANGED feedVars /\ h' = g
    BY <1>1, <1>10, <2>1, <2>3, ReadIs DEF Owed, feedVars
  <2> QED BY <1>13, <2>2, <2>3
<1>15. Types'
  <2>1. feed' \in {"off", "live", "shut"} /\ wanted' \in BOOLEAN /\ running' \in BOOLEAN
    BY <1>13 DEF Begun, Types, feedVars
  <2> QED BY <1>3, <1>12, <1>13, <2>1 DEF Types, Lands, Carried
<1>16. Copies'
  <2>1. CallSound'
    BY <1>3, <1>14, CallKept DEF Copies
  <2>2. \A k \in ReadKinds : h'.reads[k].page \in {h.reads[k].page, {}}
    BY <1>14, ReadIs DEF ReadKinds
  <2> QED BY <1>3, <1>12, <2>1, <2>2, CopiesKept DEF Lands, Carried
<1>17. Screen'
  BY <1>3, <1>12, <1>14, ScreenKept DEF Lands, Carried
<1>18. Hook'
  <2>1. ReadsInTurn'
    BY <1>14, ReadIs DEF ReadsInTurn, ReadKinds
  <2>2. /\ h'.base.latest <= srv.count /\ h'.base.cursor <= srv.seq /\ t'.older <= srv.count
        /\ h'.base.latest = 0 => h'.base.cursor = 0 /\ t'.older = 0
    BY <1>6, <1>8, <1>12, <1>13
  <2>3. /\ h'.phase # "none" => ~h'.retry
        /\ h'.phase = "first" => h'.base.latest = 0
        /\ h'.phase \in {"gap", "update"} => h'.base.latest # 0
    <3>1. CASE feed = "live" /\ Begun
      BY <1>8, <1>13, <1>14, <3>1 DEF Begun, SameButRun
    <3>2. CASE feed # "live" /\ h' = g
      BY <1>10, <3>2
    <3> QED BY <1>13, <3>1, <3>2
  <2>4. feed' = "live" => running' = (h'.phase # "none")
    <3>1. CASE feed = "live" /\ Begun
      BY <3>1 DEF Begun
    <3>2. CASE feed # "live" /\ UNCHANGED feedVars
      BY <3>2 DEF feedVars
    <3> QED BY <1>13, <3>1, <3>2
  <2>5. Turns'
    BY <1>3, <1>14, <2>2, <2>3, <2>4 DEF Turns
  <2> QED BY <2>1, <2>5 DEF Hook
<1>19. Pages'
  BY <1>14, ReadIs DEF Pages
<1>20. Floor'
  <2>1. ASSUME NEW i \in Visible, Oldest(r) <= i, i <= Last(r.page) PROVE Known(t'.rows, i)
    BY <1>2, <1>5, <1>12, <2>1 DEF HistoryEnds, Lands
  <2>2. ASSUME NEW i \in Visible, srv.rows[i].seq <= Cursor(r.page), Oldest(r) <= i PROVE Has(i)'
    BY <1>2, <1>5, <1>12, <2>2 DEF HistoryEnds, Lands
  <2>3. Visible' = Visible /\ \A i : ~InPage(h'.reads["older"], i)
    BY <1>3, <1>14, ReadIs DEF Visible, Posted, InPage
  <2> QED BY <1>3, <1>8, <1>12, <1>13, <2>1, <2>2, <2>3 DEF Floor, InPage
<1>21. Promised'
  BY <1>14, PromisedAnew
<1> QED BY <1>15, <1>16, <1>17, <1>18, <1>19, <1>20, <1>21

LEMMA OlderArriving ==
  ASSUME TranscriptInv, OlderArrives
  PROVE  TranscriptInv'
<1> USE DEF TranscriptInv
<1>1. "initial" \in ReadKinds /\ "older" \in ReadKinds /\ "run" \in ReadKinds /\ h \in Works
      /\ h.reads \in [ReadKinds -> Reads]
  BY DEF ReadKinds, Types, Works
<1>2. PICK r \in Reads : r = h.reads["older"]
  BY <1>1
<1>3. /\ r.state = "answered" /\ UNCHANGED <<feedVars, srv, wire>>
      /\ t' = [Merge(t, r.page, TRUE) EXCEPT !.older = Oldest(r)]
      /\ h' = [h EXCEPT !.reads["older"] = NoRead]
  BY <1>2 DEF OlderArrives
<1>4. t.older # 0 /\ h.base.latest # 0
  BY <1>2, <1>3, ReadIs DEF Hook, ReadsInTurn, Turns
<1>5. /\ r.more => r.page # {}
      /\ \A i \in Visible : Oldest(r) <= i /\ i < t.older => InPage(r, i)
  BY <1>2, <1>3 DEF Pages
<1>6. Oldest(r) \in 0..MaxMessages /\ Oldest(r) <= srv.count
  <2>1. /\ Oldest(r) \in 0..MaxMessages
        /\ ~r.more => Oldest(r) = 0
        /\ r.more => \E p \in r.page : p[1] = Oldest(r)
    BY <1>5, OldestIs
  <2>2. \A p \in r.page : p[1] \in Posted
    BY <1>1, <1>2, PageBehind
  <2>3. srv.count \in Nat
    BY DEF Types, Servers
  <2> QED BY <2>1, <2>2, <2>3 DEF Posted
<1>7. Lands("older", TRUE) /\ t'.older = Oldest(r)
  BY <1>1, <1>2, <1>3, <1>6, Landing
<1>8. /\ h' \in Works /\ h'.reads = [h.reads EXCEPT !["older"] = NoRead]
      /\ h'.loaded = h.loaded /\ h'.call = h.call /\ h'.sent = h.sent /\ h'.gone = h.gone
      /\ h'.base = h.base /\ h'.phase = h.phase /\ h'.retry = h.retry
  <2>1. PICK R \in [ReadKinds -> Reads] : R = [h.reads EXCEPT !["older"] = NoRead]
    BY <1>1, ReadIs
  <2>2. h' = [h EXCEPT !.reads = R]
    BY <1>1, <1>3, <2>1 DEF Works
  <2> QED BY <1>1, <2>1, <2>2 DEF Works
<1>9. h'.reads["older"] = NoRead /\ \A k \in ReadKinds : k # "older" => h'.reads[k] = h.reads[k]
  BY <1>1, <1>8
<1>10. Types'
  BY <1>3, <1>7, <1>8 DEF Types, Lands, Carried, feedVars
<1>11. Copies'
  <2>1. CallSound'
    BY <1>3, <1>8, CallKept DEF Copies
  <2>2. \A k \in ReadKinds : h'.reads[k].page \in {h.reads[k].page, {}}
    BY <1>9, ReadIs
  <2> QED BY <1>3, <1>7, <2>1, <2>2, CopiesKept DEF Lands, Carried
<1>12. Screen'
  BY <1>3, <1>7, <1>8, ScreenKept DEF Lands, Carried, feedVars
<1>13. Hook'
  <2>1. ReadsInTurn'
    BY <1>1, <1>8, <1>9, ReadIs DEF Hook, ReadsInTurn
  <2>2. Turns'
    BY <1>3, <1>4, <1>6, <1>7, <1>8 DEF Hook, Turns, feedVars
  <2> QED BY <2>1, <2>2 DEF Hook
<1>14. Visible' = Visible /\ srv' = srv
  BY <1>3 DEF Visible, Posted
<1>15. Pages'
  <2>1. ASSUME NEW q, HistoryEnds(q) PROVE HistoryEnds(q)'
    BY <1>14, <2>1 DEF HistoryEnds, InPage, Brings, Oldest, Last, Cursor
  <2>2. PICK ini, run : /\ ini = h.reads["initial"] /\ ini = h'.reads["initial"]
                        /\ run = h.reads["run"] /\ run = h'.reads["run"]
    BY <1>1, <1>9
  <2>3. ini.state = "answered" => HistoryEnds(ini)'
    BY <2>1, <2>2 DEF Pages
  <2>4. run.state = "answered" /\ h.phase = "first" => HistoryEnds(run)'
    BY <2>1, <2>2 DEF Pages
  <2>5. run.state = "answered" /\ h.phase = "gap" => \A i \in Visible :
          h.base.latest < i /\ i <= Last(run.page) => InPage(run, i)
    BY <2>2 DEF Pages
  <2>6. run.state = "answered" /\ h.phase = "update" => \A i \in Visible :
          h.base.cursor < srv.rows[i].seq /\ srv.rows[i].seq <= Cursor(run.page) => Brings(run, i)
    BY <2>2 DEF Pages
  <2>7. /\ \A i : Brings(run, i) => Brings(run, i)'
        /\ Last(run.page)' = Last(run.page) /\ Cursor(run.page)' = Cursor(run.page)
    BY <1>14 DEF Brings, Last, Cursor
  <2>8. h'.reads["older"].state # "answered"
    BY <1>9, ReadIs
  <2> QED BY <1>8, <1>14, <2>2, <2>3, <2>4, <2>5, <2>6, <2>7, <2>8 DEF Pages, InPage
<1>16. \A i : ~InPage(h'.reads["older"], i)
  BY <1>9, ReadIs DEF InPage
<1>17. \A i \in Visible : /\ i \in Nat /\ t.older \in Nat
                          /\ Known(t.rows, i) => Known(t'.rows, i)
                          /\ Has(i) => Has(i)'
                          /\ InPage(h.reads["older"], i) => Known(t'.rows, i)
                          /\ Brings(h.reads["older"], i) => Has(i)'
  BY <1>7, VisibleIs DEF Lands, Carried, Gains, Types, Transcripts, Ids
<1>18. \A i \in Visible : Oldest(r) <= i => t.older <= i \/ InPage(h.reads["older"], i)
  <2>1. \A i \in Visible : t.older <= i \/ i < t.older
    BY <1>17
  <2> QED BY <1>2, <1>5, <2>1
<1>19. Floor'
  <2>1. ASSUME NEW i \in Visible, Oldest(r) <= i, i <= h.base.latest PROVE Known(t'.rows, i)
    BY <1>17, <1>18, <2>1 DEF Floor
  <2>2. ASSUME NEW i \in Visible, srv.rows[i].seq <= h.base.cursor, Oldest(r) <= i PROVE Has(i)'
    BY <1>17, <1>18, <2>2 DEF Floor
  <2> QED BY <1>7, <1>8, <1>14, <1>16, <2>1, <2>2 DEF Floor, InPage
<1>20. Promised'
  <2>1. ASSUME ~Owed', NEW i \in Visible, Oldest(r) <= i PROVE Met(i)' /\ Coming(i)'
    <3>1. ~Owed
      BY <1>3, <1>8, <2>1 DEF Owed, feedVars
    <3>2. PICK run : run = h.reads["run"] /\ run = h'.reads["run"]
      BY <1>1, <1>9
    <3>3. (RunFinds(i) => RunFinds(i)') /\ (RunAsks => RunAsks') /\ (Brings(run, i) => Brings(run, i)')
      BY <1>8, <1>14, <3>2 DEF RunFinds, RunAsks, AskedRun, InPage, Oldest, Brings
    <3>4. (OnWire(i) => OnWire(i)') /\ (Announced(i) => Announced(i)')
      BY <1>3 DEF OnWire, Announced
    <3>5. Met(i) => Met(i)'
      BY <1>17, <3>3, <3>4 DEF Met
    <3>6. Coming(i) => Coming(i)'
      BY <1>17, <3>2, <3>3, <3>4 DEF Coming
    <3>7. CASE t.older <= i
      BY <3>1, <3>5, <3>6, <3>7 DEF Promised
    <3>8. CASE InPage(h.reads["older"], i)
      <4>1. Met(i)'
        BY <1>17, <3>8 DEF Met
      <4>2. Coming(i)'
        BY <1>17, <3>1, <3>6, <3>8 DEF Promised, Coming
      <4> QED BY <4>1, <4>2
    <3> QED BY <1>18, <2>1, <3>7, <3>8
  <2> QED BY <1>7, <1>14, <1>16, <2>1 DEF Promised, InPage
<1> QED BY <1>10, <1>11, <1>12, <1>13, <1>15, <1>19, <1>20

-----------------------------------------------------------------------------
(* Every step of the specification.                                        *)

LEMMA InitSound == TranscriptInit => TranscriptInv
<1> SUFFICES ASSUME TranscriptInit PROVE TranscriptInv
  OBVIOUS
<1>1. /\ feed = "off" /\ wanted = FALSE /\ running = FALSE /\ wire = {} /\ t = EmptyTranscript /\ h = NoWork
      /\ srv = [count |-> 0, seq |-> 0, hidden |-> {}, rows |-> [i \in Ids |-> NoRow]]
  BY DEF TranscriptInit, FeedInit
<1>2. /\ t \in Transcripts /\ t.hidden = {} /\ t.pending = "none" /\ t.older = 0
      /\ \A i \in Ids : t.rows[i] = NoRow /\ t.deferred[i] = NoPatch
  BY <1>1, EmptyIs
<1>3. PICK q \in Works :
         /\ q = NoWork /\ q.loaded = FALSE
         /\ q.base.latest = 0 /\ q.base.cursor = 0
         /\ q.phase = "none" /\ ~q.retry /\ q.call = NoCall /\ ~q.sent /\ q.gone = {}
         /\ \A k \in ReadKinds : q.reads[k] = NoRead
  BY NoWorkIs
<1>4. h = q
  BY <1>1, <1>3
<1>5. PICK R \in [Ids -> AnyRow] : R = [i \in Ids |-> NoRow]
  BY NoRowIs
<1>6. /\ srv \in Servers /\ srv.count = 0 /\ srv.seq = 0 /\ srv.hidden = {}
      /\ \A i \in Ids : srv.rows[i] = NoRow
  <2>1. srv = [count |-> 0, seq |-> 0, hidden |-> {}, rows |-> R]
    BY <1>1, <1>5
  <2>2. 0 \in 0..MaxMessages
    OBVIOUS
  <2> QED BY <1>5, <2>1, <2>2 DEF Servers
<1>7. Posted = {} /\ Visible = {} /\ OwnPosted = {}
  BY <1>6 DEF Posted, Visible, OwnPosted
<1>8. Types
  BY <1>1, <1>2, <1>3, <1>4, <1>6 DEF Types
<1>9. Copies
  <2>1. ServerSound
    BY <1>6, <1>7, NoRowIs DEF ServerSound
  <2>2. CallSound
    BY <1>3, <1>4 DEF CallSound, NoCall, Sends
  <2>3. TranscriptOf(t, srv.rows)
    BY <1>2, <1>6, NoRowIs, NoPatchOf DEF TranscriptOf, Known
  <2>4. \A k \in ReadKinds : PageOf(h.reads[k].page, srv.rows)
    BY <1>3, <1>4, ReadIs DEF PageOf, OneRowEach
  <2> QED BY <1>1, <2>1, <2>2, <2>3, <2>4 DEF Copies
<1>10. Screen
  BY <1>2, <1>3, <1>4, <1>7 DEF Screen, HiddenAway, PendingAlone, NoCall, Sends
<1>11. Hook
  <2>1. ReadsInTurn
    BY <1>3, <1>4, ReadIs DEF ReadsInTurn, ReadKinds
  <2>2. Turns
    BY <1>1, <1>2, <1>3, <1>4, <1>6 DEF Turns
  <2> QED BY <2>1, <2>2 DEF Hook
<1>12. Pages
  BY <1>3, <1>4, ReadIs DEF Pages, ReadKinds
<1>13. Floor /\ Promised
  BY <1>7 DEF Floor, Promised
<1> QED BY <1>8, <1>9, <1>10, <1>11, <1>12, <1>13 DEF TranscriptInv

LEMMA Standing ==
  ASSUME TranscriptInv, UNCHANGED transcriptVars
  PROVE  TranscriptInv'
<1> USE DEF TranscriptInv
<1>1. UNCHANGED feedVars /\ srv' = srv /\ wire' = wire /\ t' = t /\ h' = h
  BY DEF transcriptVars, feedVars
<1>2. Types' /\ Screen' /\ SameReads
  BY <1>1 DEF Types, Screen, HiddenAway, PendingAlone, OwnPosted, Posted, SameReads, feedVars
<1>3. CallSound'
  BY <1>1, CallKept DEF Copies
<1>4. Advanced(t, t', srv.rows)
  BY <1>1, SameAdvanced
<1> QED BY <1>1, <1>2, <1>3, <1>4, SameWire, AdvancingStep

LEMMA StepSound ==
  ASSUME TranscriptInv, TranscriptNext
  PROVE  TranscriptInv'
<1>1. CASE OthersChange
  BY <1>1, OthersChanging
<1>2. CASE RunReceives
  BY <1>2, RunReceiving
<1>3. CASE RunFails
  BY <1>3, RunFailing
<1>4. CASE RetryRun
  BY <1>4, Retrying
<1>5. CASE FeedGoesLive
  BY <1>5, GoingLive
<1>6. CASE Kicked
  BY <1>6, BeingKicked
<1>7. CASE LoadInitial
  BY <1>7, Loading
<1>8. CASE InitialArrives
  BY <1>8, InitialArriving
<1>9. CASE LoadOlder
  BY <1>9, LoadingOlder
<1>10. CASE OlderArrives
  BY <1>10, OlderArriving
<1>11. CASE Send
  BY <1>11, Sending
<1>12. CASE ServerMutates
  BY <1>12, ServerMutating
<1>13. CASE CallReturns
  BY <1>13, Returning
<1>14. CASE \E how \in {"retried", "lost", "suspended"} : FeedGoesOff(how)
  BY <1>14, GoingOff
<1>15. CASE \E k \in {"initial", "older", "run"} : ServerAnswers(k)
  BY <1>15, ServerAnswering DEF ReadKinds
<1>16. CASE \E k \in {"initial", "older"} : ReadFails(k)
  BY <1>16, ReadFailing
<1>17. CASE \E e \in wire : EventArrives(e) \/ EventLost(e)
  BY <1>17, Arriving, Losing
<1>18. CASE \E kind \in {"react", "delete", "hide"}, i \in Ids : Mutate(kind, i)
  BY <1>18, Mutating
<1>19. CASE \E blocked \in BOOLEAN : CallFails(blocked)
  BY <1>19, CallFailing
<1> QED BY <1>1, <1>2, <1>3, <1>4, <1>5, <1>6, <1>7, <1>8, <1>9, <1>10, <1>11, <1>12, <1>13, <1>14,
           <1>15, <1>16, <1>17, <1>18, <1>19 DEF TranscriptNext

\* The inductive invariant of the reducer (transcriptReducer.ts), the reads, runs and
\* mutations of the hook (useTripChat.ts), the events on their way and the server.
THEOREM TranscriptInvariant == TranscriptSpec => []TranscriptInv
<1>1. TranscriptInv /\ [TranscriptNext]_transcriptVars => TranscriptInv'
  BY StepSound, Standing
<1> QED BY <1>1, InitSound, PTL DEF TranscriptSpec

LEMMA TypesTold == TranscriptInv => TranscriptTypeOK
BY DEF TranscriptInv, Types, Transcripts, Works, Hook, Turns, TranscriptTypeOK

\* Types of the transcript and of the hook's work; while the feed is live its busy flag
\* is the phase of the run (runCatchUp).
THEOREM TranscriptTyped == TranscriptSpec => []TranscriptTypeOK
BY TranscriptInvariant, TypesTold, PTL

LEMMA ConvergenceTold == TranscriptInv => TranscriptConverges
<1> SUFFICES ASSUME TranscriptInv, CaughtUp, NEW i \in Visible, i >= t.older
             PROVE  /\ Known(t.rows, i)
                    /\ t.rows[i].seq = srv.rows[i].seq
                    /\ t.rows[i].reacts = srv.rows[i].reacts
                    /\ t.rows[i].deleted = srv.rows[i].deleted
  BY DEF TranscriptConverges
<1> USE DEF TranscriptInv
<1>1. /\ feed = "live" /\ h.loaded /\ ~wanted /\ ~running /\ ~h.retry /\ wire = {}
      /\ h.phase = "none"
  BY DEF CaughtUp, Hook, Turns
<1>2. h.reads["run"] = NoRead
  <2>1. h.reads["run"].state = "none"
    BY <1>1 DEF Hook, ReadsInTurn
  <2>2. "run" \in ReadKinds
    BY DEF ReadKinds
  <2> QED BY <2>1, <2>2, ReadIs DEF Hook, ReadsInTurn
<1>3. ~Owed /\ ~RunAsks /\ ~RunFinds(i) /\ ~OnWire(i) /\ ~Announced(i) /\ ~Brings(h.reads["run"], i)
  BY <1>1, <1>2, ReadIs DEF Owed, RunAsks, RunFinds, OnWire, Announced, Brings
<1>4. i \in Ids /\ t.older <= i
  BY VisibleIs DEF Types, Transcripts, Ids
<1>5. Known(t.rows, i) /\ Has(i)
  BY <1>3, <1>4 DEF Promised, Met, Coming
<1>6. CopyOf(t.rows[i], srv.rows[i])
  BY <1>4, <1>5 DEF Copies, TranscriptOf
<1> QED BY <1>5, <1>6 DEF Has, HasLast, CopyOf

\* Whatever was lost, reordered or retried, once a live feed has caught up the transcript
\* has every message down to its oldest page, with the change, the reactions and the
\* deletion of the server (mergeMessages, runCatchUp).
THEOREM TranscriptAlwaysConverges == TranscriptSpec => []TranscriptConverges
BY TranscriptInvariant, ConvergenceTold, PTL

-----------------------------------------------------------------------------
(* The screen.                                                             *)

\* h.gone are the messages the user hid.
LEMMA BubbleTold == TranscriptInv => OneBubble
<1> SUFFICES ASSUME TranscriptInv PROVE OneBubble
  OBVIOUS
<1>1. \A i \in Shown : i \in Ids /\ Known(t.rows, i)
  BY DEF Shown
<1>2. \A i \in Shown : i \notin h.gone
  BY <1>1 DEF TranscriptInv, Screen, HiddenAway, Known
<1>3. t.pending # "none" => \A i \in Shown : t.rows[i].sender # "own"
  BY <1>1 DEF TranscriptInv, Screen, PendingAlone
<1> QED BY <1>2, <1>3 DEF OneBubble

\* A step of RowsNeverRegress.
RowsKeep ==
  \A i \in Ids : Known(t.rows, i) /\ Known(t'.rows, i) =>
    t'.rows[i].seq >= t.rows[i].seq /\ (t.rows[i].deleted => t'.rows[i].deleted)

LEMMA SameRowsKeep ==
  ASSUME TranscriptInv, t'.rows = t.rows
  PROVE  RowsKeep
<1>1. \A i \in Ids : t.rows[i].seq \in Nat
  BY DEF TranscriptInv, Types, Transcripts, AnyRow
<1> QED BY <1>1 DEF RowsKeep

LEMMA GrownKeep ==
  ASSUME NEW s \in Transcripts, Advanced(t, s, srv.rows), t'.rows = s.rows
  PROVE  RowsKeep
BY DEF RowsKeep, Advanced, Grown, Known

\* A page is merged, whatever else the step does.
LEMMA LandingKeeps ==
  ASSUME TranscriptInv, NEW k \in ReadKinds, NEW upsert \in BOOLEAN, NEW old,
         \/ t' = [Merge(t, h.reads[k].page, upsert) EXCEPT !.older = old]
         \/ t' = Merge(t, h.reads[k].page, upsert)
  PROVE  RowsKeep
<1> USE DEF TranscriptInv
<1>1. PICK page \in SUBSET (Ids \X AnyRow) : page = h.reads[k].page
  BY DEF Types, Works, Reads
<1>2. /\ PageOf(page, srv.rows) /\ TranscriptOf(t, srv.rows) /\ HiddenAway(t) /\ PendingAlone(t)
      /\ t \in Transcripts /\ srv.rows \in [Ids -> AnyRow]
  BY <1>1 DEF Copies, Screen, Types, Servers
<1>3. PICK q \in Transcripts : q = Merge(t, page, upsert) /\ Advanced(t, q, srv.rows)
  BY <1>2, MergeAdvances
<1>4. t'.rows = q.rows
  <2>1. CASE t' = [q EXCEPT !.older = old]
    BY <2>1 DEF Transcripts
  <2>2. CASE t' = q
    BY <2>2
  <2> QED BY <1>1, <1>3, <2>1, <2>2
<1> QED BY <1>3, <1>4, GrownKeep

LEMMA RunKeeps ==
  ASSUME TranscriptInv, RunReceives
  PROVE  RowsKeep
<1>1. "run" \in ReadKinds
  BY DEF ReadKinds
<1>2. CASE UNCHANGED t
  BY <1>2, SameRowsKeep
<1>3. CASE TakeFirst(h.reads["run"])
  BY <1>1, <1>3, LandingKeeps DEF TakeFirst
<1>4. CASE TakeGap(h.reads["run"])
  BY <1>1, <1>4, LandingKeeps DEF TakeGap
<1>5. CASE TakeUpdate(h.reads["run"])
  BY <1>1, <1>5, LandingKeeps DEF TakeUpdate
<1> QED BY <1>2, <1>3, <1>4, <1>5 DEF RunReceives

LEMMA CallKeeps ==
  ASSUME TranscriptInv, CallReturns
  PROVE  RowsKeep
<1>1. CASE h.call.kind # "hide"
  BY <1>1, CallReturning, GrownKeep
<1>2. CASE h.call.kind = "hide"
  <2>1. PICK i : i = h.call.id
    OBVIOUS
  <2>2. t' = Hide(t, i) /\ t \in Transcripts
    BY <1>2, <2>1 DEF CallReturns, Sends, TranscriptInv, Types
  <2>3. t'.rows = [t.rows EXCEPT ![i] = NoRow]
    BY <2>2 DEF Hide, Transcripts
  <2>4. \A j \in Ids : t'.rows[j] = t.rows[j] \/ ~Known(t'.rows, j)
    BY <2>2, <2>3 DEF Transcripts, Known
  <2>5. \A j \in Ids : t.rows[j].seq \in Nat
    BY <2>2 DEF Transcripts, AnyRow
  <2> QED BY <2>4, <2>5 DEF RowsKeep
<1> QED BY <1>1, <1>2

LEMMA StepKeeps ==
  ASSUME TranscriptInv, TranscriptNext
  PROVE  RowsKeep
<1>1. t \in Transcripts
  BY DEF TranscriptInv, Types
<1>2. CASE OthersChange \/ RunFails \/ RetryRun \/ FeedGoesLive \/ LoadInitial \/ LoadOlder
  BY <1>2, SameRowsKeep DEF OthersChange, RunFails, RetryRun, FeedGoesLive, LoadInitial, LoadOlder
<1>3. CASE ServerMutates \/ \E k \in {"initial", "older", "run"} : ServerAnswers(k)
  BY <1>3, SameRowsKeep DEF ServerMutates, ServerAnswers
<1>4. CASE \E k \in {"initial", "older"} : ReadFails(k)
  BY <1>4, SameRowsKeep DEF ReadFails
<1>5. CASE RunReceives
  BY <1>5, RunKeeps
<1>6. CASE Kicked
  <2>1. t' = EmptyTranscript
    BY <1>6 DEF Kicked
  <2> QED BY <2>1, EmptyIs DEF RowsKeep, Known
<1>7. CASE InitialArrives
  <2>1. t' = [Merge(t, h.reads["initial"].page, TRUE) EXCEPT !.older = Oldest(h.reads["initial"])]
    BY <1>7 DEF InitialArrives
  <2> QED BY <2>1, LandingKeeps DEF ReadKinds
<1>8. CASE OlderArrives
  <2>1. t' = [Merge(t, h.reads["older"].page, TRUE) EXCEPT !.older = Oldest(h.reads["older"])]
    BY <1>8 DEF OlderArrives
  <2> QED BY <2>1, LandingKeeps DEF ReadKinds
<1>9. CASE Send
  <2>1. t'.rows = t.rows
    BY <1>1, <1>9 DEF Send, Transcripts
  <2> QED BY <2>1, SameRowsKeep
<1>10. CASE CallReturns
  BY <1>10, CallKeeps
<1>11. CASE \E how \in {"retried", "lost", "suspended"} : FeedGoesOff(how)
  <2>1. t'.rows = t.rows
    BY <1>1, <1>11 DEF FeedGoesOff, Suspend, Transcripts
  <2> QED BY <2>1, SameRowsKeep
<1>12. CASE \E e \in wire : EventArrives(e)
  BY <1>12, EventTaken, GrownKeep
<1>13. CASE \E e \in wire : EventLost(e)
  BY <1>13, SameRowsKeep DEF EventLost
<1>14. CASE \E kind \in {"react", "delete", "hide"}, i \in Ids : Mutate(kind, i)
  <2>1. t'.rows = t.rows
    BY <1>1, <1>14 DEF Mutate, Transcripts
  <2> QED BY <2>1, SameRowsKeep
<1>15. CASE \E blocked \in BOOLEAN : CallFails(blocked)
  <2>1. PICK blocked \in BOOLEAN : CallFails(blocked)
    BY <1>15
  <2>2. \/ t' = t
        \/ t' = [t EXCEPT !.reacting = @ \ {h.call.id}]
        \/ t' = [t EXCEPT !.deleting = @ \ {h.call.id}]
        \/ \E p : t' = [t EXCEPT !.pending = p]
    <3>1. h.call.kind \in {"send", "resend", "react", "delete", "hide"}
      <4>1. h.call # NoCall /\ h.call \in Callings /\ CallSound
        BY <2>1 DEF CallFails, TranscriptInv, Types, Works, Copies
      <4> QED BY <4>1 DEF CallSound, Callings
    <3> QED BY <2>1, <3>1 DEF CallFails, Sends
  <2>3. t'.rows = t.rows
    BY <1>1, <2>2 DEF Transcripts
  <2> QED BY <2>3, SameRowsKeep
<1> QED BY <1>2, <1>3, <1>4, <1>5, <1>6, <1>7, <1>8, <1>9, <1>10, <1>11, <1>12, <1>13, <1>14, <1>15
        DEF TranscriptNext

\* What the user hid is not shown, a message is shown as pending or as a row and not as
\* both, no row goes back to an earlier change, and a deleted row stays deleted, whichever
\* page, event or answer comes late (shouldReplaceFullMessage, HIDE_MESSAGES,
\* CONFIRM_PENDING).
THEOREM TranscriptStaysSteady == TranscriptSpec => TranscriptSteady
<1>1. TranscriptInv /\ [TranscriptNext]_transcriptVars =>
        [\A i \in Ids : Known(t.rows, i) /\ Known(t.rows, i)' =>
           t'.rows[i].seq >= t.rows[i].seq /\ (t.rows[i].deleted => t'.rows[i].deleted)]_transcriptVars
  BY StepKeeps DEF RowsKeep, Known
<1> QED BY <1>1, TranscriptInvariant, BubbleTold, PTL DEF TranscriptSpec, TranscriptSteady, RowsNeverRegress
=============================================================================
