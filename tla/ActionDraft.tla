---------------------------- MODULE ActionDraft ----------------------------
(***************************************************************************)
(* One change of the trip that GoPlanAI drafted, from the row that waits   *)
(* for a confirmation (backend/ai) to the card of one phone                *)
(* (AIActionDraftCardController.tsx).  Other members edit, confirm and     *)
(* cancel the draft, the trip changes under it, it expires, and the phone  *)
(* asks before every change whether the draft is still what its user read. *)
(* The draft is about an object of the trip, as six of the twelve actions  *)
(* are; the phone's user is not the one who asked for it.                  *)
(*                                                                         *)
(* Every service holds the row lock of the trip and is one action; a       *)
(* failed confirmation is recorded by a second transaction.  The phone     *)
(* stays in the room and its feed brings every change of the message       *)
(* (ChatTranscript shows how).  Field values under edit, feedback, focus,  *)
(* the wait a 429 asks for and the expiry clock of the card are left out:  *)
(* the last two only make the card refuse a button more often.             *)
(***************************************************************************)
EXTENDS Naturals, Sequences

CONSTANTS
  MaxBodies,   \* bound: versions of the payload
  MaxMoves,    \* bound: moves of the trip around the draft
  MaxNews      \* bound: events on their way to the phone

ASSUME DraftBounds ==
  MaxBodies \in Nat \ {0} /\ MaxMoves \in Nat /\ MaxNews \in Nat \ {0}

VARIABLES
  draft,    \* the row; seq is the change_sequence of its message
  trip,     \* what the services look at: clock, target, authority, status
  marking,  \* whose failed confirmation waits for its second transaction
  ran,      \* the executions of the drafted action
  feed,     \* push owed, message being read by the consumer, events sent
  copy,     \* the message in the phone's transcript
  over,     \* the draft that overlays it
  card,     \* the card, in the list, there with its buttons locked, or recycled
            \* away; and its session, which outlives it
  op,       \* the operation of the card in progress
  stray,    \* a confirmation the phone asked for and no longer waits for may arrive
  past      \* history: unheard confirmation, approved payloads, publications

serverVars == <<draft, trip, marking, ran>>
shownVars == <<copy, over>>
phoneVars == <<copy, over, card, op, stray, past>>
draftVars == <<serverVars, feed, phoneVars>>

Waiting == {"NEEDS_INFO", "READY"}
Final == {"CONFIRMED", "CANCELLED", "EXPIRED", "FAILED"}
Changes == {"confirm", "cancel", "patch"}

-----------------------------------------------------------------------------
(* The row as the phone's user gets it.                                    *)

NoView == [status |-> "none", body |-> 0, can |-> FALSE]

\* A waiting draft past expires_at is shown as expired.  The three permissions
\* of the phone's user are one, the authority over a draft that still waits.
ViewOf(d) ==
  LET expired == d.status \in Waiting /\ trip.late
  IN [status |-> IF expired THEN "EXPIRED" ELSE d.status, body |-> d.body,
      can |-> d.status \in Waiting /\ ~expired /\ trip.authority]

View == ViewOf(draft)

May(kind, v) ==
  /\ v.can
  /\ kind = "confirm" => v.status = "READY"
  /\ kind = "patch" => v.status = "NEEDS_INFO"

\* The phone's transcript as its cards see it.
Shown == IF over.view = NoView THEN copy.view ELSE over.view

NoOp == [kind |-> "none", stage |-> "none", code |-> "none", view |-> NoView, seen |-> NoView]

DraftInit ==
  /\ draft \in [status : Waiting, body : {1}, base : {0}, seq : {1}]
  /\ trip = [late |-> FALSE, closed |-> FALSE, authority |-> TRUE, target |-> 0, moves |-> 0]
  /\ marking = {} /\ ran = <<>>
  /\ feed = [owed |-> FALSE, reading |-> 0, news |-> <<>>]
  /\ copy = [seq |-> 1, view |-> View] /\ over = [view |-> NoView, prior |-> {}]
  /\ card = [place |-> "list", src |-> View, draft |-> View, unknown |-> FALSE]
  /\ op = NoOp /\ stray = FALSE
  /\ past = [doubt |-> FALSE, approved |-> {}, told |-> 0]

-----------------------------------------------------------------------------
(* The services.  A request comes from the phone's operation, from one the *)
(* phone no longer waits for, or from another member; an edit or a cancel  *)
(* the phone no longer waits for is like another member's.                 *)

Asked(kind, who) ==
  \/ who = "phone" /\ op.kind = kind /\ op.stage = "mutation" /\ op.code = "none"
                   /\ "phone" \notin marking
  \/ who = "stray" /\ stray /\ kind = "confirm"
  \/ who = "other"

Answer(who, code, view) ==
  /\ op' = IF who = "phone" THEN [op EXCEPT !.code = code, !.view = view] ELSE op
  /\ stray' = (stray /\ who # "stray")

\* mark_ai_response_message_changed: the message moves with the draft, and is
\* pushed after the commit.
Save(d) ==
  /\ draft' = [d EXCEPT !.seq = draft.seq + 1]
  /\ feed' = [feed EXCEPT !.owed = TRUE]

Refuse(who, view) == Answer(who, "refused", view) /\ UNCHANGED <<draft, feed>>

Authorised(who) == who = "other" \/ trip.authority

Expire(who) ==
  LET d == [draft EXCEPT !.status = "EXPIRED"]
  IN Save(d) /\ Answer(who, "refused", ViewOf(d))

\* The services the payload is executed with may also refuse it.
Fails(who) ==
  /\ marking' = marking \cup {IF who = "phone" THEN "phone" ELSE "other"}
  /\ stray' = (stray /\ who # "stray")
  /\ UNCHANGED <<draft, ran, feed, op>>

Execute(who) ==
  LET d == [draft EXCEPT !.status = "CONFIRMED"]
  IN /\ ran' = Append(ran, [by |-> who, body |-> draft.body, base |-> draft.base,
                            target |-> trip.target, late |-> trip.late])
     /\ Save(d) /\ Answer(who, "ok", ViewOf(d)) /\ UNCHANGED marking

CheckPreconditions == draft.base = trip.target

ConfirmActionDraft(who) ==
  /\ Asked("confirm", who)
  /\ \/ /\ draft.status = "CONFIRMED"
        /\ Answer(who, "ok", View) /\ UNCHANGED <<draft, feed, marking, ran>>
     \/ /\ draft.status # "CONFIRMED"
        /\ \/ /\ trip.closed \/ draft.status # "READY" \/ ~trip.late
              /\ Refuse(who, NoView)  \* or no authority, or an unfit payload
           \/ draft.status = "READY" /\ ~trip.closed /\ trip.late /\ Expire(who)
        /\ UNCHANGED <<marking, ran>>
     \/ /\ draft.status = "READY" /\ ~trip.closed /\ ~trip.late /\ Authorised(who)
        /\ Fails(who) \/ (CheckPreconditions /\ Execute(who))
  /\ UNCHANGED <<trip, copy, over, card, past>>

\* The failure stands only while nobody else has settled the draft.
MarkActionDraftFailed(who) ==
  /\ who \in marking /\ marking' = marking \ {who}
  /\ LET failed == ~trip.closed /\ draft.status = "READY"
         d == [draft EXCEPT !.status = "FAILED"]
     IN \/ failed /\ Save(d) /\ Answer(who, "refused", ViewOf(d))
        \/ ~failed /\ Refuse(who, IF draft.status = "FAILED" THEN View ELSE NoView)
  /\ UNCHANGED <<trip, ran, copy, over, card, past>>

\* Mutant: a draft that is ready may still be edited.
EditableWhileWaiting == draft.status \in Waiting

Editable == draft.status = "NEEDS_INFO"

PatchActionDraft(who) ==
  /\ Asked("patch", who)
  /\ \/ Refuse(who, NoView)             \* closed, malformed, not waiting, no authority
     \/ ~trip.closed /\ draft.status \in Waiting /\ trip.late /\ Expire(who)
     \/ ~trip.closed /\ Refuse(who, View)  \* a field does not fit
     \/ /\ ~trip.closed /\ Editable /\ ~trip.late /\ Authorised(who)
        /\ \/ Answer(who, "ok", View) /\ UNCHANGED <<draft, feed>>
           \/ /\ draft.body < MaxBodies
              /\ \E status \in Waiting :
                   LET d == [draft EXCEPT !.status = status, !.body = @ + 1, !.base = trip.target]
                   IN Save(d) /\ Answer(who, "ok", ViewOf(d))
  /\ UNCHANGED <<trip, marking, ran, copy, over, card, past>>

CancelActionDraft(who) ==
  /\ Asked("cancel", who)
  /\ \/ draft.status \in Final /\ Answer(who, "ok", View) /\ UNCHANGED <<draft, feed>>
     \/ /\ draft.status \in Waiting
        /\ trip.closed \/ (~trip.late /\ ~Authorised(who))
        /\ Refuse(who, NoView)
     \/ draft.status \in Waiting /\ ~trip.closed /\ trip.late /\ Expire(who)
     \/ /\ draft.status \in Waiting /\ ~trip.closed /\ ~trip.late /\ Authorised(who)
        /\ LET d == [draft EXCEPT !.status = "CANCELLED"]
           IN Save(d) /\ Answer(who, "ok", ViewOf(d))
  /\ UNCHANGED <<trip, marking, ran, copy, over, card, past>>

GetActionDraft ==
  /\ op.stage \in {"preflight", "status"} /\ op.code = "none"
  /\ op' = [op EXCEPT !.code = "ok", !.view = View]
  /\ UNCHANGED <<serverVars, feed, copy, over, card, stray, past>>

\* The trip around the draft.
TripMoves ==
  /\ trip.moves < MaxMoves
  /\ \E t \in {[trip EXCEPT !.late = TRUE], [trip EXCEPT !.closed = TRUE],
               [trip EXCEPT !.target = @ + 1], [trip EXCEPT !.authority = ~@]} :
       t # trip /\ trip' = [t EXCEPT !.moves = @ + 1]
  /\ UNCHANGED <<draft, marking, ran, feed, phoneVars>>

Services ==
  \/ \E who \in {"phone", "stray", "other"} :
       ConfirmActionDraft(who) \/ PatchActionDraft(who) \/ CancelActionDraft(who)
  \/ \E who \in marking : MarkActionDraftFailed(who)
  \/ GetActionDraft

-----------------------------------------------------------------------------
(* The push.  The consumer reads the message for its viewer after the      *)
(* event woke it: two pushes of one version read alike and are one here.   *)
(* The message is read before the drafts prefetched with it.               *)

ReadMessage ==
  /\ feed.owed /\ feed.reading = 0 /\ Len(feed.news) < MaxNews
  /\ feed' = [feed EXCEPT !.owed = FALSE, !.reading = draft.seq]
  /\ UNCHANGED <<serverVars, phoneVars>>

ReadDraft ==
  /\ feed.reading # 0
  /\ feed' = [feed EXCEPT !.reading = 0,
                          !.news = Append(@, [seq |-> feed.reading, view |-> View])]
  /\ UNCHANGED <<serverVars, phoneVars>>

-----------------------------------------------------------------------------
(* The transcript of the phone.                                            *)

\* The coordinator publishes a confirmation to the other screens once.
Publishes(prev, v) ==
  IF prev.status # "CONFIRMED" /\ v.status = "CONFIRMED" /\ past.told = 0 THEN 1 ELSE 0

\* Mutant: the overlay stays until the feed brings the same draft.
OverlayUntilProjected(v) ==
  IF v # over.view THEN over ELSE [view |-> NoView, prior |-> {}]

\* reconcileAIDraftOverlaysForFullMessage: an overlay outlives only the versions
\* it replaced.
Reconciled(v) ==
  IF v # over.view /\ v \in over.prior THEN over ELSE [view |-> NoView, prior |-> {}]

\* shouldReplaceFullMessage, mergeMessages
MessageArrives ==
  LET event == Head(feed.news)
      next == Reconciled(event.view)
      shown == IF next.view = NoView THEN event.view ELSE next.view
      newer == event.seq > copy.seq
  IN /\ feed.news # <<>>
     /\ feed' = [feed EXCEPT !.news = Tail(@)]
     /\ copy' = IF newer THEN event ELSE copy
     /\ over' = IF newer THEN next ELSE over
     /\ past' = IF newer THEN [past EXCEPT !.told = @ + Publishes(Shown, shown)] ELSE past
     /\ UNCHANGED <<serverVars, card, op, stray>>

-----------------------------------------------------------------------------
(* The card.  `unknown` says that the outcome of a confirmation is not     *)
(* known: only a status check is offered then.                             *)

\* applyDraft, AI_DRAFT_LOCAL_SNAPSHOT: the transcript takes the draft over if
\* it still shows what the card was rendered from.
Snapshot(v) ==
  over' = IF Shown = card.src THEN [view |-> v, prior |-> over.prior \cup {card.src}] ELSE over

\* The operation ends with draft v; `told` counts the publication it claims.
Ends(v, unknown, doubt) ==
  /\ Snapshot(v)
  /\ card' = [card EXCEPT !.draft = v, !.unknown = unknown]
  /\ past' = [past EXCEPT !.doubt = doubt, !.told = @ + Publishes(op.seen, v)]
  /\ op' = NoOp
  /\ UNCHANGED <<serverVars, feed, copy, stray>>

EndsAsItWas == op' = NoOp /\ UNCHANGED <<serverVars, feed, shownVars, card, stray, past>>

\* begin; the buttons of ActionDraftCard
Begin(kind) ==
  /\ card.place = "list" /\ op.kind = "none"
  /\ ~card.unknown /\ May(kind, card.draft)
  /\ op' = [NoOp EXCEPT !.kind = kind, !.stage = "preflight", !.seen = card.draft]
  /\ UNCHANGED <<serverVars, feed, shownVars, card, stray, past>>

CheckStatus ==
  /\ card.place = "list" /\ op.kind = "none" /\ card.unknown
  /\ op' = [NoOp EXCEPT !.kind = "check", !.stage = "status", !.seen = card.draft]
  /\ UNCHANGED <<serverVars, feed, shownVars, card, stray, past>>

Sends ==
  /\ op' = [op EXCEPT !.stage = "mutation", !.code = "none", !.view = NoView]
  /\ past' = IF op.kind = "confirm"
               THEN [past EXCEPT !.doubt = TRUE, !.approved = @ \cup {op.seen.body}] ELSE past
  /\ UNCHANGED <<serverVars, feed, shownVars, card, stray>>

\* preflightMutation: nothing is sent unless the draft is exactly what was read.
PreflightReturns ==
  /\ op.stage = "preflight"
  /\ \/ op.code = "unclear" /\ EndsAsItWas
     \/ /\ op.code = "ok"
        /\ IF op.view = op.seen /\ May(op.kind, op.view)
             THEN Sends ELSE Ends(op.view, FALSE, past.doubt)

\* confirmDraftAfterExplicitApproval: never sent twice, an unclear answer is
\* followed by a GET.
ConfirmReturns ==
  /\ op.kind = "confirm" /\ op.stage = "mutation"
  /\ \/ /\ op.code \in {"ok", "refused"}
        /\ Ends(IF op.view = NoView THEN op.seen ELSE op.view, FALSE, FALSE)
     \/ /\ op.code = "unclear"
        /\ op' = [op EXCEPT !.stage = "status", !.code = "none"]
        /\ UNCHANGED <<serverVars, feed, shownVars, card, stray, past>>

\* resolveWithFollowUpGet, checkConfirmStatus
StatusReturns ==
  /\ op.stage = "status"
  /\ \/ op.code = "ok" /\ Ends(op.view, FALSE, FALSE)
     \/ op.code = "unclear" /\ Ends(op.seen, TRUE, past.doubt)

\* patch, cancel
ChangeReturns ==
  /\ op.kind \in {"patch", "cancel"} /\ op.stage = "mutation" /\ op.code # "none"
  /\ IF op.view = NoView THEN EndsAsItWas ELSE Ends(op.view, FALSE, past.doubt)

\* The server has yet to get the confirmation.
Unserved ==
  op.kind = "confirm" /\ op.stage = "mutation" /\ op.code = "none" /\ "phone" \notin marking

\* The request or the answer is lost, or a 5xx or 429 comes in its place; a
\* request that timed out may still arrive.
AnswerIsLost ==
  /\ op.kind # "none" /\ op.code # "unclear"
  /\ op' = [op EXCEPT !.code = "unclear", !.view = NoView]
  /\ marking' = IF "phone" \in marking THEN (marking \ {"phone"}) \cup {"other"} ELSE marking
  /\ stray' \in {stray, stray \/ Unserved}
  /\ UNCHANGED <<draft, trip, ran, feed, shownVars, card, past>>

-----------------------------------------------------------------------------
(* What interrupts an operation: abort() drops the answer, the server may  *)
(* still get the request.                                                  *)

Abort ==
  /\ op' = NoOp
  /\ marking' = IF "phone" \in marking THEN (marking \ {"phone"}) \cup {"other"} ELSE marking
  /\ stray' \in {stray, stray \/ Unserved}

\* Mutant: the card is left in doubt only if the answer was seen to be lost.
FailClosedIfLost(c) == [c EXCEPT !.unknown = @ \/ (op.kind = "confirm" /\ op.code = "unclear")]

\* failClosedConfirm: an interrupted confirmation may have been carried out.
FailClosed(c) == [c EXCEPT !.unknown = @ \/ op.kind = "confirm"]

\* sessionForIncomingDraft: the doubt is bound to the newer draft.
SessionFor(v) ==
  IF card.src = v THEN card
  ELSE IF card.unknown /\ v.status \notin Final THEN [card EXCEPT !.src = v, !.draft = v]
  ELSE IF card.draft = v THEN [card EXCEPT !.src = v]
  ELSE [card EXCEPT !.src = v, !.draft = v, !.unknown = FALSE]

\* A final draft tells how the confirmation ended.
Heard(v) == [past EXCEPT !.doubt = @ /\ v.status \notin Final]

\* The layout effect after a render with another draft.
RendersChange ==
  /\ card.place # "away" /\ Shown # card.src
  /\ Abort
  /\ LET session == SessionFor(Shown)
     IN card' = IF Shown.status \notin Final THEN FailClosed(session) ELSE session
  /\ past' = Heard(Shown)
  /\ UNCHANGED <<draft, trip, ran, feed, shownVars>>

Unmount ==
  /\ card.place # "away"
  /\ Abort
  /\ card' = FailClosed([card EXCEPT !.place = "away"])
  /\ UNCHANGED <<draft, trip, ran, feed, shownVars, past>>

Mount ==
  /\ card.place = "away"
  /\ \E place \in {"list", "locked"} : card' = [SessionFor(Shown) EXCEPT !.place = place]
  /\ past' = Heard(Shown)
  /\ UNCHANGED <<serverVars, feed, shownVars, op, stray>>

\* interactionDisabled: the room is read-only or messages are being selected.
\* A status check goes on.
BecomesDisabled ==
  /\ card.place = "list"
  /\ IF op.kind \in Changes THEN Abort ELSE UNCHANGED <<marking, op, stray>>
  /\ card' = FailClosed([card EXCEPT !.place = "locked"])
  /\ UNCHANGED <<draft, trip, ran, feed, shownVars, past>>

BecomesEnabled ==
  /\ card.place = "locked" /\ card' = [card EXCEPT !.place = "list"]
  /\ UNCHANGED <<serverVars, feed, shownVars, op, stray, past>>

-----------------------------------------------------------------------------

Card ==
  \/ \E kind \in Changes : Begin(kind)
  \/ CheckStatus \/ PreflightReturns \/ ConfirmReturns \/ StatusReturns \/ ChangeReturns
  \/ AnswerIsLost \/ RendersChange \/ Unmount \/ Mount \/ BecomesDisabled \/ BecomesEnabled

DraftNext == TripMoves \/ Services \/ ReadMessage \/ ReadDraft \/ MessageArrives \/ Card

DraftSpec == DraftInit /\ [][DraftNext]_draftVars

-----------------------------------------------------------------------------
(* Properties.                                                             *)

Views == [status : Waiting \cup Final \cup {"none"}, body : 0 .. MaxBodies, can : BOOLEAN]
DraftRows == [status : Waiting \cup Final, body : 1 .. MaxBodies, base : Nat, seq : Nat]
Trips == [late : BOOLEAN, closed : BOOLEAN, authority : BOOLEAN,
          target : Nat, moves : 0 .. MaxMoves]
Copies == [seq : Nat, view : Views]
Cards == [place : {"list", "locked", "away"}, src : Views, draft : Views, unknown : BOOLEAN]
Operations == [kind : Changes \cup {"check", "none"},
               stage : {"none", "preflight", "mutation", "status"},
               code : {"none", "ok", "refused", "unclear"}, view : Views, seen : Views]

\* Type invariant.
DraftTypeOK ==
  /\ draft \in DraftRows /\ trip \in Trips /\ marking \subseteq {"phone", "other"}
  /\ feed \in [owed : BOOLEAN, reading : Nat, news : Seq(Copies)] /\ Len(feed.news) <= MaxNews
  /\ copy \in Copies /\ over \in [view : Views, prior : SUBSET Views]
  /\ card \in Cards /\ op \in Operations /\ stray \in BOOLEAN
  /\ past \in [doubt : BOOLEAN, approved : SUBSET (1 .. MaxBodies), told : Nat]

\* What GoPlanAI drafted is done at most once, and exactly if the row says so;
\* it is done on the version of its object the draft was built on, before the
\* draft expires; and what the phone's confirmation executes, however late it
\* arrives, is a payload its user was shown when the confirmation was sent.
ExecutedAsReviewed ==
  /\ draft.status = "CONFIRMED" => Len(ran) = 1
  /\ draft.status # "CONFIRMED" => ran = <<>>
  /\ \A i \in 1 .. Len(ran) :
       /\ ran[i].base = ran[i].target /\ ~ran[i].late
       /\ ran[i].by # "other" => ran[i].body \in past.approved

\* While the outcome of a confirmation the phone sent is not known, through
\* list recycling, selection mode and newer versions of the draft, the card
\* starts no other confirmation.
NoBlindConfirm == op.kind = "confirm" /\ op.stage = "preflight" => ~past.doubt

\* When everything that was pushed has arrived and is rendered, the transcript
\* with its overlay and the card show the version of the row; and a
\* confirmation the phone learnt of was published to its other screens once.
Quiet ==
  /\ ~feed.owed /\ feed.reading = 0 /\ feed.news = <<>> /\ op.kind = "none"
  /\ card.place # "away" /\ Shown = card.src

CardSettles ==
  /\ Quiet => \A v \in {Shown, card.draft} :
                /\ v.body = draft.body /\ v.status \in {draft.status, View.status}
  /\ past.told <= 1
  /\ Shown.status = "CONFIRMED" => past.told = 1

=============================================================================
