---------------------------- MODULE UploadSession ----------------------------
(***************************************************************************)
(* One upload of picked photos (uploadSession.ts): photos are encoded one  *)
(* at a time, adopted into upload-temp and sent in batches, while the user *)
(* stops or closes, the app goes to the background and the private-media   *)
(* gate aborts.                                                            *)
(*                                                                         *)
(* A run, the maintenance a pause or a stop without a run queues, and the  *)
(* work of a close wait for one another, so that one pc says what is being *)
(* awaited and who says by whom; an action is what follows an await.       *)
(* Operators map one state of the session to the next.  Discarding a file  *)
(* always works here; in the code it is tried once.                        *)
(***************************************************************************)
EXTENDS Naturals, FiniteSets

CONSTANTS
  MaxPicked,    \* bound: photos of the selection
  Unreadable,   \* the picked entries that could not be read
  BatchFiles    \* the limits of a batch, as a number of photos

ASSUME UploadBounds ==
  MaxPicked \in Nat \ {0} /\ Unreadable \subseteq 1..MaxPicked /\ BatchFiles \in Nat \ {0}

VARIABLE up

Photos == 1..MaxPicked
Terminal == {"complete", "partial", "stopped", "cancelled", "tripGone"}
Outcomes == {"uploaded", "throttled", "unknown", "failed", "tripGone", "cancelled"}

Least(S) == CHOOSE i \in S : \A j \in S : i <= j

-----------------------------------------------------------------------------
(* Releasing what the session holds.                                       *)

\* currentIntent promotes an aborted signal when it is asked.
Intent(u) == IF u.aborted THEN "cancel" ELSE u.intent
Runs(u) == Intent(u) = "running"

Mark(u, S, state) == [u EXCEPT !.st = [i \in Photos |-> IF i \in S THEN state ELSE @[i]]]

\* releaseUnsentBatch, awaiting the discards; goal is the phase to end in.
Release(u, who, goal) ==
  [Mark(u, u.batch, "queued") EXCEPT
     !.batch = {}, !.trash = u.batch, !.cursor = Least(u.batch \cup {@}),
     !.pc = "release", !.who = who, !.goal = goal]

\* cleanupAllSources: authority goes before the first await.
CloseSources(u) == [u EXCEPT !.unlinking = @ \cup u.owned, !.owned = {}, !.pc = "close"]

\* finishForIntent.
FinishForIntent(u) ==
  Release([u EXCEPT !.intent = Intent(u)], "run",
          CASE Intent(u) = "pause" -> "paused" [] Intent(u) = "stop" -> "stopped"
            [] Intent(u) = "cancel" -> "cancelled")

-----------------------------------------------------------------------------
(* The run, from one await to the next.                                    *)

\* Nothing is awaited any more: queued maintenance, then a run that waited
\* for it, then a close.
EndOfRun(u) ==
  LET v == [u EXCEPT !.pc = "idle", !.who = "none", !.goal = "none",
                     !.run = IF u.who = "run" THEN "none" ELSE @,
                     !.aborted = u.who # "run" /\ @,
                     !.lease = FALSE,
                     !.cancel = IF u.who = "cancel" THEN "done" ELSE @]
  IN IF v.owed THEN Release([v EXCEPT !.owed = FALSE], "task", "stopped")
     ELSE IF v.run = "none" /\ v.cancel = "asked" THEN Release(v, "cancel", "cancelled")
     ELSE v

\* The first half of uploadCurrentBatch.
UploadCurrentBatch(u) ==
  [Mark(u, u.batch, "uploading") EXCEPT
     !.flight = u.batch, !.batch = {}, !.phase = "uploading", !.pc = "upload"]

\* The loop of run and the first half of prepareNext; room: the disk has
\* the reserve.
RunLoop(u, room) ==
  LET next == Least({i \in Photos \ Unreadable : i >= u.cursor} \cup {MaxPicked + 1})
      v == [u EXCEPT !.cursor = next]
  IN IF ~Runs(u) THEN FinishForIntent(v)
     ELSE IF next \in Photos
     THEN IF room THEN [Mark(v, {next}, "processing") EXCEPT !.phase = "preprocessing",
                                                             !.pc = "preprocess"]
          ELSE Release([v EXCEPT !.phase = "preprocessing"], "run", "partial")
     ELSE IF v.batch # {} THEN UploadCurrentBatch(v)
     ELSE [CloseSources(v) EXCEPT
             !.goal = IF \E i \in Photos : v.st[i] \in {"rejected", "failed"}
                      THEN "partial" ELSE "complete"]

\* run; a batch that was throttled is retried first.
BeginRun(u, room, leased) ==
  LET v == [u EXCEPT !.run = "active", !.who = "run"] IN
  IF ~Runs(u) THEN FinishForIntent(v)
  ELSE IF ~leased THEN FinishForIntent([v EXCEPT !.intent = "cancel"])
  ELSE LET w == [v EXCEPT !.lease = TRUE, !.phase = "preprocessing"] IN
       IF w.batch # {} THEN UploadCurrentBatch(w) ELSE RunLoop(w, room)

\* finishBatchOutcome; an upload that left a candidate goes on with it.
FinishBatchOutcome(u, outcome, room) ==
  IF outcome = "tripGone" /\ Intent(u) # "cancel" THEN Release(u, "run", "tripGone")
  ELSE IF ~Runs(u) THEN FinishForIntent(u)
  ELSE CASE outcome = "uploaded" ->
              RunLoop([u EXCEPT !.batch = u.cand, !.cand = {},
                                !.cursor = IF u.cand = {} THEN @ ELSE @ + 1], room)
         [] outcome = "throttled" -> EndOfRun([u EXCEPT !.phase = "throttled"])
         [] OTHER -> Release(u, "run", IF outcome = "cancelled" THEN "cancelled" ELSE "partial")

\* A candidate is released before anything but a success is dealt with.
AfterUpload(u, outcome, room) ==
  IF u.cand # {} /\ (~Runs(u) \/ outcome # "uploaded")
  THEN [Mark(u, u.cand, "queued") EXCEPT !.trash = u.cand, !.cand = {}, !.pc = "candidate",
                                         !.outcome = outcome]
  ELSE FinishBatchOutcome(u, outcome, room)

Reject(u) ==
  [Mark(u, {u.cursor}, "rejected") EXCEPT
     !.unlinking = @ \cup (u.owned \cap {u.cursor}), !.owned = @ \ {u.cursor}, !.pc = "reject"]

Interrupted(u) == FinishForIntent(Mark(u, {u.cursor}, "queued"))

-----------------------------------------------------------------------------
(* What the run awaits.                                                    *)

\* A photo whose source was deleted when it was rejected cannot be encoded.
PreprocessSettles(ok) ==
  /\ up.pc = "preprocess" /\ (ok => up.cursor \in up.owned)
  /\ up' = IF ok THEN [up EXCEPT !.pc = IF Runs(up) THEN "adopt" ELSE "drop"]
           ELSE IF Runs(up) THEN Reject(up) ELSE Interrupted(up)

AdoptFails == up.pc = "adopt" /\ up' = [up EXCEPT !.pc = "spoil"]

\* large: it fits no batch, not even one of its own.
AdoptSettles(large, room) ==
  /\ up.pc = "adopt"
  /\ LET i == up.cursor
         u == [up EXCEPT !.temps = @ \cup {i}]
         ready == Mark(u, {i}, "ready")
     IN up' = IF ~Runs(u) THEN [u EXCEPT !.trash = {i}, !.pc = "drop"]
              ELSE IF large THEN [u EXCEPT !.trash = {i}, !.pc = "large"]
              ELSE IF Cardinality(u.batch) >= BatchFiles
              THEN UploadCurrentBatch([ready EXCEPT !.cand = {i}])
              ELSE RunLoop([ready EXCEPT !.batch = @ \cup {i}, !.cursor = @ + 1], room)

\* An encoder output or an adopted file was discarded.
Discarded ==
  /\ up.pc \in {"drop", "spoil", "large"}
  /\ LET u == [up EXCEPT !.temps = @ \ up.trash, !.trash = {}] IN
     up' = IF u.pc = "drop" \/ (u.pc = "spoil" /\ ~Runs(u)) THEN Interrupted(u) ELSE Reject(u)

Rejected(room) ==
  /\ up.pc = "reject" /\ up.cursor \notin up.unlinking
  /\ up' = RunLoop([up EXCEPT !.cursor = @ + 1], room)

\* Mutant: a request whose outcome is uncertain is kept for a retry.
KeptUncertain(outcome) == outcome \in {"throttled", "unknown"}

\* Only a refusal by the rate limit proves that nothing was stored and keeps
\* the prepared files.
Kept(outcome) == outcome = "throttled"

\* The server's answer, or the end of an aborted request; its files are
\* discarded only now.
RequestSettles(outcome, stored, room) ==
  /\ up.pc = "upload"
  /\ outcome = "cancelled" => up.aborted \/ up.cancel = "asked"
  /\ stored => outcome \in {"uploaded", "unknown", "cancelled"}
  /\ outcome = "uploaded" => stored
  /\ LET u == [up EXCEPT !.stored = IF stored THEN @ \cup up.flight ELSE @] IN
     up' = IF Kept(outcome)
           THEN AfterUpload([Mark(u, u.flight, "ready") EXCEPT !.batch = u.flight, !.flight = {}],
                            outcome, room)
           ELSE [Mark(u, u.flight, CASE outcome = "uploaded" -> "uploaded"
                                     [] outcome \in {"unknown", "cancelled"} -> "unknown"
                                     [] outcome \in {"failed", "tripGone"} -> "failed")
                   EXCEPT !.trash = u.flight, !.unlinking = @ \cup (u.owned \cap u.flight),
                          !.owned = @ \ u.flight, !.pc = "recorded", !.outcome = outcome]

BatchCleaned(room) ==
  /\ up.pc = "recorded" /\ up.flight \cap up.unlinking = {}
  /\ up' = AfterUpload([up EXCEPT !.temps = @ \ up.trash, !.trash = {}, !.flight = {},
                                  !.outcome = "none"], up.outcome, room)

CandidateReleased(room) ==
  /\ up.pc = "candidate"
  /\ up' = FinishBatchOutcome([up EXCEPT !.temps = @ \ up.trash, !.trash = {}, !.outcome = "none"],
                              up.outcome, room)

\* A run that waited for maintenance begins when the last of it ends.
AfterEnd(u, room, leased) ==
  IF u.pc = "idle" /\ u.run = "waiting" THEN BeginRun(u, room, leased) ELSE u

Released(room, leased) ==
  /\ up.pc = "release"
  /\ LET u == [up EXCEPT !.temps = @ \ up.trash, !.trash = {}] IN
     up' = AfterEnd(CASE u.goal = "paused" -> EndOfRun([u EXCEPT !.phase = "paused"])
                      [] u.goal = "none" -> EndOfRun(u)
                      [] OTHER -> CloseSources(u), room, leased)

SourcesCleaned(room, leased) ==
  /\ up.pc = "close" /\ up.unlinking = {}
  /\ up' = AfterEnd(EndOfRun([up EXCEPT !.phase = up.goal]), room, leased)

Unlinked(i) ==
  /\ i \in up.unlinking
  /\ up' = [up EXCEPT !.unlinking = @ \ {i}]

-----------------------------------------------------------------------------
(* The user, the app and the gate.                                         *)

\* With nothing left to await, the session goes on before the next event;
\* file stores that delete synchronously, as the native ones do, never leave
\* anything to await.
GoesOn ==
  \/ ~up.slow /\ up.pc \in {"drop", "spoil", "large", "reject", "recorded", "candidate",
                           "release", "close"}
  \/ up.pc = "release" /\ up.trash = {}
  \/ up.pc = "close" /\ up.unlinking = {}
  \/ up.pc = "reject" /\ up.cursor \notin up.unlinking

Start(room, leased) ==
  /\ ~GoesOn /\ up.run = "none" /\ up.phase \in {"selected", "paused", "throttled"}
  /\ up.intent \in {"running", "pause"}
  /\ LET u == [up EXCEPT !.intent = "running"] IN
     up' = IF u.pc = "idle" THEN BeginRun(u, room, leased) ELSE [u EXCEPT !.run = "waiting"]

\* The app goes to the background.
RequestPause ==
  /\ ~GoesOn /\ up.intent \in {"running", "pause"} /\ up.phase \notin Terminal
  /\ LET u == [up EXCEPT !.intent = "pause"] IN
     up' = IF u.run # "none" THEN u
           ELSE IF u.batch = {} THEN [u EXCEPT !.phase = "paused"]
           ELSE Release([u EXCEPT !.phase = "paused"], "task", "none")

RequestStop ==
  /\ ~GoesOn /\ up.intent \in {"running", "pause"} /\ up.phase \notin Terminal
  /\ LET u == [up EXCEPT !.intent = "stop"] IN
     up' = IF u.run # "none" THEN u
           ELSE IF u.pc # "idle" THEN [u EXCEPT !.phase = "stopped", !.owed = TRUE]
           ELSE Release([u EXCEPT !.phase = "stopped"], "task", "stopped")

\* cancel; the answer is awaited by the next selection.
Close ==
  /\ ~GoesOn /\ up.cancel = "none"
  /\ LET u == [up EXCEPT !.intent = "cancel", !.cancel = "asked"] IN
     up' = IF u.pc = "idle" THEN Release(u, "cancel", "cancelled") ELSE u

\* The signal of trackPrivateTransferRequest: the gate shut.
GateAborts ==
  /\ ~GoesOn /\ up.run # "none" /\ ~up.aborted
  /\ up' = [up EXCEPT !.aborted = TRUE]

-----------------------------------------------------------------------------
\* slow: deleting a file takes time, which the interface of the session allows.
UploadInit ==
  \E slow \in BOOLEAN : up =
       [slow |-> slow, st |-> [i \in Photos |-> IF i \in Unreadable THEN "rejected" ELSE "queued"],
        cursor |-> 1, batch |-> {}, cand |-> {}, flight |-> {},
        phase |-> "selected", intent |-> "running", run |-> "none", cancel |-> "none",
        pc |-> "idle", who |-> "none", goal |-> "none", outcome |-> "none", owed |-> FALSE,
        aborted |-> FALSE, lease |-> FALSE, temps |-> {}, trash |-> {},
        owned |-> Photos \ Unreadable, unlinking |-> Unreadable, stored |-> {}]

UploadNext ==
  \/ AdoptFails \/ Discarded \/ RequestPause \/ RequestStop \/ Close \/ GateAborts
  \/ \E ok \in BOOLEAN : PreprocessSettles(ok)
  \/ \E i \in Photos : Unlinked(i)
  \/ \E room \in BOOLEAN :
       \/ Rejected(room) \/ BatchCleaned(room) \/ CandidateReleased(room)
       \/ \E large \in BOOLEAN : AdoptSettles(large, room)
       \/ \E outcome \in Outcomes, stored \in BOOLEAN : RequestSettles(outcome, stored, room)
       \/ \E leased \in BOOLEAN :
            Start(room, leased) \/ Released(room, leased) \/ SourcesCleaned(room, leased)

UploadSpec == UploadInit /\ [][UploadNext]_up

-----------------------------------------------------------------------------
\* Type invariant.
UploadTypeOK ==
  /\ up.st \in [Photos -> {"queued", "processing", "ready", "uploading", "uploaded",
                           "unknown", "failed", "rejected"}]
  /\ up.cursor \in 1..MaxPicked + 1 /\ Cardinality(up.cand) <= 1
  /\ up.intent \in {"running", "pause", "stop", "cancel"}
  /\ up.phase \in Terminal \cup {"selected", "preprocessing", "uploading", "paused", "throttled"}

\* A photo that the server may have stored is not sent again, nor offered
\* again, by whatever pause, stop and resume come after.
SentOnce ==
  /\ up.pc = "upload" => up.flight \cap up.stored = {}
  /\ \A i \in up.stored : up.st[i] \in {"uploading", "uploaded", "unknown"}

\* No file is discarded that native work or a request may still be reading.
FilesReadable ==
  /\ up.batch \cup up.cand \subseteq up.temps
  /\ up.pc = "upload" => up.flight \subseteq up.temps /\ up.trash = {}
  /\ up.pc = "preprocess" => up.cursor \notin up.unlinking

\* When all is done the device keeps no prepared file and no picked source;
\* a pause keeps no prepared file, and no lease outlives its run.
NothingLeft ==
  up.pc = "idle" =>
    /\ ~up.lease
    /\ up.phase \in Terminal => up.temps = {} /\ up.owned = {} /\ up.unlinking = {}
    /\ up.phase = "paused" => up.temps = {}

\* A stop that was requested ends in a terminal phase once what was awaited
\* has settled (requestStop).  Only synchronous deletion makes it so: a stop
\* that comes while a pause awaits its discards is overwritten by the pause.
StopIsTerminal ==
  up.intent = "stop" /\ up.run = "none" /\ ~up.slow => up.phase \in Terminal

\* What pausing, stopping, resuming and closing in any order leave intact
\* (run, requestPause, requestStop, cancel).
UploadSound == SentOnce /\ FilesReadable /\ NothingLeft /\ StopIsTerminal

=============================================================================
