---------------------------- MODULE MemoryRender ----------------------------
(***************************************************************************)
(* Memory videos of one trip: the rows of TripMemoryVideo, the Celery      *)
(* queue, the tasks that render, the file storage, and the recovery sweep  *)
(* (backend/memories/memory_video_services.py, backend/memories/tasks.py). *)
(*                                                                         *)
(* A row is claimed by writing render_started_at; that timestamp is the    *)
(* token a task compares before it publishes or fails the row, because a   *)
(* slow task may be overtaken by a redelivered message or by the sweep.    *)
(***************************************************************************)
EXTENDS Integers, FiniteSets

CONSTANTS
    Videos,            \* primary keys; each is used for one row at most
    Users,             \* active members of the trip
    Captain,
    Slots,             \* tasks that may run at the same time
    MaxPerUser,        \* TRIP_MEMORY_MAX_ACTIVE_PER_USER_PER_TRIP
    MaxPerTrip,        \* TRIP_MEMORY_MAX_ACTIVE_PER_TRIP
    MaxRecoveries,     \* TRIP_MEMORY_RENDER_MAX_RECOVERIES
    MaxRetries,        \* TRIP_MEMORY_RENDER_ACTIVE_RETRY_MAX_RETRIES
    StaleAfter,        \* TRIP_MEMORY_RENDER_STALE_SECONDS, in ticks
    HardLimit,         \* time_limit of a task, in ticks
    MaxTime,           \* bound: the last instant of the clock
    LastCrash,         \* bound: no task dies after this instant
    AmbiguousPublish,  \* apply_async may raise although the broker has the message
    LateException      \* a task may be interrupted between COMMIT and return

ASSUME ConstantsAssumption ==
    /\ IsFiniteSet(Videos)
    /\ Captain \in Users
    /\ Slots \in Nat \ {0}
    /\ MaxPerUser \in Nat /\ MaxPerTrip \in Nat
    /\ MaxRecoveries \in Nat /\ MaxRetries \in Nat
    /\ StaleAfter \in Nat \ {0} /\ HardLimit \in Nat \ {0}
    /\ MaxTime \in Nat \ {0} /\ LastCrash \in Nat
    /\ AmbiguousPublish \in BOOLEAN
    /\ LateException \in BOOLEAN

VARIABLES
    clock,      \* timezone.now(), in ticks from 1; 0 is NULL in a column
    cancelled,  \* trip.status = CANCELLED
    row,        \* the table trip_memory_video
    jobs,       \* on_commit hooks that have not finished publishing
    queue,      \* the broker: how many copies of each message wait
    runs,       \* tasks in progress
    lastKey,    \* attempt keys drawn so far (secrets.token_urlsafe)
    store,      \* files in default_storage, as <<attempt key, kind>>
    doomed,     \* attempt keys whose row is deleted and files not yet
    sweep       \* the run of recover_memory_renders in progress

vars == <<clock, cancelled, row, jobs, queue, runs, lastKey, store, doomed, sweep>>

----------------------------------------------------------------------------
Time    == 1 .. MaxTime
Kinds   == {"video", "poster"}
Files(k) == {k} \X Kinds

Statuses == {"absent", "queued", "rendering", "ready", "failed", "deleted"}
Phases   == {"render", "video", "both", "published", "lost", "raised", "failing"}

Rows == [status : Statuses, owner : Users, started : 0 .. MaxTime,
         recoveries : Nat, key : Nat, shared : BOOLEAN]
Jobs == [from : {"create", "recover"}, video : Videos, phase : {"publish", "fail"}]
Messages == [video : Videos, retries : 0 .. MaxRetries, eta : 0 .. MaxTime + StaleAfter + 1]
Runs == [phase : Phases, msg : Messages, started : Time, key : Nat]

NoRow(status) == [status |-> status, owner |-> Captain, started |-> 0,
                  recoveries |-> 0, key |-> 0, shared |-> FALSE]
Fresh(v) == [video |-> v, retries |-> 0, eta |-> 0]
Idle     == [todo |-> {}, now |-> 0]

Exists(v)   == row[v].status \notin {"absent", "deleted"}
Active(v)   == row[v].status \in {"queued", "rendering"}
ActiveOf(u) == {v \in Videos : Active(v) /\ row[v].owner = u}
ActiveAll   == {v \in Videos : Active(v)}

\* Mutant: the cutoff itself already counts as stale.
StaleInclusive(v, now) == row[v].started # 0 /\ row[v].started + StaleAfter <= now

\* render_started_at < stale_cutoff, for a cutoff computed at instant now.
Stale(v, now) == row[v].started # 0 /\ row[v].started + StaleAfter < now

\* The row still carries the claim this task made.
Owns(r) == LET v == r.msg.video IN
    row[v].status = "rendering" /\ row[v].started = r.started

----------------------------------------------------------------------------
TypeOK ==
    /\ clock \in Time
    /\ cancelled \in BOOLEAN
    /\ row \in [Videos -> Rows]
    /\ jobs \subseteq Jobs
    /\ queue \in [Messages -> Nat]
    /\ runs \subseteq Runs
    /\ lastKey \in Nat
    /\ store \subseteq (Nat \X Kinds)
    /\ doomed \subseteq Nat
    /\ sweep \in [todo : SUBSET Videos, now : 0 .. MaxTime]

Init ==
    /\ clock = 1
    /\ cancelled = FALSE
    /\ row = [v \in Videos |-> NoRow("absent")]
    /\ jobs = {}
    /\ queue = [m \in Messages |-> 0]
    /\ runs = {}
    /\ lastKey = 0
    /\ store = {}
    /\ doomed = {}
    /\ sweep = Idle

----------------------------------------------------------------------------
(* Requests of members *)

\* The quota is counted and the row inserted under the trip and member locks.
QuotaAvailable(u) ==
    /\ Cardinality(ActiveOf(u)) < MaxPerUser
    /\ Cardinality(ActiveAll) < MaxPerTrip

Create(u, v) ==
    /\ row[v].status = "absent"
    /\ ~cancelled
    /\ QuotaAvailable(u)
    /\ row' = [row EXCEPT ![v] = [NoRow("queued") EXCEPT !.owner = u]]
    /\ jobs' = jobs \cup {[from |-> "create", video |-> v, phase |-> "publish"]}
    /\ UNCHANGED <<clock, cancelled, queue, runs, lastKey, store, doomed, sweep>>

CanManage(u, v) ==
    Exists(v) /\ ~cancelled /\ (row[v].owner = u \/ u = Captain)

\* The row goes first; its files are removed after the transaction.
Delete(u, v) ==
    /\ CanManage(u, v)
    /\ ~Active(v)
    /\ row' = [row EXCEPT ![v] = NoRow("deleted")]
    /\ doomed' = IF row[v].key = 0 THEN doomed ELSE doomed \cup {row[v].key}
    /\ UNCHANGED <<clock, cancelled, jobs, queue, runs, lastKey, store, sweep>>

\* Best effort: any of the deletions may fail, or never be reached.
DeleteFiles(k) ==
    /\ k \in doomed
    /\ doomed' = doomed \ {k}
    /\ \E gone \in SUBSET Files(k) : store' = store \ gone
    /\ UNCHANGED <<clock, cancelled, row, jobs, queue, runs, lastKey, sweep>>

EnableShare(u, v) ==
    /\ CanManage(u, v)
    /\ row[v].status = "ready"
    /\ Files(row[v].key) \subseteq store
    /\ row' = [row EXCEPT ![v].shared = TRUE]
    /\ UNCHANGED <<clock, cancelled, jobs, queue, runs, lastKey, store, doomed, sweep>>

DisableShare(u, v) ==
    /\ CanManage(u, v)
    /\ row' = [row EXCEPT ![v].shared = FALSE]
    /\ UNCHANGED <<clock, cancelled, jobs, queue, runs, lastKey, store, doomed, sweep>>

CancelTrip ==
    /\ ~cancelled
    /\ cancelled' = TRUE
    /\ UNCHANGED <<clock, row, jobs, queue, runs, lastKey, store, doomed, sweep>>

----------------------------------------------------------------------------
(* on_commit: apply_async, by the request or by the sweep *)

Publish(j) ==
    /\ j.phase = "publish"
    /\ jobs' = jobs \ {j}
    /\ queue' = [queue EXCEPT ![Fresh(j.video)] = @ + 1]
    /\ UNCHANGED <<clock, cancelled, row, runs, lastKey, store, doomed, sweep>>

PublishRaises(j) ==
    /\ j.phase = "publish"
    /\ jobs' = (jobs \ {j}) \cup {[j EXCEPT !.phase = "fail"]}
    /\ \/ UNCHANGED queue
       \/ AmbiguousPublish /\ queue' = [queue EXCEPT ![Fresh(j.video)] = @ + 1]
    /\ UNCHANGED <<clock, cancelled, row, runs, lastKey, store, doomed, sweep>>

\* Mutant: a failed apply_async is logged and the row left as it is.
SwallowEnqueueError(j) ==
    /\ j.phase = "fail"
    /\ jobs' = jobs \ {j}
    /\ UNCHANGED <<clock, cancelled, row, queue, runs, lastKey, store, doomed, sweep>>

\* Without expected_started_at the update filters on the primary key alone.
MarkEnqueueFailed(j) ==
    /\ j.phase = "fail"
    /\ jobs' = jobs \ {j}
    /\ row' = IF Exists(j.video) THEN [row EXCEPT ![j.video].status = "failed"] ELSE row
    /\ UNCHANGED <<clock, cancelled, queue, runs, lastKey, store, doomed, sweep>>

\* The web process, or the sweep, dies with its hook; the row stays committed.
PublisherDies(j) ==
    /\ jobs' = jobs \ {j}
    /\ sweep' = IF j.from = "recover" THEN Idle ELSE sweep
    /\ UNCHANGED <<clock, cancelled, row, queue, runs, lastKey, store, doomed>>

----------------------------------------------------------------------------
(* The task: _claim_memory_for_render *)

Deliverable(m) == queue[m] > 0 /\ m.eta <= clock /\ Cardinality(runs) < Slots

StillRendering(v) ==
    row[v].status = "rendering" /\ row[v].started # 0 /\ ~Stale(v, clock)

\* Mutant: a rendering row is taken over without looking at its age.
CanClaimAtAnyAge(v) == row[v].status \in {"queued", "rendering"}

CanClaim(v) ==
    \/ row[v].status = "queued"
    \/ row[v].status = "rendering" /\ ~StillRendering(v)

Claim(m) ==
    /\ Deliverable(m)
    /\ CanClaim(m.video)
    /\ queue' = [queue EXCEPT ![m] = @ - 1]
    /\ row' = [row EXCEPT ![m.video].status = "rendering", ![m.video].started = clock]
    /\ runs' = runs \cup {[phase |-> "render", msg |-> m, started |-> clock, key |-> 0]}
    /\ UNCHANGED <<clock, cancelled, jobs, lastKey, store, doomed, sweep>>

\* MemoryVideoRenderActiveError: retry when the claim goes stale, or give up.
RetryLater(m) ==
    /\ Deliverable(m)
    /\ StillRendering(m.video)
    /\ LET again == [m EXCEPT !.retries = @ + 1,
                              !.eta = row[m.video].started + StaleAfter + 1]
           taken == [queue EXCEPT ![m] = @ - 1]
       IN queue' = IF m.retries < MaxRetries
                   THEN [taken EXCEPT ![again] = @ + 1] ELSE taken
    /\ UNCHANGED <<clock, cancelled, row, jobs, runs, lastKey, store, doomed, sweep>>

\* The row is gone, READY or FAILED: the message is acknowledged.
Ignore(m) ==
    /\ Deliverable(m)
    /\ ~CanClaim(m.video) /\ ~StillRendering(m.video)
    /\ queue' = [queue EXCEPT ![m] = @ - 1]
    /\ UNCHANGED <<clock, cancelled, row, jobs, runs, lastKey, store, doomed, sweep>>

----------------------------------------------------------------------------
(* The task: render_trip_memory_video and _finish_memory_render_success *)

Goto(r, phase) == runs' = (runs \ {r}) \cup {[r EXCEPT !.phase = phase]}

\* Mutant: every attempt writes to the same path.
FixedKey == 1

\* The path of an attempt's files contains a random key of its own.
NewKey == lastKey + 1

SaveVideo(r) ==
    /\ r.phase = "render"
    /\ lastKey' = NewKey
    /\ store' = store \cup {<<NewKey, "video">>}
    /\ runs' = (runs \ {r}) \cup {[r EXCEPT !.phase = "video", !.key = NewKey]}
    /\ UNCHANGED <<clock, cancelled, row, jobs, queue, doomed, sweep>>

SavePoster(r) ==
    /\ r.phase = "video"
    /\ store' = store \cup {<<r.key, "poster">>}
    /\ Goto(r, "both")
    /\ UNCHANGED <<clock, cancelled, row, jobs, queue, lastKey, doomed, sweep>>

\* Mutant: the row is published before the poster is stored.
CommitBeforePoster(r) ==
    /\ r.phase \in {"video", "both"}
    /\ row' = IF Owns(r)
              THEN [row EXCEPT ![r.msg.video].status = "ready", ![r.msg.video].key = r.key]
              ELSE row
    /\ Goto(r, IF Owns(r) THEN "published" ELSE "lost")
    /\ UNCHANGED <<clock, cancelled, jobs, queue, lastKey, store, doomed, sweep>>

\* One UPDATE, conditional on the claim: it publishes the files or changes nothing.
CommitReady(r) ==
    /\ r.phase = "both"
    /\ row' = IF Owns(r)
              THEN [row EXCEPT ![r.msg.video].status = "ready", ![r.msg.video].key = r.key]
              ELSE row
    /\ Goto(r, IF Owns(r) THEN "published" ELSE "lost")
    /\ UNCHANGED <<clock, cancelled, jobs, queue, lastKey, store, doomed, sweep>>

Return(r) ==
    /\ r.phase = "published"
    /\ runs' = runs \ {r}
    /\ UNCHANGED <<clock, cancelled, row, jobs, queue, lastKey, store, doomed, sweep>>

DiscardLost(r) ==
    /\ r.phase = "lost"
    /\ \E gone \in SUBSET Files(r.key) : store' = store \ gone
    /\ runs' = runs \ {r}
    /\ UNCHANGED <<clock, cancelled, row, jobs, queue, lastKey, doomed, sweep>>

\* Sources, music, ffmpeg or the soft time limit, before anything is stored.
RenderRaises(r) ==
    /\ r.phase = "render"
    /\ Goto(r, "failing")
    /\ UNCHANGED <<clock, cancelled, row, jobs, queue, lastKey, store, doomed, sweep>>

\* Any exception from the first save on is caught by one handler, also one
\* that arrives after the UPDATE has committed.
FinishRaises(r) ==
    /\ r.phase \in {"video", "both", "lost"} \/ (LateException /\ r.phase = "published")
    /\ Goto(r, "raised")
    /\ UNCHANGED <<clock, cancelled, row, jobs, queue, lastKey, store, doomed, sweep>>

DiscardRaised(r) ==
    /\ r.phase = "raised"
    /\ \E gone \in SUBSET Files(r.key) : store' = store \ gone
    /\ Goto(r, "failing")
    /\ UNCHANGED <<clock, cancelled, row, jobs, queue, lastKey, doomed, sweep>>

\* Mutant: _mark_memory_render_failed is called without expected_started_at.
MarkFailedUnfenced(r) ==
    /\ r.phase = "failing"
    /\ row' = IF Exists(r.msg.video) THEN [row EXCEPT ![r.msg.video].status = "failed"] ELSE row
    /\ runs' = runs \ {r}
    /\ UNCHANGED <<clock, cancelled, jobs, queue, lastKey, store, doomed, sweep>>

MarkFailed(r) ==
    /\ r.phase = "failing"
    /\ row' = IF Owns(r) THEN [row EXCEPT ![r.msg.video].status = "failed"] ELSE row
    /\ runs' = runs \ {r}
    /\ UNCHANGED <<clock, cancelled, jobs, queue, lastKey, store, doomed, sweep>>

\* A lost worker process gives its message back (acks_late and
\* reject_on_worker_lost); a task killed at its hard limit acknowledges it.
RunDies(r) ==
    /\ clock <= LastCrash
    /\ runs' = runs \ {r}
    /\ queue' \in {queue, [queue EXCEPT ![r.msg] = @ + 1]}
    /\ UNCHANGED <<clock, cancelled, row, jobs, lastKey, store, doomed, sweep>>

----------------------------------------------------------------------------
(* recover_stale_memory_renders *)

\* The candidates and the cutoff are read once, before any row is locked.
SweepScan ==
    /\ sweep.todo = {}
    /\ \A j \in jobs : j.from # "recover"
    /\ \E v \in Videos : row[v].status = "rendering" /\ Stale(v, clock)
    /\ sweep' = [todo |-> {v \in Videos : row[v].status = "rendering" /\ Stale(v, clock)},
                 now |-> clock]
    /\ UNCHANGED <<clock, cancelled, row, jobs, queue, runs, lastKey, store, doomed>>

\* The next candidate, once the hook of the previous one has run.
SweepNext(v) ==
    /\ v \in sweep.todo
    /\ \A j \in jobs : j.from # "recover"
    /\ sweep' = IF sweep.todo = {v} THEN Idle ELSE [sweep EXCEPT !.todo = @ \ {v}]
    /\ UNCHANGED <<clock, cancelled, queue, runs, lastKey, store, doomed>>

\* Mutant: the status is not checked again under the row lock.
StillStaleByTime(v) == Stale(v, sweep.now)

StillStale(v) == row[v].status = "rendering" /\ Stale(v, sweep.now)

SweepSkip(v) ==
    /\ SweepNext(v)
    /\ ~StillStale(v)
    /\ UNCHANGED <<row, jobs>>

SweepFail(v) ==
    /\ SweepNext(v)
    /\ StillStale(v) /\ row[v].recoveries >= MaxRecoveries
    /\ row' = [row EXCEPT ![v].status = "failed"]
    /\ UNCHANGED jobs

SweepRequeue(v) ==
    /\ SweepNext(v)
    /\ StillStale(v) /\ row[v].recoveries < MaxRecoveries
    /\ row' = [row EXCEPT ![v].status = "queued", ![v].started = 0,
                          ![v].recoveries = @ + 1]
    /\ jobs' = jobs \cup {[from |-> "recover", video |-> v, phase |-> "publish"]}

----------------------------------------------------------------------------
\* A task at its hard limit is killed (RunDies) or has just finished.
Tick ==
    /\ clock < MaxTime
    /\ \A r \in runs : clock < r.started + HardLimit
    /\ clock' = clock + 1
    /\ UNCHANGED <<cancelled, row, jobs, queue, runs, lastKey, store, doomed, sweep>>

Request ==
    \/ \E u \in Users, v \in Videos :
          Create(u, v) \/ Delete(u, v) \/ EnableShare(u, v) \/ DisableShare(u, v)
    \/ \E k \in doomed : DeleteFiles(k)
    \/ CancelTrip

Hook == \E j \in jobs : Publish(j) \/ PublishRaises(j) \/ MarkEnqueueFailed(j)

Deliver == \E m \in Messages : Claim(m) \/ RetryLater(m) \/ Ignore(m)

RunStep(r) ==
    \/ SaveVideo(r) \/ SavePoster(r) \/ CommitReady(r) \/ Return(r) \/ DiscardLost(r)
    \/ RenderRaises(r) \/ FinishRaises(r) \/ DiscardRaised(r) \/ MarkFailed(r)

Work == \E r \in runs : RunStep(r)

Sweep == SweepScan \/ \E v \in Videos : SweepSkip(v) \/ SweepFail(v) \/ SweepRequeue(v)

Fault == (\E j \in jobs : PublisherDies(j)) \/ (\E r \in runs : RunDies(r))

Next == Request \/ Hook \/ Deliver \/ Work \/ Sweep \/ Fault \/ Tick

Spec == Init /\ [][Next]_vars

\* Hooks and tasks that have not died run on, the broker delivers, the scheduler
\* service runs recover_memory_renders once a minute (podman-compose.yml), and
\* time passes.
Fairness ==
    WF_vars(Hook) /\ WF_vars(Deliver) /\ WF_vars(Work) /\ WF_vars(Sweep) /\ WF_vars(Tick)

\* Nothing repairs a row whose hook died, so that what must eventually happen
\* is stated of the runs in which no publisher dies; tasks die in them.
HooksSurvive ==
    Request \/ Hook \/ Deliver \/ Work \/ Sweep \/ (\E r \in runs : RunDies(r)) \/ Tick

FairSpec == Init /\ [][HooksSurvive]_vars /\ Fairness

----------------------------------------------------------------------------
(* Safety *)

\* The token identifies an attempt: no two live tasks hold the same video's
\* row under the same render_started_at, however often messages are
\* redelivered and rows requeued.  _finish_memory_render_success and
\* _mark_memory_render_failed compare nothing else.
ClaimsAreDistinct ==
    \A r1, r2 \in runs :
        r1.msg.video = r2.msg.video /\ r1.started = r2.started => r1 = r2

\* A task that lost the race deletes its own attempt's files and never those
\* of the attempt the row points to.
LoserSparesWinner ==
    \A r \in runs : r.phase = "lost" => \A v \in Videos : row[v].key # r.key

\* The quota of create_trip_memory_video is a bound on what is in progress,
\* also after the sweep has put rows back into the queue.
QuotaHolds ==
    /\ \A u \in Users : Cardinality(ActiveOf(u)) <= MaxPerUser
    /\ Cardinality(ActiveAll) <= MaxPerTrip

\* A row whose enqueue failed, whose task failed or that the sweep gave up
\* stays FAILED, even if a task is still rendering it.
FailedIsFinal ==
    [][\A v \in Videos : row[v].status = "failed" =>
           row'[v].status \in {"failed", "deleted"}]_vars

\* A READY video keeps its status and its files until a member deletes it.
\* The one exception is the unconditional UPDATE after a failed apply_async:
\* the hook of a requeue may fail when an older, redelivered message has
\* already rendered the row.
EnqueueFailing(v) == \E j \in jobs : j.video = v /\ j.phase = "fail"

ReadyIsFinal ==
    [][\A v \in Videos : row[v].status = "ready" =>
           \/ row'[v].status = "deleted"
           \/ row'[v].status = "ready" /\ row'[v].key = row[v].key
           \/ row'[v].status = "failed" /\ EnqueueFailing(v)]_vars

\* The files a row points to are in the storage, whichever tasks deleted
\* theirs and whichever rows are gone.
RowFilesStored ==
    \A v \in Videos : row[v].key # 0 => Files(row[v].key) \subseteq store

\* A video that get_public_memory_video serves is taken away only by a member
\* (unshared or deleted) or by a failed enqueue, never by a task.
Viewable(v) ==
    row[v].shared /\ row[v].status = "ready" /\ Files(row[v].key) \subseteq store

PublicStays ==
    [][\A v \in Videos : Viewable(v) =>
           Viewable(v)' \/ ~row'[v].shared \/ EnqueueFailing(v)]_vars

\* When tasks are killed before their claim goes stale (at most 32 photos with
\* the shipped settings), a video is never rendered twice at the same time.
Rendering(r) == r.phase \in {"render", "video", "both"}
OneLiveRender ==
    HardLimit <= StaleAfter => \A r1, r2 \in runs :
        Rendering(r1) /\ Rendering(r2) /\ r1.msg.video = r2.msg.video => r1 = r2

----------------------------------------------------------------------------
(* Liveness *)

\* A video does not stay QUEUED or RENDERING, which would hold its creator's
\* quota and block its deletion: it becomes READY or FAILED although tasks die.
EventuallySettled == \A v \in Videos : Active(v) ~> ~Active(v)

----------------------------------------------------------------------------
(* Inductive invariants, for the proofs *)

\* A row a task works on was created; a task's claim is older than now, than
\* the row's present claim, and than a requeue of the row.
ClaimInv ==
    /\ \A m \in Messages : queue[m] > 0 => row[m.video].status # "absent"
    /\ \A j \in jobs : row[j.video].status # "absent"
    /\ sweep.now <= clock
    /\ \A v \in Videos :
          /\ row[v].started <= clock
          /\ row[v].status = "rendering" => row[v].started # 0
    /\ \A r \in runs : LET cur == row[r.msg.video] IN
          /\ r.started <= clock
          /\ cur.status # "absent"
          /\ cur.status = "rendering" => r.started <= cur.started
          /\ cur.status = "queued" => r.started < clock
    /\ ClaimsAreDistinct

\* An attempt key belongs to one task, then to one row, then to one deletion;
\* only a task that has published shares its key.
SharesItsKey(r) ==
    r.phase = "published" \/ (LateException /\ r.phase \in {"raised", "failing"})

FileInv ==
    /\ \A r \in runs :
          /\ r.key <= lastKey
          /\ r.phase = "render" => r.key = 0
          /\ r.phase \notin {"render", "failing"} => r.key # 0
          /\ r.phase = "video" => <<r.key, "video">> \in store
          /\ r.phase = "both" => Files(r.key) \subseteq store
    /\ \A r1, r2 \in runs : r1.key = r2.key /\ r1.key # 0 => r1 = r2
    /\ \A v \in Videos :
          /\ row[v].key <= lastKey
          /\ \A w \in Videos : row[v].key = row[w].key /\ row[v].key # 0 => v = w
          /\ \A r \in runs : row[v].key = r.key /\ r.key # 0 => SharesItsKey(r)
    /\ \A k \in doomed :
          /\ k # 0 /\ k <= lastKey
          /\ \A v \in Videos : row[v].key # k
          /\ \A r \in runs : r.key = k => SharesItsKey(r)
    /\ ~LateException => RowFilesStored

\* A task is killed at its hard limit.  If its claim is not stale by then, a row
\* is put back or taken over only after its task has gone.
TimeInv ==
    /\ \A r \in runs : clock <= r.started + HardLimit
    /\ HardLimit <= StaleAfter =>
          /\ \A r \in runs : row[r.msg.video].status # "queued"
          /\ \A r1, r2 \in runs : r1.msg.video = r2.msg.video => r1 = r2
=============================================================================
