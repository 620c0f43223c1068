------------------------- MODULE MemoryRenderProofs -------------------------
(***************************************************************************)
(* Theorems of MemoryRender, for every set of videos and users, every      *)
(* bound and every setting of the fault switches.                          *)
(***************************************************************************)
EXTENDS MemoryRender, FiniteSetTheorems, TLAPS

(* Type correctness *)

LEMMA NoRowType ==
    ASSUME NEW s \in Statuses
    PROVE  /\ NoRow(s) \in Rows
           /\ \A u \in Users : [NoRow(s) EXCEPT !.owner = u] \in Rows
<1>1. NoRow(s) \in Rows
    <2>1. Captain \in Users /\ 0 \in 0 .. MaxTime /\ 0 \in Nat
        BY ConstantsAssumption
    <2> QED BY <2>1 DEF NoRow, Rows
<1>2. ASSUME NEW x \in Rows, NEW u \in Users PROVE [x EXCEPT !.owner = u] \in Rows
    BY DEF Rows
<1> QED BY <1>1, <1>2

LEMMA TypeInit == Init => TypeOK
<1> SUFFICES ASSUME Init PROVE TypeOK
    OBVIOUS
<1>1. row \in [Videos -> Rows]
    BY NoRowType DEF Init, Statuses
<1>2. clock \in Time
    BY ConstantsAssumption DEF Init, Time
<1>3. sweep \in [todo : SUBSET Videos, now : 0 .. MaxTime]
    BY ConstantsAssumption DEF Init, Idle
<1> QED BY <1>1, <1>2, <1>3 DEF Init, TypeOK

LEMMA TypeRequest == TypeOK /\ Request => TypeOK'
<1> SUFFICES ASSUME TypeOK, Request PROVE TypeOK'
    OBVIOUS
<1> USE ConstantsAssumption
<1>1. ASSUME NEW u \in Users, NEW v \in Videos, Create(u, v) PROVE TypeOK'
    BY <1>1, NoRowType DEF Create, TypeOK, Statuses, Jobs
<1>2. ASSUME NEW u \in Users, NEW v \in Videos, Delete(u, v) PROVE TypeOK'
    <2>1. row' \in [Videos -> Rows]
        BY <1>2, NoRowType DEF Delete, TypeOK, Statuses
    <2>2. doomed' \subseteq Nat
        BY <1>2 DEF Delete, TypeOK, Rows
    <2> QED BY <1>2, <2>1, <2>2 DEF Delete, TypeOK
<1>3. ASSUME NEW u \in Users, NEW v \in Videos, EnableShare(u, v) PROVE TypeOK'
    BY <1>3 DEF EnableShare, TypeOK, Rows
<1>4. ASSUME NEW u \in Users, NEW v \in Videos, DisableShare(u, v) PROVE TypeOK'
    BY <1>4 DEF DisableShare, TypeOK, Rows
<1>5. ASSUME NEW k \in doomed, DeleteFiles(k) PROVE TypeOK'
    BY <1>5 DEF DeleteFiles, TypeOK
<1>6. CASE CancelTrip
    BY <1>6 DEF CancelTrip, TypeOK
<1> QED BY <1>1, <1>2, <1>3, <1>4, <1>5, <1>6 DEF Request

LEMMA TypeHook == TypeOK /\ Hook => TypeOK'
<1> SUFFICES ASSUME TypeOK, NEW j \in jobs,
                    Publish(j) \/ PublishRaises(j) \/ MarkEnqueueFailed(j)
             PROVE TypeOK'
    BY DEF Hook
<1> USE ConstantsAssumption
<1>0. j \in Jobs /\ Fresh(j.video) \in Messages
    BY DEF TypeOK, Jobs, Fresh, Messages
<1>1. CASE Publish(j)
    BY <1>0, <1>1 DEF Publish, TypeOK
<1>2. CASE PublishRaises(j)
    BY <1>0, <1>2 DEF PublishRaises, TypeOK, Jobs
<1>3. CASE MarkEnqueueFailed(j)
    BY <1>0, <1>3 DEF MarkEnqueueFailed, TypeOK, Jobs, Rows, Statuses
<1> QED BY <1>1, <1>2, <1>3

LEMMA TypeDeliver == TypeOK /\ Deliver => TypeOK'
<1> SUFFICES ASSUME TypeOK, NEW m \in Messages, Claim(m) \/ RetryLater(m) \/ Ignore(m)
             PROVE TypeOK'
    BY DEF Deliver
<1> USE ConstantsAssumption
<1>0. queue[m] \in Nat /\ queue[m] > 0
    BY DEF TypeOK, Claim, RetryLater, Ignore, Deliverable
<1>1. CASE Claim(m)
    BY <1>0, <1>1 DEF Claim, TypeOK, Messages, Rows, Statuses, Runs, Phases, Time
<1>2. CASE RetryLater(m)
    <2> DEFINE again == [m EXCEPT !.retries = @ + 1,
                                  !.eta = row[m.video].started + StaleAfter + 1]
               taken == [queue EXCEPT ![m] = @ - 1]
    <2>1. taken \in [Messages -> Nat]
        BY <1>0 DEF TypeOK
    <2>2. ASSUME m.retries < MaxRetries PROVE again \in Messages
        <3>1. m.retries + 1 \in 0 .. MaxRetries
            BY <2>2 DEF Messages
        <3>2. row[m.video].started \in 0 .. MaxTime
            BY DEF TypeOK, Messages, Rows
        <3>3. row[m.video].started + StaleAfter + 1 \in 0 .. MaxTime + StaleAfter + 1
            BY <3>2
        <3> QED BY <3>1, <3>3 DEF Messages
    <2>3. queue' = IF m.retries < MaxRetries THEN [taken EXCEPT ![again] = @ + 1] ELSE taken
        BY <1>2 DEF RetryLater
    <2>4. queue' \in [Messages -> Nat]
        BY <2>1, <2>2, <2>3
    <2> QED BY <1>2, <2>4 DEF RetryLater, TypeOK
<1>3. CASE Ignore(m)
    BY <1>0, <1>3 DEF Ignore, TypeOK
<1> QED BY <1>1, <1>2, <1>3

LEMMA TypeWork == TypeOK /\ Work => TypeOK'
<1> SUFFICES ASSUME TypeOK, NEW r \in runs, RunStep(r) PROVE TypeOK'
    BY DEF Work
<1> USE ConstantsAssumption
<1>0. /\ r \in Runs
      /\ r.msg \in Messages /\ r.msg.video \in Videos /\ r.key \in Nat
      /\ \A p \in Phases : [r EXCEPT !.phase = p] \in Runs
    BY DEF TypeOK, Runs, Messages
<1>1. CASE SaveVideo(r)
    <2>1. NewKey \in Nat
        BY DEF NewKey, TypeOK
    <2>2. [r EXCEPT !.phase = "video", !.key = NewKey] \in Runs
        BY <1>0, <2>1 DEF Runs, Phases
    <2>3. <<NewKey, "video">> \in Nat \X Kinds
        BY <2>1 DEF Kinds
    <2> QED BY <1>1, <2>1, <2>2, <2>3 DEF SaveVideo, TypeOK
<1>2. CASE SavePoster(r)
    BY <1>0, <1>2 DEF SavePoster, Goto, TypeOK, Phases, Kinds
<1>3. CASE CommitReady(r)
    <2>1. row' \in [Videos -> Rows]
        <3>1. ASSUME NEW x \in Rows
              PROVE [x EXCEPT !.status = "ready", !.key = r.key] \in Rows
            BY <1>0 DEF Rows, Statuses
        <3>2. row[r.msg.video] \in Rows
            BY <1>0 DEF TypeOK
        <3>3. row' = IF Owns(r)
                     THEN [row EXCEPT ![r.msg.video] =
                               [@ EXCEPT !.status = "ready", !.key = r.key]]
                     ELSE row
            BY <1>3 DEF CommitReady
        <3> QED BY <1>0, <3>1, <3>2, <3>3 DEF TypeOK
    <2>2. runs' \subseteq Runs
        BY <1>0, <1>3 DEF CommitReady, Goto, TypeOK, Phases
    <2> QED BY <1>3, <2>1, <2>2 DEF CommitReady, TypeOK
<1>4. CASE Return(r)
    BY <1>4 DEF Return, TypeOK
<1>5. CASE DiscardLost(r)
    BY <1>5 DEF DiscardLost, TypeOK
<1>6. CASE RenderRaises(r)
    BY <1>0, <1>6 DEF RenderRaises, Goto, TypeOK, Phases
<1>7. CASE FinishRaises(r)
    BY <1>0, <1>7 DEF FinishRaises, Goto, TypeOK, Phases
<1>8. CASE DiscardRaised(r)
    BY <1>0, <1>8 DEF DiscardRaised, Goto, TypeOK, Phases
<1>9. CASE MarkFailed(r)
    BY <1>0, <1>9 DEF MarkFailed, TypeOK, Rows, Statuses
<1> QED BY <1>1, <1>2, <1>3, <1>4, <1>5, <1>6, <1>7, <1>8, <1>9 DEF RunStep

LEMMA TypeSweep == TypeOK /\ Sweep => TypeOK'
<1> SUFFICES ASSUME TypeOK, Sweep PROVE TypeOK'
    OBVIOUS
<1> USE ConstantsAssumption
<1>1. CASE SweepScan
    BY <1>1 DEF SweepScan, TypeOK, Time
<1>2. ASSUME NEW v \in Videos, SweepNext(v)
      PROVE sweep' \in [todo : SUBSET Videos, now : 0 .. MaxTime]
    BY <1>2 DEF SweepNext, Idle, TypeOK
<1>3. ASSUME NEW v \in Videos, SweepSkip(v) PROVE TypeOK'
    BY <1>2, <1>3 DEF SweepSkip, SweepNext, TypeOK
<1>4. ASSUME NEW v \in Videos, SweepFail(v) PROVE TypeOK'
    BY <1>2, <1>4 DEF SweepFail, SweepNext, TypeOK, Rows, Statuses
<1>5. ASSUME NEW v \in Videos, SweepRequeue(v) PROVE TypeOK'
    BY <1>2, <1>5 DEF SweepRequeue, SweepNext, TypeOK, Rows, Statuses, Jobs
<1> QED BY <1>1, <1>3, <1>4, <1>5 DEF Sweep

LEMMA TypeFault == TypeOK /\ Fault => TypeOK'
<1> SUFFICES ASSUME TypeOK, Fault PROVE TypeOK'
    OBVIOUS
<1> USE ConstantsAssumption
<1>1. ASSUME NEW j \in jobs, PublisherDies(j) PROVE TypeOK'
    BY <1>1 DEF PublisherDies, TypeOK, Idle
<1>2. ASSUME NEW r \in runs, RunDies(r) PROVE TypeOK'
    BY <1>2 DEF RunDies, TypeOK, Runs
<1> QED BY <1>1, <1>2 DEF Fault

LEMMA TypeTick == TypeOK /\ Tick => TypeOK'
BY ConstantsAssumption DEF Tick, TypeOK, Time

LEMMA TypeStep == TypeOK /\ [Next]_vars => TypeOK'
<1>1. TypeOK /\ UNCHANGED vars => TypeOK'
    BY DEF TypeOK, vars
<1> QED BY <1>1, TypeRequest, TypeHook, TypeDeliver, TypeWork, TypeSweep, TypeFault, TypeTick
        DEF Next

\* The rows, the messages, the tasks and the sweep always have the shape their
\* columns and arguments have in the code.
THEOREM TypeCorrect == Spec => []TypeOK
BY TypeInit, TypeStep, PTL DEF Spec

----------------------------------------------------------------------------
(* Fencing: one live task per claim *)

LEMMA ClaimInit == Init => ClaimInv
BY ConstantsAssumption DEF Init, ClaimInv, ClaimsAreDistinct, NoRow, Idle

LEMMA ClaimRequest == TypeOK /\ ClaimInv /\ Request => ClaimInv'
<1> SUFFICES ASSUME TypeOK, ClaimInv, Request PROVE ClaimInv'
    OBVIOUS
<1> USE ConstantsAssumption DEF ClaimInv, ClaimsAreDistinct
<1>1. ASSUME NEW u \in Users, NEW v \in Videos, Create(u, v) PROVE ClaimInv'
    <2>1. /\ row' = [row EXCEPT ![v] = [NoRow("queued") EXCEPT !.owner = u]]
          /\ row[v].status = "absent"
          /\ UNCHANGED <<clock, queue, runs, sweep>>
        BY <1>1 DEF Create
    <2>2. /\ row'[v].status = "queued" /\ row'[v].started = 0
          /\ \A w \in Videos : w # v => row'[w] = row[w]
        BY <2>1 DEF TypeOK, NoRow
    <2>3. \A r \in runs : r.msg.video # v /\ r.msg.video \in Videos
        BY <2>1 DEF TypeOK, Runs, Messages
    <2>4. \A j \in jobs' : row'[j.video].status # "absent"
        BY <1>1, <2>2 DEF Create, TypeOK, Jobs
    <2>5. \A m \in Messages : queue'[m] > 0 => row'[m.video].status # "absent"
        BY <2>1, <2>2 DEF Messages
    <2>6. \A w \in Videos : row'[w].started <= clock' /\
              (row'[w].status = "rendering" => row'[w].started # 0)
        BY <2>1, <2>2 DEF TypeOK, Time
    <2> QED BY <2>1, <2>2, <2>3, <2>4, <2>5, <2>6
<1>2. ASSUME NEW u \in Users, NEW v \in Videos, Delete(u, v) PROVE ClaimInv'
    <2>1. /\ row'[v].status = "deleted" /\ row'[v].started = 0
          /\ \A w \in Videos : w # v => row'[w] = row[w]
          /\ UNCHANGED <<clock, queue, runs, sweep, jobs>>
        BY <1>2 DEF Delete, TypeOK, NoRow
    <2>2. (\A m \in Messages : m.video \in Videos) /\ (\A j \in jobs : j.video \in Videos)
        BY DEF TypeOK, Messages, Jobs
    <2>3. \A r \in runs : r.msg.video \in Videos
        BY DEF TypeOK, Runs, Messages
    <2>4. \A w \in Videos : row'[w].started <= clock
        BY <2>1 DEF TypeOK, Time
    <2> QED BY <2>1, <2>2, <2>3, <2>4
<1>3. ASSUME NEW u \in Users, NEW v \in Videos, EnableShare(u, v) \/ DisableShare(u, v)
      PROVE ClaimInv'
    <2>1. /\ \A w \in Videos : row'[w].status = row[w].status /\ row'[w].started = row[w].started
          /\ UNCHANGED <<clock, queue, runs, sweep, jobs>>
        BY <1>3 DEF EnableShare, DisableShare, TypeOK, Rows
    <2>2. (\A m \in Messages : m.video \in Videos) /\ (\A j \in jobs : j.video \in Videos)
        BY DEF TypeOK, Messages, Jobs
    <2>3. \A r \in runs : r.msg.video \in Videos
        BY DEF TypeOK, Runs, Messages
    <2> QED BY <2>1, <2>2, <2>3
<1>4. ASSUME NEW k \in doomed, DeleteFiles(k) PROVE ClaimInv'
    BY <1>4 DEF DeleteFiles
<1>5. CASE CancelTrip
    BY <1>5 DEF CancelTrip
<1> QED BY <1>1, <1>2, <1>3, <1>4, <1>5 DEF Request

\* What the steps that never claim, create or requeue have in common: the
\* claim of every row survives, as far as the row is still being rendered.
KeepsClaims ==
    /\ clock' = clock
    /\ \A v \in Videos :
          /\ row'[v].started = row[v].started
          /\ row[v].status # "absent" => row'[v].status # "absent"
          /\ row'[v].status \in {"rendering", "queued"} => row'[v].status = row[v].status
    /\ \A m \in Messages : queue'[m] > 0 => row[m.video].status # "absent"
    /\ \A j \in jobs' : j \in Jobs /\ row[j.video].status # "absent"
    /\ sweep'.now <= clock
    /\ \A r \in runs' : \E q \in runs : r.msg = q.msg /\ r.started = q.started
    /\ ClaimsAreDistinct'

LEMMA KeepsClaimsIsEnough == TypeOK /\ ClaimInv /\ KeepsClaims => ClaimInv'
<1> SUFFICES ASSUME TypeOK, ClaimInv, KeepsClaims PROVE ClaimInv'
    OBVIOUS
<1>1. \A m \in Messages : m.video \in Videos
    BY DEF Messages
<1>2. \A j \in Jobs : j.video \in Videos
    BY DEF Jobs
<1>3. ASSUME NEW r \in runs'
      PROVE LET cur == row'[r.msg.video] IN
            /\ r.started <= clock'
            /\ cur.status # "absent"
            /\ cur.status = "rendering" => r.started <= cur.started
            /\ cur.status = "queued" => r.started < clock'
    <2>1. PICK q \in runs : r.msg = q.msg /\ r.started = q.started
        BY DEF KeepsClaims
    <2>2. r.msg.video \in Videos
        BY <2>1, <1>1 DEF TypeOK, Runs
    <2> QED BY <2>1, <2>2 DEF ClaimInv, KeepsClaims
<1>4. \A v \in Videos :
          /\ row'[v].started <= clock'
          /\ row'[v].status = "rendering" => row'[v].started # 0
    BY DEF ClaimInv, KeepsClaims
<1>5. \A m \in Messages : queue'[m] > 0 => row'[m.video].status # "absent"
    BY <1>1 DEF KeepsClaims
<1>6. \A j \in jobs' : row'[j.video].status # "absent"
    BY <1>2 DEF KeepsClaims
<1> QED BY <1>3, <1>4, <1>5, <1>6 DEF ClaimInv, KeepsClaims

LEMMA ClaimHook == TypeOK /\ ClaimInv /\ Hook => ClaimInv'
<1> SUFFICES ASSUME TypeOK, ClaimInv, NEW j \in jobs,
                    Publish(j) \/ PublishRaises(j) \/ MarkEnqueueFailed(j)
             PROVE KeepsClaims
    BY KeepsClaimsIsEnough DEF Hook
<1>1. /\ j \in Jobs /\ row[j.video].status # "absent"
      /\ Fresh(j.video) \in Messages /\ Fresh(j.video).video = j.video
    BY ConstantsAssumption DEF TypeOK, ClaimInv, Jobs, Fresh, Messages
<1>2. /\ UNCHANGED <<clock, runs, sweep>>
      /\ jobs' \subseteq jobs \cup {[j EXCEPT !.phase = "fail"]}
      /\ queue' = queue \/ queue' = [queue EXCEPT ![Fresh(j.video)] = @ + 1]
      /\ row' = row \/ row' = [row EXCEPT ![j.video].status = "failed"]
    BY DEF Publish, PublishRaises, MarkEnqueueFailed
<1>3. \A i \in jobs' : i \in Jobs /\ row[i.video].status # "absent"
    BY <1>1, <1>2 DEF TypeOK, ClaimInv, Jobs
<1>4. \A m \in Messages : queue'[m] > 0 => row[m.video].status # "absent"
    <2>1. \A m \in Messages : m # Fresh(j.video) => queue'[m] = queue[m]
        BY <1>2 DEF TypeOK
    <2> QED BY <2>1, <1>1 DEF ClaimInv
<1>5. \A v \in Videos :
          /\ row'[v].started = row[v].started
          /\ row[v].status # "absent" => row'[v].status # "absent"
          /\ row'[v].status \in {"rendering", "queued"} => row'[v].status = row[v].status
    BY <1>1, <1>2 DEF TypeOK, Rows, Jobs
<1> QED BY <1>2, <1>3, <1>4, <1>5 DEF KeepsClaims, ClaimInv, ClaimsAreDistinct

\* A task that moves on keeps its message and its claim.
LEMMA GotoKeepsClaims ==
    ASSUME TypeOK, ClaimInv, NEW r \in runs, NEW q \in Runs,
           q.msg = r.msg, q.started = r.started,
           runs' = (runs \ {r}) \cup {q} \/ runs' = runs \ {r}
    PROVE  /\ \A x \in runs' : \E y \in runs : x.msg = y.msg /\ x.started = y.started
           /\ ClaimsAreDistinct'
BY DEF TypeOK, ClaimInv, ClaimsAreDistinct

\* A step of a task ends the task, or moves it on with its message and claim.
LEMMA RunMoves ==
    ASSUME TypeOK, NEW r \in runs, RunStep(r)
    PROVE  \E q \in Runs : /\ q.msg = r.msg /\ q.started = r.started
                           /\ runs' = (runs \ {r}) \cup {q} \/ runs' = runs \ {r}
<1>0. r \in Runs
    BY DEF TypeOK
<1>1. CASE SaveVideo(r)
    <2>1. NewKey \in Nat
        BY DEF NewKey, TypeOK
    <2>2. [r EXCEPT !.phase = "video", !.key = NewKey] \in Runs
        BY <1>0, <2>1 DEF Runs, Phases
    <2> QED BY <1>0, <1>1, <2>2 DEF SaveVideo, Runs
<1>2. CASE Return(r) \/ DiscardLost(r) \/ MarkFailed(r)
    BY <1>0, <1>2 DEF Return, DiscardLost, MarkFailed
<1>3. ASSUME NEW p \in Phases, Goto(r, p)
      PROVE \E q \in Runs : /\ q.msg = r.msg /\ q.started = r.started
                            /\ runs' = (runs \ {r}) \cup {q}
    <2>1. [r EXCEPT !.phase = p] \in Runs
        BY <1>0 DEF Runs
    <2> QED BY <1>0, <1>3, <2>1 DEF Goto, Runs
<1>4. CASE SavePoster(r) \/ CommitReady(r) \/ RenderRaises(r) \/ FinishRaises(r)
           \/ DiscardRaised(r)
    <2>1. \E p \in Phases : Goto(r, p)
        BY <1>4 DEF SavePoster, CommitReady, RenderRaises, FinishRaises, DiscardRaised, Phases
    <2> QED BY <1>3, <2>1
<1> QED BY <1>1, <1>2, <1>4 DEF RunStep

LEMMA ClaimWork == TypeOK /\ ClaimInv /\ Work => ClaimInv'
<1> SUFFICES ASSUME TypeOK, ClaimInv, NEW r \in runs, RunStep(r)
             PROVE KeepsClaims
    BY KeepsClaimsIsEnough DEF Work
<1>0. r \in Runs /\ r.msg.video \in Videos
    BY DEF TypeOK, Runs, Messages
<1>1. PICK q \in Runs : /\ q.msg = r.msg /\ q.started = r.started
                        /\ runs' = (runs \ {r}) \cup {q} \/ runs' = runs \ {r}
    BY RunMoves
<1>2. /\ UNCHANGED <<clock, sweep, jobs, queue>>
      /\ \/ row' = row
         \/ row' = [row EXCEPT ![r.msg.video].status = "failed"]
         \/ row' = [row EXCEPT ![r.msg.video].status = "ready", ![r.msg.video].key = r.key]
    BY DEF RunStep, SaveVideo, SavePoster, CommitReady, Return, DiscardLost, RenderRaises,
           FinishRaises, DiscardRaised, MarkFailed
<1>3. \A v \in Videos :
          /\ row'[v].started = row[v].started
          /\ row[v].status # "absent" => row'[v].status # "absent"
          /\ row'[v].status \in {"rendering", "queued"} => row'[v].status = row[v].status
    BY <1>0, <1>2 DEF TypeOK, Rows
<1>4. /\ \A x \in runs' : \E y \in runs : x.msg = y.msg /\ x.started = y.started
      /\ ClaimsAreDistinct'
    BY <1>1, GotoKeepsClaims
<1> QED BY <1>2, <1>3, <1>4 DEF KeepsClaims, ClaimInv, TypeOK

LEMMA ClaimDeliver == TypeOK /\ ClaimInv /\ Deliver => ClaimInv'
<1> SUFFICES ASSUME TypeOK, ClaimInv, NEW m \in Messages,
                    Claim(m) \/ RetryLater(m) \/ Ignore(m)
             PROVE ClaimInv'
    BY DEF Deliver
<1>0. /\ queue[m] \in Nat /\ queue[m] > 0 /\ m.video \in Videos
      /\ row[m.video].status # "absent"
    BY DEF TypeOK, ClaimInv, Claim, RetryLater, Ignore, Deliverable, Messages
<1>1. CASE Claim(m)
    <2> DEFINE v == m.video
               new == [phase |-> "render", msg |-> m, started |-> clock, key |-> 0]
    <2>1. /\ row'[v].status = "rendering" /\ row'[v].started = clock
          /\ \A w \in Videos : w # v => row'[w] = row[w]
          /\ runs' = runs \cup {new}
          /\ UNCHANGED <<clock, jobs, sweep>>
          /\ clock \in Nat /\ clock # 0
        BY <1>0, <1>1 DEF Claim, TypeOK, Time, Rows
    <2>2. \A r \in runs : r.msg.video = v => r.started < clock
        <3> SUFFICES ASSUME NEW r \in runs, r.msg.video = v PROVE r.started < clock
            OBVIOUS
        <3>1. r.started \in Nat /\ row[v].started \in Nat /\ StaleAfter \in Nat /\ clock \in Nat
            BY <1>0, ConstantsAssumption DEF TypeOK, Runs, Rows, Time
        <3>2. CASE row[v].status = "queued"
            BY <3>2 DEF ClaimInv
        <3>3. CASE row[v].status = "rendering" /\ ~StillRendering(v)
            <4>1. row[v].started + StaleAfter < clock /\ r.started <= row[v].started
                BY <1>0, <3>3 DEF StillRendering, Stale, ClaimInv
            <4> QED BY <3>1, <4>1
        <3> QED BY <1>1, <3>2, <3>3 DEF Claim, CanClaim
    <2>3. ClaimsAreDistinct'
        BY <2>1, <2>2 DEF ClaimInv, ClaimsAreDistinct
    <2>4. ASSUME NEW r \in runs'
          PROVE LET cur == row'[r.msg.video] IN
                /\ r.started <= clock'
                /\ cur.status # "absent"
                /\ cur.status = "rendering" => r.started <= cur.started
                /\ cur.status = "queued" => r.started < clock'
        <3>1. CASE r = new
            BY <2>1, <3>1
        <3>2. CASE r \in runs
            <4>1. r.msg.video \in Videos
                BY <3>2 DEF TypeOK, Runs, Messages
            <4> QED BY <2>1, <3>2, <4>1 DEF ClaimInv
        <3> QED BY <2>1, <3>1, <3>2
    <2>5. \A w \in Videos :
              /\ row'[w].started <= clock'
              /\ row'[w].status = "rendering" => row'[w].started # 0
        BY <2>1 DEF ClaimInv
    <2>6. \A n \in Messages : queue'[n] > 0 => row'[n.video].status # "absent"
        <3>1. \A n \in Messages : n.video \in Videos /\ (queue'[n] > 0 => queue[n] > 0)
            BY <1>0, <1>1 DEF Claim, TypeOK, Messages
        <3> QED BY <2>1, <3>1 DEF ClaimInv
    <2>7. \A j \in jobs' : row'[j.video].status # "absent"
        BY <2>1 DEF ClaimInv, TypeOK, Jobs
    <2> QED BY <2>1, <2>3, <2>4, <2>5, <2>6, <2>7 DEF ClaimInv
<1>2. CASE RetryLater(m)
    <2> DEFINE again == [m EXCEPT !.retries = @ + 1,
                                  !.eta = row[m.video].started + StaleAfter + 1]
               taken == [queue EXCEPT ![m] = @ - 1]
    <2>1. queue' = IF m.retries < MaxRetries THEN [taken EXCEPT ![again] = @ + 1] ELSE taken
        BY <1>2 DEF RetryLater
    <2>2. again.video = m.video
        BY DEF Messages
    <2>3. \A n \in Messages : queue'[n] > 0 => row[n.video].status # "absent"
        <3>1. \A n \in Messages : taken[n] > 0 => queue[n] > 0
            BY <1>0 DEF TypeOK
        <3>2. taken \in [Messages -> Int]
            BY <1>0 DEF TypeOK
        <3>3. \A n \in Messages : n # again => queue'[n] = taken[n]
            BY <2>1, <3>2
        <3> QED BY <1>0, <2>2, <3>1, <3>3 DEF ClaimInv
    <2>4. UNCHANGED <<clock, row, jobs, runs, sweep>>
        BY <1>2 DEF RetryLater
    <2> QED BY <2>3, <2>4 DEF ClaimInv, ClaimsAreDistinct
<1>3. CASE Ignore(m)
    <2>1. \A n \in Messages : queue'[n] > 0 => queue[n] > 0
        BY <1>0, <1>3 DEF Ignore, TypeOK
    <2> QED BY <1>3, <2>1 DEF Ignore, ClaimInv, ClaimsAreDistinct
<1> QED BY <1>1, <1>2, <1>3

LEMMA ClaimSweep == TypeOK /\ ClaimInv /\ Sweep => ClaimInv'
<1> SUFFICES ASSUME TypeOK, ClaimInv, Sweep PROVE ClaimInv'
    OBVIOUS
<1>1. CASE SweepScan
    BY <1>1 DEF SweepScan, ClaimInv, ClaimsAreDistinct, TypeOK, Time
<1>2. ASSUME NEW v \in Videos, SweepNext(v) PROVE sweep'.now <= clock
    BY <1>2 DEF SweepNext, Idle, ClaimInv, TypeOK, Time
<1>3. ASSUME NEW v \in Videos, SweepSkip(v) PROVE ClaimInv'
    BY <1>2, <1>3 DEF SweepSkip, SweepNext, ClaimInv, ClaimsAreDistinct
<1>4. ASSUME NEW v \in Videos, SweepFail(v) PROVE ClaimInv'
    <2>1. /\ \A w \in Videos :
                /\ row'[w].started = row[w].started
                /\ row[w].status # "absent" => row'[w].status # "absent"
                /\ row'[w].status \in {"rendering", "queued"} => row'[w].status = row[w].status
          /\ UNCHANGED <<clock, queue, jobs, runs>>
        BY <1>4 DEF SweepFail, SweepNext, TypeOK, Rows
    <2>2. sweep'.now <= clock
        BY <1>2, <1>4 DEF SweepFail
    <2>3. KeepsClaims
        BY <2>1, <2>2 DEF KeepsClaims, ClaimInv, ClaimsAreDistinct, TypeOK
    <2> QED BY <2>3, KeepsClaimsIsEnough
<1>5. ASSUME NEW v \in Videos, SweepRequeue(v) PROVE ClaimInv'
    <2> DEFINE job == [from |-> "recover", video |-> v, phase |-> "publish"]
    <2>1. /\ row'[v].status = "queued" /\ row'[v].started = 0
          /\ \A w \in Videos : w # v => row'[w] = row[w]
          /\ jobs' = jobs \cup {job}
          /\ UNCHANGED <<clock, queue, runs>>
        BY <1>5 DEF SweepRequeue, SweepNext, TypeOK, Rows
    <2>2. sweep'.now <= clock
        BY <1>2, <1>5 DEF SweepRequeue
    <2>3. \A r \in runs : r.msg.video = v => r.started < clock
        <3> SUFFICES ASSUME NEW r \in runs, r.msg.video = v PROVE r.started < clock
            OBVIOUS
        <3>1. /\ r.started \in Nat /\ row[v].started \in Nat /\ StaleAfter \in Nat
              /\ clock \in Nat /\ sweep.now \in Nat
            BY ConstantsAssumption DEF TypeOK, Runs, Rows, Time
        <3>2. row[v].status = "rendering" /\ row[v].started + StaleAfter < sweep.now
            BY <1>5 DEF SweepRequeue, StillStale, Stale
        <3>3. r.started <= row[v].started /\ sweep.now <= clock
            BY <3>2 DEF ClaimInv
        <3> QED BY <3>1, <3>2, <3>3
    <2>4. ASSUME NEW r \in runs'
          PROVE LET cur == row'[r.msg.video] IN
                /\ r.started <= clock'
                /\ cur.status # "absent"
                /\ cur.status = "rendering" => r.started <= cur.started
                /\ cur.status = "queued" => r.started < clock'
        <3>1. r.msg.video \in Videos /\ r \in runs
            BY <2>1 DEF TypeOK, Runs, Messages
        <3> QED BY <2>1, <2>3, <3>1 DEF ClaimInv
    <2>5. \A w \in Videos :
              /\ row'[w].started <= clock'
              /\ row'[w].status = "rendering" => row'[w].started # 0
        BY <2>1 DEF ClaimInv, TypeOK, Time
    <2>6. \A n \in Messages : queue'[n] > 0 => row'[n.video].status # "absent"
        BY <2>1 DEF ClaimInv, Messages
    <2>7. \A j \in jobs' : row'[j.video].status # "absent"
        BY <2>1 DEF ClaimInv, TypeOK, Jobs
    <2> QED BY <2>1, <2>2, <2>4, <2>5, <2>6, <2>7 DEF ClaimInv, ClaimsAreDistinct
<1> QED BY <1>1, <1>3, <1>4, <1>5 DEF Sweep

LEMMA ClaimFault == TypeOK /\ ClaimInv /\ Fault => ClaimInv'
<1> SUFFICES ASSUME TypeOK, ClaimInv, Fault PROVE ClaimInv'
    OBVIOUS
<1>1. ASSUME NEW j \in jobs, PublisherDies(j) PROVE ClaimInv'
    BY <1>1 DEF PublisherDies, Idle, ClaimInv, ClaimsAreDistinct, TypeOK, Time
<1>2. ASSUME NEW r \in runs, RunDies(r) PROVE ClaimInv'
    <2>1. /\ runs' \subseteq runs
          /\ UNCHANGED <<clock, row, jobs, sweep>>
          /\ queue' = queue \/ queue' = [queue EXCEPT ![r.msg] = @ + 1]
        BY <1>2 DEF RunDies
    <2>2. \A m \in Messages : queue'[m] > 0 => row[m.video].status # "absent"
        <3>1. \A m \in Messages : m # r.msg => queue'[m] = queue[m]
            BY <2>1 DEF TypeOK
        <3>2. row[r.msg.video].status # "absent"
            BY DEF ClaimInv
        <3> QED BY <3>1, <3>2 DEF ClaimInv
    <2> QED BY <2>1, <2>2 DEF ClaimInv, ClaimsAreDistinct
<1> QED BY <1>1, <1>2 DEF Fault

LEMMA ClaimTick == TypeOK /\ ClaimInv /\ Tick => ClaimInv'
<1> SUFFICES ASSUME TypeOK, ClaimInv, Tick PROVE ClaimInv'
    OBVIOUS
<1>1. clock \in Nat /\ clock' = clock + 1 /\ sweep.now \in Nat
    BY DEF Tick, TypeOK, Time
<1>2. \A r \in runs : r.started \in Nat
    BY DEF TypeOK, Runs, Time
<1>3. \A v \in Videos : row[v].started \in Nat
    BY DEF TypeOK, Rows
<1> QED BY <1>1, <1>2, <1>3 DEF Tick, ClaimInv, ClaimsAreDistinct

LEMMA ClaimStep == TypeOK /\ ClaimInv /\ [Next]_vars => ClaimInv'
<1>1. TypeOK /\ ClaimInv /\ UNCHANGED vars => ClaimInv'
    BY DEF ClaimInv, ClaimsAreDistinct, vars
<1> QED BY <1>1, ClaimRequest, ClaimHook, ClaimDeliver, ClaimWork, ClaimSweep,
           ClaimFault, ClaimTick DEF Next

\* render_started_at identifies the attempt: whatever is redelivered, retried
\* or recovered, two live tasks never hold the same claim on the same video.
THEOREM ClaimsDistinct == Spec => []ClaimsAreDistinct
<1>1. Init => TypeOK /\ ClaimInv
    BY TypeInit, ClaimInit
<1>2. TypeOK /\ ClaimInv /\ [Next]_vars => (TypeOK /\ ClaimInv)'
    BY TypeStep, ClaimStep
<1>3. TypeOK /\ ClaimInv => ClaimsAreDistinct
    BY DEF ClaimInv
<1> QED BY <1>1, <1>2, <1>3, PTL DEF Spec

----------------------------------------------------------------------------
(* Files: who may delete what *)

LEMMA FileInit == Init => FileInv
BY DEF Init, FileInv, RowFilesStored, NoRow

\* Steps that neither store nor delete files nor pass a key on.
KeepsKeys ==
    /\ UNCHANGED <<lastKey, store, doomed>>
    /\ \A v \in Videos : row'[v].key \in {row[v].key, 0}
    /\ \A r \in runs' : r \in runs \/ (r.key = 0 /\ r.phase \in {"render", "failing"})

LEMMA KeepsKeysIsEnough == TypeOK /\ FileInv /\ KeepsKeys => FileInv'
<1> SUFFICES ASSUME TypeOK, FileInv, KeepsKeys PROVE FileInv'
    OBVIOUS
<1> USE DEF KeepsKeys
<1>1. lastKey' \in Nat
    BY DEF TypeOK
<1>2. \A r \in runs' :
          /\ r.key <= lastKey'
          /\ r.phase = "render" => r.key = 0
          /\ r.phase \notin {"render", "failing"} => r.key # 0
          /\ r.phase = "video" => <<r.key, "video">> \in store'
          /\ r.phase = "both" => Files(r.key) \subseteq store'
    <2>1. lastKey' = lastKey /\ store' = store
        OBVIOUS
    <2>2. ASSUME NEW r \in runs'
          PROVE /\ r.key <= lastKey'
                /\ r.phase = "render" => r.key = 0
                /\ r.phase \notin {"render", "failing"} => r.key # 0
                /\ r.phase = "video" => <<r.key, "video">> \in store'
                /\ r.phase = "both" => Files(r.key) \subseteq store'
        <3>1. CASE r \in runs
            BY <2>1, <3>1 DEF FileInv
        <3>2. CASE r.key = 0 /\ r.phase \in {"render", "failing"}
            BY <1>1, <2>1, <3>2
        <3> QED BY <3>1, <3>2
    <2> QED BY <2>2
<1>3. \A r1, r2 \in runs' : r1.key = r2.key /\ r1.key # 0 => r1 = r2
    BY DEF FileInv
<1>4. \A v \in Videos :
          /\ row'[v].key <= lastKey'
          /\ \A w \in Videos : row'[v].key = row'[w].key /\ row'[v].key # 0 => v = w
          /\ \A r \in runs' : row'[v].key = r.key /\ r.key # 0 => SharesItsKey(r)
    BY <1>1 DEF FileInv
<1>5. \A k \in doomed' :
          /\ k # 0 /\ k <= lastKey'
          /\ \A v \in Videos : row'[v].key # k
          /\ \A r \in runs' : r.key = k => SharesItsKey(r)
    BY DEF FileInv
<1>6. ~LateException => RowFilesStored'
    BY DEF FileInv, RowFilesStored
<1> QED BY <1>2, <1>3, <1>4, <1>5, <1>6 DEF FileInv, SharesItsKey

LEMMA FileQuiet ==
    ASSUME TypeOK, FileInv,
           \/ \E u \in Users, v \in Videos :
                 Create(u, v) \/ EnableShare(u, v) \/ DisableShare(u, v)
           \/ CancelTrip \/ Hook \/ Deliver \/ Sweep \/ Fault \/ Tick
           \/ \E r \in runs : Return(r) \/ RenderRaises(r) \/ MarkFailed(r)
    PROVE  FileInv'
<1> SUFFICES KeepsKeys
    BY KeepsKeysIsEnough
<1>1. ASSUME NEW u \in Users, NEW v \in Videos,
             Create(u, v) \/ EnableShare(u, v) \/ DisableShare(u, v)
      PROVE KeepsKeys
    BY <1>1 DEF Create, EnableShare, DisableShare, KeepsKeys, NoRow, TypeOK, Rows
<1>2. CASE CancelTrip \/ Tick
    BY <1>2 DEF CancelTrip, Tick, KeepsKeys
<1>3. CASE Hook
    BY <1>3 DEF Hook, Publish, PublishRaises, MarkEnqueueFailed, KeepsKeys, TypeOK, Rows
<1>4. ASSUME NEW m \in Messages, Claim(m) \/ RetryLater(m) \/ Ignore(m) PROVE KeepsKeys
    BY <1>4 DEF Claim, RetryLater, Ignore, KeepsKeys, TypeOK, Rows
<1>5. CASE Sweep
    <2>1. CASE SweepScan
        BY <2>1 DEF SweepScan, KeepsKeys
    <2>2. ASSUME NEW v \in Videos, SweepSkip(v) \/ SweepFail(v) \/ SweepRequeue(v)
          PROVE KeepsKeys
        <3>1. UNCHANGED <<lastKey, store, doomed, runs>>
            BY <2>2 DEF SweepSkip, SweepFail, SweepRequeue, SweepNext
        <3>2. \A w \in Videos : row'[w].key = row[w].key
            BY <2>2 DEF SweepSkip, SweepFail, SweepRequeue, TypeOK, Rows
        <3> QED BY <3>1, <3>2 DEF KeepsKeys
    <2> QED BY <1>5, <2>1, <2>2 DEF Sweep
<1>6. CASE Fault
    BY <1>6 DEF Fault, PublisherDies, RunDies, KeepsKeys
<1>7. ASSUME NEW r \in runs, Return(r) \/ RenderRaises(r) \/ MarkFailed(r) PROVE KeepsKeys
    <2>1. r \in Runs
        BY DEF TypeOK
    <2>2. CASE Return(r)
        BY <2>2 DEF Return, KeepsKeys
    <2>3. CASE RenderRaises(r)
        BY <2>1, <2>3 DEF RenderRaises, Goto, KeepsKeys, FileInv, Runs
    <2>4. CASE MarkFailed(r)
        BY <2>1, <2>4 DEF MarkFailed, KeepsKeys, TypeOK, Rows
    <2> QED BY <1>7, <2>2, <2>3, <2>4
<1> QED BY <1>1, <1>2, <1>3, <1>4, <1>5, <1>6, <1>7 DEF Deliver

LEMMA FileDelete ==
    ASSUME TypeOK, FileInv, NEW u \in Users, NEW v \in Videos, Delete(u, v)
    PROVE  FileInv'
<1>0. lastKey \in Nat
    BY DEF TypeOK
<1>1. /\ row'[v].key = 0
      /\ \A w \in Videos : w # v => row'[w] = row[w]
      /\ doomed' = IF row[v].key = 0 THEN doomed ELSE doomed \cup {row[v].key}
      /\ UNCHANGED <<runs, lastKey, store>>
    BY DEF Delete, NoRow, TypeOK
<1>2. \A w \in Videos :
          /\ row'[w].key <= lastKey
          /\ \A x \in Videos : row'[w].key = row'[x].key /\ row'[w].key # 0 => w = x
          /\ \A r \in runs : row'[w].key = r.key /\ r.key # 0 => SharesItsKey(r)
    <2>1. ASSUME NEW w \in Videos PROVE row'[w].key <= lastKey
        BY <1>0, <1>1 DEF FileInv
    <2>2. ASSUME NEW w \in Videos, NEW x \in Videos, row'[w].key = row'[x].key, row'[w].key # 0
          PROVE w = x
        BY <1>1, <2>2 DEF FileInv
    <2>3. ASSUME NEW w \in Videos, NEW r \in runs, row'[w].key = r.key, r.key # 0
          PROVE SharesItsKey(r)
        BY <1>1, <2>3 DEF FileInv
    <2> QED BY <2>1, <2>2, <2>3
<1>3. \A k \in doomed' :
          /\ k # 0 /\ k <= lastKey
          /\ \A w \in Videos : row'[w].key # k
          /\ \A r \in runs : r.key = k => SharesItsKey(r)
    BY <1>1 DEF FileInv
<1>4. ~LateException => RowFilesStored'
    BY <1>1 DEF FileInv, RowFilesStored
<1> QED BY <1>1, <1>2, <1>3, <1>4 DEF FileInv, SharesItsKey

LEMMA FileDeleteFiles ==
    ASSUME TypeOK, FileInv, NEW k \in doomed, DeleteFiles(k)
    PROVE  FileInv'
<1>1. /\ doomed' = doomed \ {k}
      /\ UNCHANGED <<row, runs, lastKey>>
      /\ \A f \in store : f \notin Files(k) => f \in store'
    BY DEF DeleteFiles
<1>2. \A j : j # k => (Files(j) \subseteq store => Files(j) \subseteq store')
    BY <1>1 DEF Files
<1>3. \A v \in Videos : row[v].key # k
    BY DEF FileInv
<1>4. \A r \in runs : r.phase \in {"video", "both"} => r.key # k
    BY DEF FileInv, SharesItsKey
<1>5. \A r \in runs : r.phase = "video" => <<r.key, "video">> \in store'
    BY <1>1, <1>4 DEF FileInv, Files
<1>6. \A r \in runs : r.phase = "both" => Files(r.key) \subseteq store'
    BY <1>2, <1>4 DEF FileInv
<1>7. ~LateException => RowFilesStored'
    BY <1>1, <1>2, <1>3 DEF FileInv, RowFilesStored
<1> QED BY <1>1, <1>5, <1>6, <1>7 DEF FileInv, SharesItsKey

\* A task that moves on with its key leaves keys distinct and, where its new
\* phase is in order, all tasks in order.
RunInOrder(x) ==
    /\ x.key <= lastKey
    /\ x.phase = "render" => x.key = 0
    /\ x.phase \notin {"render", "failing"} => x.key # 0
    /\ x.phase = "video" => <<x.key, "video">> \in store
    /\ x.phase = "both" => Files(x.key) \subseteq store

LEMMA RunsInOrder == FileInv => \A x \in runs : RunInOrder(x)
BY DEF FileInv, RunInOrder

LEMMA MovedKeys ==
    ASSUME FileInv, NEW r \in runs, NEW q, q.key = r.key,
           runs' \subseteq (runs \ {r}) \cup {q}
    PROVE  /\ \A r1, r2 \in runs' : r1.key = r2.key /\ r1.key # 0 => r1 = r2
           /\ r.key # 0 => \A x \in runs : x # r => x.key # r.key
<1>1. \A x, y \in runs : x.key = y.key /\ x.key # 0 => x = y
    BY DEF FileInv
<1> QED BY <1>1

LEMMA FileSave ==
    ASSUME TypeOK, FileInv, NEW r \in runs, SaveVideo(r) \/ SavePoster(r)
    PROVE  FileInv'
<1>1. /\ lastKey \in Nat /\ r \in Runs
      /\ \A x \in runs : x.key \in Nat
      /\ \A v \in Videos : row[v].key \in Nat
      /\ \A k \in doomed : k \in Nat
    BY DEF TypeOK, Runs, Rows
<1>2. store \subseteq store'
    BY DEF SaveVideo, SavePoster
<1>3. \A k : Files(k) \subseteq store => Files(k) \subseteq store'
    BY <1>2
<1>4. ~LateException => RowFilesStored'
    <2>1. UNCHANGED row
        BY DEF SaveVideo, SavePoster
    <2> QED BY <1>3, <2>1 DEF FileInv, RowFilesStored
<1>5. CASE SaveVideo(r)
    <2> DEFINE k == lastKey + 1
               q == [r EXCEPT !.phase = "video", !.key = k]
    <2>1. /\ lastKey' = k /\ runs' = (runs \ {r}) \cup {q}
          /\ <<k, "video">> \in store' /\ UNCHANGED <<row, doomed>>
          /\ q.phase = "video" /\ q.key = k
        BY <1>1, <1>5 DEF SaveVideo, NewKey, Runs
    <2>2. /\ \A x \in runs : x.key <= lastKey' /\ x.key # k
          /\ \A v \in Videos : row[v].key <= lastKey' /\ row[v].key # k
          /\ \A d \in doomed : d <= lastKey' /\ d # k
        <3>1. \A x \in runs : x.key <= lastKey
            BY DEF FileInv
        <3>2. \A v \in Videos : row[v].key <= lastKey
            BY DEF FileInv
        <3>3. \A d \in doomed : d <= lastKey
            BY DEF FileInv
        <3> QED BY <1>1, <2>1, <3>1, <3>2, <3>3
    <2>3. \A x \in runs' :
              /\ x.key <= lastKey'
              /\ x.phase = "render" => x.key = 0
              /\ x.phase \notin {"render", "failing"} => x.key # 0
              /\ x.phase = "video" => <<x.key, "video">> \in store'
              /\ x.phase = "both" => Files(x.key) \subseteq store'
        <3>1. ASSUME NEW x \in runs
              PROVE /\ x.phase = "render" => x.key = 0
                    /\ x.phase \notin {"render", "failing"} => x.key # 0
                    /\ x.phase = "video" => <<x.key, "video">> \in store'
                    /\ x.phase = "both" => Files(x.key) \subseteq store'
            BY <1>2, <1>3 DEF FileInv
        <3>2. q.key <= lastKey' /\ q.key # 0
            BY <1>1, <2>1
        <3> QED BY <2>1, <2>2, <3>1, <3>2
    <2>4. \A r1, r2 \in runs' : r1.key = r2.key /\ r1.key # 0 => r1 = r2
        BY <2>1, <2>2 DEF FileInv
    <2>5. \A v \in Videos : \A x \in runs' : row'[v].key = x.key /\ x.key # 0 => SharesItsKey(x)
        BY <2>1, <2>2 DEF FileInv
    <2>6. \A d \in doomed' : \A x \in runs' : x.key = d => SharesItsKey(x)
        BY <2>1, <2>2 DEF FileInv
    <2> QED BY <1>4, <2>1, <2>2, <2>3, <2>4, <2>5, <2>6 DEF FileInv, SharesItsKey
<1>6. CASE SavePoster(r)
    <2> DEFINE q == [r EXCEPT !.phase = "both"]
    <2>1. /\ runs' = (runs \ {r}) \cup {q} /\ r.phase = "video"
          /\ <<r.key, "poster">> \in store' /\ UNCHANGED <<row, doomed, lastKey>>
          /\ q.phase = "both" /\ q.key = r.key
        BY <1>1, <1>6 DEF SavePoster, Goto, Runs
    <2>2. Files(r.key) \subseteq store'
        <3>1. <<r.key, "video">> \in store'
            BY <1>2, <2>1 DEF FileInv
        <3> QED BY <2>1, <3>1 DEF Files, Kinds
    <2>3. \A x \in runs' :
              /\ x.key <= lastKey
              /\ x.phase = "render" => x.key = 0
              /\ x.phase \notin {"render", "failing"} => x.key # 0
              /\ x.phase = "video" => <<x.key, "video">> \in store'
              /\ x.phase = "both" => Files(x.key) \subseteq store'
        <3>1. ASSUME NEW x \in runs
              PROVE /\ x.key <= lastKey
                    /\ x.phase = "render" => x.key = 0
                    /\ x.phase \notin {"render", "failing"} => x.key # 0
                    /\ x.phase = "video" => <<x.key, "video">> \in store'
                    /\ x.phase = "both" => Files(x.key) \subseteq store'
            BY <1>2, <1>3 DEF FileInv
        <3> QED BY <2>1, <2>2, <3>1
    <2>4. \A r1, r2 \in runs' : r1.key = r2.key /\ r1.key # 0 => r1 = r2
        BY <2>1, MovedKeys
    <2>5. r.key # 0 /\ ~SharesItsKey(r)
        BY <2>1 DEF FileInv, SharesItsKey
    <2>6. \A v \in Videos : \A x \in runs' : row'[v].key = x.key /\ x.key # 0 => SharesItsKey(x)
        BY <2>1, <2>5 DEF FileInv
    <2>7. \A d \in doomed' : \A x \in runs' : x.key = d => SharesItsKey(x)
        BY <2>1, <2>5 DEF FileInv
    <2> QED BY <1>4, <2>1, <2>3, <2>4, <2>6, <2>7 DEF FileInv, SharesItsKey
<1> QED BY <1>5, <1>6

LEMMA FileCommit ==
    ASSUME TypeOK, FileInv, NEW r \in runs, CommitReady(r)
    PROVE  FileInv'
<1> DEFINE v == r.msg.video
           q == [r EXCEPT !.phase = IF Owns(r) THEN "published" ELSE "lost"]
<1>1. /\ r \in Runs /\ v \in Videos /\ r.key \in Nat /\ r.phase = "both"
      /\ runs' = (runs \ {r}) \cup {q}
      /\ q.phase = (IF Owns(r) THEN "published" ELSE "lost") /\ q.key = r.key
      /\ UNCHANGED <<lastKey, store, doomed>>
    BY DEF TypeOK, Runs, Messages, CommitReady, Goto
<1>2. /\ r.key # 0 /\ r.key <= lastKey /\ Files(r.key) \subseteq store
      /\ ~SharesItsKey(r)
    BY <1>1 DEF FileInv, SharesItsKey
<1>3. /\ \A w \in Videos : row[w].key # r.key
      /\ r.key \notin doomed
    BY <1>2 DEF FileInv
<1>4. /\ \A w \in Videos : w # v => row'[w].key = row[w].key
      /\ row'[v].key = IF Owns(r) THEN r.key ELSE row[v].key
    BY <1>1 DEF CommitReady, TypeOK, Rows
<1>5. \A x \in runs' :
          /\ x.key <= lastKey
          /\ x.phase = "render" => x.key = 0
          /\ x.phase \notin {"render", "failing"} => x.key # 0
          /\ x.phase = "video" => <<x.key, "video">> \in store
          /\ x.phase = "both" => Files(x.key) \subseteq store
    <2>1. q.phase \in {"published", "lost"}
        BY <1>1
    <2>2. \A x \in runs : RunInOrder(x)
        BY RunsInOrder
    <2>3. \A x \in runs' : x \in runs \/ x = q
        BY <1>1
    <2> HIDE DEF q
    <2> QED BY <1>1, <1>2, <2>1, <2>2, <2>3 DEF RunInOrder
<1>6. \A r1, r2 \in runs' : r1.key = r2.key /\ r1.key # 0 => r1 = r2
    BY <1>1, MovedKeys
<1>7. \A x \in runs : x # r => x.key # r.key
    BY <1>1, <1>2, MovedKeys
<1>8. \A w \in Videos : row'[w].key <= lastKey
    BY <1>2, <1>4 DEF FileInv
<1>9. \A w, x \in Videos : row'[w].key = row'[x].key /\ row'[w].key # 0 => w = x
    BY <1>3, <1>4 DEF FileInv
<1>10. \A w \in Videos : \A x \in runs' : row'[w].key = x.key /\ x.key # 0 => SharesItsKey(x)
    <2>1. ASSUME NEW w \in Videos, NEW x \in runs, x # r, row'[w].key = x.key, x.key # 0
          PROVE SharesItsKey(x)
        <3>1. row[w].key = x.key
            BY <1>4, <1>7, <2>1
        <3> QED BY <2>1, <3>1 DEF FileInv
    <2>2. ASSUME NEW w \in Videos, row'[w].key = q.key
          PROVE SharesItsKey(q)
        <3>1. w = v /\ Owns(r)
            BY <1>1, <1>3, <1>4, <2>2
        <3> QED BY <1>1, <3>1 DEF SharesItsKey
    <2> QED BY <1>1, <2>1, <2>2
<1>11. \A d \in doomed :
          /\ d # 0 /\ d <= lastKey
          /\ \A w \in Videos : row'[w].key # d
          /\ \A x \in runs' : x.key = d => SharesItsKey(x)
    BY <1>1, <1>3, <1>4 DEF FileInv
<1>12. ~LateException => RowFilesStored'
    BY <1>1, <1>2, <1>4 DEF FileInv, RowFilesStored
<1> QED BY <1>1, <1>5, <1>6, <1>8, <1>9, <1>10, <1>11, <1>12 DEF FileInv, SharesItsKey

\* Discarding deletes the files of one key; a task that may discard, unless
\* it was interrupted after publishing, is the only holder of its key.
LEMMA DiscardSpares ==
    ASSUME TypeOK, FileInv, NEW r \in runs, r.phase \in {"lost", "raised"},
           \E gone \in SUBSET Files(r.key) : store' = store \ gone,
           UNCHANGED row
    PROVE  /\ \A x \in runs : x.phase = "video" => <<x.key, "video">> \in store'
           /\ \A x \in runs : x.phase = "both" => Files(x.key) \subseteq store'
           /\ ~LateException => RowFilesStored'
<1>1. \A f \in store : f \notin Files(r.key) => f \in store'
    OBVIOUS
<1>2. \A k : k # r.key => (Files(k) \subseteq store => Files(k) \subseteq store')
    BY <1>1 DEF Files
<1>3. r.key # 0
    BY DEF FileInv
<1>4. \A x \in runs : x.phase \in {"video", "both"} => x.key # r.key
    <2>1. \A x \in runs : x.key = r.key => x = r
        BY <1>3 DEF FileInv
    <2> QED BY <2>1
<1>5. \A x \in runs : x.phase = "video" => <<x.key, "video">> \in store'
    BY <1>1, <1>4 DEF FileInv, Files
<1>6. \A x \in runs : x.phase = "both" => Files(x.key) \subseteq store'
    BY <1>2, <1>4 DEF FileInv
<1>7. ASSUME ~LateException PROVE RowFilesStored'
    <2>1. \A v \in Videos : row[v].key # r.key
        BY <1>3, <1>7 DEF FileInv, SharesItsKey
    <2> QED BY <1>2, <1>7, <2>1 DEF FileInv, RowFilesStored
<1> QED BY <1>5, <1>6, <1>7

LEMMA FileDiscard ==
    ASSUME TypeOK, FileInv, NEW r \in runs,
           DiscardLost(r) \/ DiscardRaised(r) \/ FinishRaises(r)
    PROVE  FileInv'
<1> DEFINE q == [r EXCEPT !.phase = IF r.phase = "raised" THEN "failing" ELSE "raised"]
<1>1. /\ r \in Runs /\ q.key = r.key
      /\ q.phase = (IF r.phase = "raised" THEN "failing" ELSE "raised")
    BY DEF TypeOK, Runs
<1>2. /\ runs' \subseteq (runs \ {r}) \cup {q}
      /\ UNCHANGED <<row, lastKey, doomed>>
      /\ r.key # 0
    BY <1>1 DEF DiscardLost, DiscardRaised, FinishRaises, Goto, FileInv
<1>3. /\ \A x \in runs : x.phase = "video" => <<x.key, "video">> \in store'
      /\ \A x \in runs : x.phase = "both" => Files(x.key) \subseteq store'
      /\ ~LateException => RowFilesStored'
    <2>1. CASE DiscardLost(r) \/ DiscardRaised(r)
        BY <2>1, DiscardSpares DEF DiscardLost, DiscardRaised
    <2>2. CASE FinishRaises(r)
        BY <2>2 DEF FinishRaises, FileInv, RowFilesStored
    <2> QED BY <2>1, <2>2
<1>4. SharesItsKey(r) => LateException /\ SharesItsKey(q)
    BY <1>1 DEF SharesItsKey, DiscardLost, DiscardRaised, FinishRaises
<1> HIDE DEF q
<1>5. \A x \in runs' :
          /\ x.key <= lastKey
          /\ x.phase = "render" => x.key = 0
          /\ x.phase \notin {"render", "failing"} => x.key # 0
          /\ x.phase = "video" => <<x.key, "video">> \in store'
          /\ x.phase = "both" => Files(x.key) \subseteq store'
    <2>1. \A x \in runs : RunInOrder(x)
        BY RunsInOrder
    <2> QED BY <1>1, <1>2, <1>3, <2>1 DEF RunInOrder
<1>6. \A r1, r2 \in runs' : r1.key = r2.key /\ r1.key # 0 => r1 = r2
    BY <1>1, <1>2, MovedKeys
<1>7. \A v \in Videos : \A x \in runs' : row[v].key = x.key /\ x.key # 0 => SharesItsKey(x)
    BY <1>1, <1>2, <1>4 DEF FileInv
<1>8. \A d \in doomed : \A x \in runs' : x.key = d => SharesItsKey(x)
    BY <1>1, <1>2, <1>4 DEF FileInv
<1> QED BY <1>2, <1>3, <1>5, <1>6, <1>7, <1>8 DEF FileInv, SharesItsKey

LEMMA FileStep == TypeOK /\ FileInv /\ [Next]_vars => FileInv'
<1> SUFFICES ASSUME TypeOK, FileInv, [Next]_vars PROVE FileInv'
    OBVIOUS
<1>1. CASE UNCHANGED vars
    BY <1>1 DEF FileInv, RowFilesStored, SharesItsKey, vars
<1>2. CASE Request
    BY <1>2, FileQuiet, FileDelete, FileDeleteFiles DEF Request
<1>3. CASE Work
    BY <1>3, FileQuiet, FileSave, FileCommit, FileDiscard DEF Work, RunStep
<1>4. CASE Hook \/ Deliver \/ Sweep \/ Fault \/ Tick
    BY <1>4, FileQuiet
<1> QED BY <1>1, <1>2, <1>3, <1>4 DEF Next

LEMMA FileAlways == Spec => [](TypeOK /\ FileInv)
<1>1. Init => TypeOK /\ FileInv
    BY TypeInit, FileInit
<1>2. TypeOK /\ FileInv /\ [Next]_vars => (TypeOK /\ FileInv)'
    BY TypeStep, FileStep
<1> QED BY <1>1, <1>2, PTL DEF Spec

\* The attempt that lost the race deletes only its own files, under every
\* interleaving of tasks, deletions, requeues and faults.
THEOREM LosersSpareWinners == Spec => []LoserSparesWinner
<1>1. TypeOK /\ FileInv => LoserSparesWinner
    BY DEF FileInv, SharesItsKey, LoserSparesWinner
<1> QED BY <1>1, FileAlways, PTL

\* If no task is interrupted between the COMMIT that publishes its files and
\* its return, then whatever a row points to is in the storage.
THEOREM RowsHaveTheirFiles == ~LateException => (Spec => []RowFilesStored)
<1> SUFFICES ASSUME ~LateException PROVE Spec => []RowFilesStored
    OBVIOUS
<1>1. TypeOK /\ FileInv => RowFilesStored
    BY DEF FileInv
<1> QED BY <1>1, FileAlways, PTL

----------------------------------------------------------------------------
(* Quota *)

\* Only a request makes a row active: tasks, hooks and the sweep move rows
\* within the active statuses or out of them.
OnlyLeavesActive ==
    \A v \in Videos : Active(v)' => Active(v) /\ row'[v].owner = row[v].owner

LEMMA ActiveByRequestOnly ==
    ASSUME TypeOK, [Next]_vars,
           ~ \E u \in Users, v \in Videos : Create(u, v)
    PROVE  OnlyLeavesActive
<1> USE DEF OnlyLeavesActive, Active
<1>1. CASE UNCHANGED vars
    BY <1>1 DEF vars
<1>2. CASE Request
    <2>1. ASSUME NEW u \in Users, NEW v \in Videos,
                 Delete(u, v) \/ EnableShare(u, v) \/ DisableShare(u, v)
          PROVE OnlyLeavesActive
        BY <2>1 DEF Delete, EnableShare, DisableShare, NoRow, TypeOK, Rows
    <2> QED BY <1>2, <2>1 DEF Request, DeleteFiles, CancelTrip
<1>3. CASE Hook
    BY <1>3 DEF Hook, Publish, PublishRaises, MarkEnqueueFailed, TypeOK, Rows
<1>4. ASSUME NEW m \in Messages, Claim(m) \/ RetryLater(m) \/ Ignore(m)
      PROVE OnlyLeavesActive
    BY <1>4 DEF Claim, CanClaim, RetryLater, Ignore, TypeOK, Rows
<1>5. ASSUME NEW r \in runs, RunStep(r) PROVE OnlyLeavesActive
    <2>1. \/ row' = row
          \/ row' = [row EXCEPT ![r.msg.video].status = "failed"]
          \/ row' = [row EXCEPT ![r.msg.video].status = "ready", ![r.msg.video].key = r.key]
        BY <1>5 DEF RunStep, SaveVideo, SavePoster, CommitReady, Return, DiscardLost,
                    RenderRaises, FinishRaises, DiscardRaised, MarkFailed
    <2> QED BY <2>1 DEF TypeOK, Rows
<1>6. CASE SweepScan
    BY <1>6 DEF SweepScan
<1>7. ASSUME NEW v \in Videos, SweepSkip(v) \/ SweepFail(v) \/ SweepRequeue(v)
      PROVE OnlyLeavesActive
    BY <1>7 DEF SweepSkip, SweepFail, SweepRequeue, StillStale, TypeOK, Rows
<1>8. CASE Fault \/ Tick
    BY <1>8 DEF Fault, PublisherDies, RunDies, Tick
<1> QED BY <1>1, <1>2, <1>3, <1>4, <1>5, <1>6, <1>7, <1>8 DEF Next, Deliver, Work, Sweep

LEMMA ActiveFinite ==
    /\ IsFiniteSet(ActiveAll) /\ Cardinality(ActiveAll) \in Nat
    /\ \A u \in Users : IsFiniteSet(ActiveOf(u)) /\ Cardinality(ActiveOf(u)) \in Nat
<1>1. ActiveAll \subseteq Videos /\ \A u \in Users : ActiveOf(u) \subseteq Videos
    BY DEF ActiveAll, ActiveOf
<1> QED BY <1>1, ConstantsAssumption, FS_Subset, FS_CardinalityType

LEMMA QuotaCreate ==
    ASSUME TypeOK, QuotaHolds, NEW u \in Users, NEW v \in Videos, Create(u, v)
    PROVE  QuotaHolds'
<1>1. /\ row'[v].status = "queued" /\ row'[v].owner = u
      /\ \A w \in Videos : w # v => row'[w] = row[w]
    BY DEF Create, NoRow, TypeOK
<1>2. ActiveAll' \subseteq ActiveAll \cup {v}
    BY <1>1 DEF ActiveAll, Active
<1>3. ActiveOf(u)' \subseteq ActiveOf(u) \cup {v}
    BY <1>1 DEF ActiveOf, Active
<1>4. \A w \in Users : w # u => ActiveOf(w)' \subseteq ActiveOf(w)
    BY <1>1 DEF ActiveOf, Active
<1>5. ASSUME NEW S, NEW T, NEW n \in Nat,
             IsFiniteSet(S), Cardinality(S) \in Nat, Cardinality(S) < n, T \subseteq S \cup {v}
      PROVE  Cardinality(T) <= n
    <2>1. /\ IsFiniteSet(S \cup {v})
          /\ Cardinality(S \cup {v}) = IF v \in S THEN Cardinality(S) ELSE Cardinality(S) + 1
        BY <1>5, FS_AddElement
    <2>2. IsFiniteSet(T) /\ Cardinality(T) <= Cardinality(S \cup {v})
        BY <1>5, <2>1, FS_Subset
    <2>3. Cardinality(T) \in Nat
        BY <2>2, FS_CardinalityType
    <2> QED BY <1>5, <2>1, <2>2, <2>3
<1>6. Cardinality(ActiveOf(u)) < MaxPerUser /\ Cardinality(ActiveAll) < MaxPerTrip
    BY DEF Create, QuotaAvailable
<1>7. Cardinality(ActiveAll') <= MaxPerTrip
    BY <1>2, <1>5, <1>6, ActiveFinite, ConstantsAssumption
<1>8. Cardinality(ActiveOf(u)') <= MaxPerUser
    BY <1>3, <1>5, <1>6, ActiveFinite, ConstantsAssumption
<1>9. ASSUME NEW w \in Users, w # u PROVE Cardinality(ActiveOf(w)') <= MaxPerUser
    <2>1. Cardinality(ActiveOf(w)') <= Cardinality(ActiveOf(w)) /\ IsFiniteSet(ActiveOf(w)')
        BY <1>4, <1>9, ActiveFinite, FS_Subset
    <2>2. Cardinality(ActiveOf(w)') \in Nat
        BY <2>1, FS_CardinalityType
    <2>3. Cardinality(ActiveOf(w)) <= MaxPerUser
        BY DEF QuotaHolds
    <2> QED BY <2>1, <2>2, <2>3, ActiveFinite, ConstantsAssumption
<1> QED BY <1>7, <1>8, <1>9 DEF QuotaHolds

LEMMA QuotaStep == TypeOK /\ QuotaHolds /\ [Next]_vars => QuotaHolds'
<1> SUFFICES ASSUME TypeOK, QuotaHolds, [Next]_vars PROVE QuotaHolds'
    OBVIOUS
<1>1. CASE \E u \in Users, v \in Videos : Create(u, v)
    BY <1>1, QuotaCreate
<1>2. CASE ~ \E u \in Users, v \in Videos : Create(u, v)
    <2>1. OnlyLeavesActive
        BY <1>2, ActiveByRequestOnly
    <2>2. ActiveAll' \subseteq ActiveAll /\ \A u \in Users : ActiveOf(u)' \subseteq ActiveOf(u)
        BY <2>1 DEF OnlyLeavesActive, ActiveAll, ActiveOf
    <2>3. ASSUME NEW S, NEW T, NEW n \in Nat,
                 IsFiniteSet(S), Cardinality(S) \in Nat, Cardinality(S) <= n, T \subseteq S
          PROVE  Cardinality(T) <= n
        <3>1. IsFiniteSet(T) /\ Cardinality(T) <= Cardinality(S)
            BY <2>3, FS_Subset
        <3>2. Cardinality(T) \in Nat
            BY <3>1, FS_CardinalityType
        <3> QED BY <2>3, <3>1, <3>2
    <2> QED BY <2>2, <2>3, ActiveFinite, ConstantsAssumption DEF QuotaHolds
<1> QED BY <1>1, <1>2

\* The quotas bound what is in progress at any time, although they are only
\* checked when a video is created and rows go back to QUEUED later.
THEOREM QuotaAlways == Spec => []QuotaHolds
<1>1. Init => QuotaHolds
    <2> SUFFICES ASSUME Init PROVE QuotaHolds
        OBVIOUS
    <2>1. ActiveAll = {} /\ \A u \in Users : ActiveOf(u) = {}
        BY DEF Init, NoRow, ActiveAll, ActiveOf, Active
    <2> QED BY <2>1, FS_EmptySet, ConstantsAssumption DEF QuotaHolds
<1>2. TypeOK /\ QuotaHolds /\ [Next]_vars => QuotaHolds'
    BY QuotaStep
<1> QED BY <1>1, <1>2, TypeInit, TypeStep, PTL DEF Spec

----------------------------------------------------------------------------
(* FAILED is final *)

LEMMA FailedStep == TypeOK /\ [Next]_vars =>
    \A v \in Videos : row[v].status = "failed" => row'[v].status \in {"failed", "deleted"}
<1> SUFFICES ASSUME TypeOK, [Next]_vars, NEW v \in Videos, row[v].status = "failed"
             PROVE  row'[v].status \in {"failed", "deleted"}
    OBVIOUS
<1>1. CASE UNCHANGED vars
    BY <1>1 DEF vars
<1>2. CASE Request
    <2>1. ASSUME NEW u \in Users, NEW w \in Videos,
                 Create(u, w) \/ Delete(u, w) \/ EnableShare(u, w) \/ DisableShare(u, w)
          PROVE row'[v].status \in {"failed", "deleted"}
        BY <2>1 DEF Create, Delete, EnableShare, DisableShare, NoRow, TypeOK, Rows
    <2> QED BY <1>2, <2>1 DEF Request, DeleteFiles, CancelTrip
<1>3. CASE Hook
    BY <1>3 DEF Hook, Publish, PublishRaises, MarkEnqueueFailed, TypeOK, Rows
<1>4. ASSUME NEW m \in Messages, Claim(m) \/ RetryLater(m) \/ Ignore(m)
      PROVE row'[v].status \in {"failed", "deleted"}
    BY <1>4 DEF Claim, CanClaim, RetryLater, Ignore, TypeOK, Rows
<1>5. ASSUME NEW r \in runs, RunStep(r) PROVE row'[v].status \in {"failed", "deleted"}
    <2>1. \/ row' = row
          \/ row' = [row EXCEPT ![r.msg.video].status = "failed"]
          \/ /\ Owns(r)
             /\ row' = [row EXCEPT ![r.msg.video].status = "ready", ![r.msg.video].key = r.key]
        BY <1>5 DEF RunStep, SaveVideo, SavePoster, CommitReady, Return, DiscardLost,
                    RenderRaises, FinishRaises, DiscardRaised, MarkFailed
    <2> QED BY <2>1 DEF Owns, TypeOK, Rows
<1>6. CASE SweepScan
    BY <1>6 DEF SweepScan
<1>7. ASSUME NEW w \in Videos, SweepSkip(w) \/ SweepFail(w) \/ SweepRequeue(w)
      PROVE row'[v].status \in {"failed", "deleted"}
    BY <1>7 DEF SweepSkip, SweepFail, SweepRequeue, StillStale, TypeOK, Rows
<1>8. CASE Fault \/ Tick
    BY <1>8 DEF Fault, PublisherDies, RunDies, Tick
<1> QED BY <1>1, <1>2, <1>3, <1>4, <1>5, <1>6, <1>7, <1>8 DEF Next, Deliver, Work, Sweep

\* A video the user was told has failed does not come back, whichever task is
\* still at work on it.
THEOREM FailedStaysFailed == Spec => FailedIsFinal
<1>1. TypeOK /\ [Next]_vars =>
          [\A v \in Videos : row[v].status = "failed" =>
               row'[v].status \in {"failed", "deleted"}]_vars
    BY FailedStep
<1> QED BY <1>1, TypeCorrect, PTL DEF Spec, FailedIsFinal

----------------------------------------------------------------------------
(* One task at a time renders a video *)

LEMMA TimeInit == Init => TimeInv
BY DEF Init, TimeInv

\* What every step but a claim and the clock does: tasks keep their message and
\* claim or go, and no row a task works on is put back.
KeepsTime ==
    /\ clock' = clock
    /\ \A r \in runs' : \E q \in runs : r.msg = q.msg /\ r.started = q.started
    /\ \A r1, r2 \in runs' : r1.msg.video = r2.msg.video =>
           r1 = r2 \/ \E q1, q2 \in runs : q1 # q2 /\ q1.msg.video = q2.msg.video
    /\ HardLimit <= StaleAfter =>
           \A r \in runs : row[r.msg.video].status # "queued" =>
                               row'[r.msg.video].status # "queued"

LEMMA KeepsTimeIsEnough == TimeInv /\ KeepsTime => TimeInv'
BY DEF TimeInv, KeepsTime

LEMMA SameRunsKeepTime ==
    ASSUME TypeOK, UNCHANGED <<clock, runs>>,
           \A r \in runs : row'[r.msg.video].status = "queued" =>
                               row[r.msg.video].status = "queued"
    PROVE  KeepsTime
BY DEF KeepsTime

LEMMA TimeDeliver ==
    ASSUME TypeOK, ClaimInv, TimeInv, NEW m \in Messages,
           Claim(m) \/ RetryLater(m) \/ Ignore(m)
    PROVE  TimeInv'
<1>1. CASE Claim(m)
    <2> DEFINE new == [phase |-> "render", msg |-> m, started |-> clock, key |-> 0]
    <2>1. /\ m.video \in Videos
          /\ row'[m.video].status = "rendering"
          /\ \A w \in Videos : w # m.video => row'[w] = row[w]
          /\ runs' = runs \cup {new} /\ clock' = clock
          /\ clock \in Nat /\ HardLimit \in Nat /\ StaleAfter \in Nat
        BY <1>1, ConstantsAssumption DEF Claim, TypeOK, Time, Rows, Messages
    <2>2. \A r \in runs : r.msg.video \in Videos /\ r.started \in Nat
        BY DEF TypeOK, Runs, Messages, Time
    <2>3. ASSUME HardLimit <= StaleAfter, NEW r \in runs PROVE r.msg.video # m.video
        <3> SUFFICES ASSUME r.msg.video = m.video PROVE FALSE
            OBVIOUS
        <3>1. row[m.video].status = "rendering" /\ ~StillRendering(m.video)
            BY <1>1, <2>3 DEF TimeInv, Claim, CanClaim
        <3>2. /\ row[m.video].started + StaleAfter < clock
              /\ r.started <= row[m.video].started /\ row[m.video].started \in Nat
            BY <2>1, <3>1 DEF StillRendering, Stale, ClaimInv, TypeOK, Rows
        <3>3. clock <= r.started + HardLimit
            BY DEF TimeInv
        <3> QED BY <2>1, <2>2, <2>3, <3>2, <3>3
    <2>4. \A r \in runs' : clock' <= r.started + HardLimit
        BY <2>1 DEF TimeInv
    <2>5. ASSUME HardLimit <= StaleAfter
          PROVE  /\ \A r \in runs' : row'[r.msg.video].status # "queued"
                 /\ \A r1, r2 \in runs' : r1.msg.video = r2.msg.video => r1 = r2
        BY <2>1, <2>2, <2>3, <2>5 DEF TimeInv
    <2> QED BY <2>4, <2>5 DEF TimeInv
<1>2. CASE RetryLater(m) \/ Ignore(m)
    BY <1>2, SameRunsKeepTime, KeepsTimeIsEnough DEF RetryLater, Ignore
<1> QED BY <1>1, <1>2

LEMMA TimeSweep == TypeOK /\ ClaimInv /\ TimeInv /\ Sweep => KeepsTime
<1> SUFFICES ASSUME TypeOK, ClaimInv, TimeInv, Sweep PROVE KeepsTime
    OBVIOUS
<1>1. CASE SweepScan
    BY <1>1, SameRunsKeepTime DEF SweepScan
<1>2. ASSUME NEW v \in Videos, SweepSkip(v) \/ SweepFail(v) PROVE KeepsTime
    <2>1. UNCHANGED <<clock, runs>>
        BY <1>2 DEF SweepSkip, SweepFail, SweepNext
    <2>2. \A w \in Videos : row'[w].status = "queued" => row[w].status = "queued"
        BY <1>2 DEF SweepSkip, SweepFail, TypeOK, Rows
    <2>3. \A r \in runs : r.msg.video \in Videos
        BY DEF TypeOK, Runs, Messages
    <2> QED BY <2>1, <2>2, <2>3, SameRunsKeepTime
<1>3. ASSUME NEW v \in Videos, SweepRequeue(v) PROVE KeepsTime
    <2>1. /\ UNCHANGED <<clock, runs>>
          /\ \A w \in Videos : w # v => row'[w] = row[w]
        BY <1>3 DEF SweepRequeue, SweepNext, TypeOK
    <2>2. ASSUME HardLimit <= StaleAfter, NEW r \in runs PROVE r.msg.video # v
        <3> SUFFICES ASSUME r.msg.video = v PROVE FALSE
            OBVIOUS
        <3>1. row[v].status = "rendering" /\ row[v].started + StaleAfter < sweep.now
            BY <1>3 DEF SweepRequeue, StillStale, Stale
        <3>2. /\ r.started <= row[v].started /\ sweep.now <= clock
              /\ clock <= r.started + HardLimit
            BY <3>1 DEF ClaimInv, TimeInv
        <3>3. /\ r.started \in Nat /\ row[v].started \in Nat /\ sweep.now \in Nat
              /\ clock \in Nat /\ HardLimit \in Nat /\ StaleAfter \in Nat
            BY ConstantsAssumption DEF TypeOK, Runs, Rows, Time
        <3> QED BY <2>2, <3>1, <3>2, <3>3
    <2>3. \A r \in runs : r.msg.video \in Videos
        BY DEF TypeOK, Runs, Messages
    <2> QED BY <2>1, <2>2, <2>3 DEF KeepsTime
<1> QED BY <1>1, <1>2, <1>3 DEF Sweep

LEMMA TimeStep == TypeOK /\ ClaimInv /\ TimeInv /\ [Next]_vars => TimeInv'
<1> SUFFICES ASSUME TypeOK, ClaimInv, TimeInv, [Next]_vars PROVE TimeInv'
    OBVIOUS
<1>1. \A r \in runs : /\ r.msg.video \in Videos /\ row[r.msg.video].status # "absent"
                      /\ r.started \in Nat
    BY DEF TypeOK, Runs, Messages, Time, ClaimInv
<1>2. CASE Request
    <2>1. \A r \in runs : row'[r.msg.video].status = "queued" =>
                              row[r.msg.video].status = "queued"
        <3>1. ASSUME NEW u \in Users, NEW v \in Videos,
                     Create(u, v) \/ Delete(u, v) \/ EnableShare(u, v) \/ DisableShare(u, v)
              PROVE \A w \in Videos : row'[w].status = "queued" =>
                        row[w].status \in {"queued", "absent"}
            BY <3>1 DEF Create, Delete, EnableShare, DisableShare, NoRow, TypeOK, Rows
        <3> QED BY <1>1, <1>2, <3>1 DEF Request, DeleteFiles, CancelTrip
    <2>2. UNCHANGED <<clock, runs>>
        BY <1>2 DEF Request, Create, Delete, EnableShare, DisableShare, DeleteFiles, CancelTrip
    <2> QED BY <2>1, <2>2, SameRunsKeepTime, KeepsTimeIsEnough
<1>3. CASE Hook
    <2>1. UNCHANGED <<clock, runs>>
        BY <1>3 DEF Hook, Publish, PublishRaises, MarkEnqueueFailed
    <2>2. \A w \in Videos : row'[w].status = "queued" => row[w].status = "queued"
        BY <1>3 DEF Hook, Publish, PublishRaises, MarkEnqueueFailed, TypeOK, Rows
    <2> QED BY <1>1, <2>1, <2>2, SameRunsKeepTime, KeepsTimeIsEnough
<1>4. ASSUME NEW r \in runs, RunStep(r) PROVE KeepsTime
    <2>1. PICK q \in Runs : /\ q.msg = r.msg /\ q.started = r.started
                            /\ runs' = (runs \ {r}) \cup {q} \/ runs' = runs \ {r}
        BY <1>4, RunMoves
    <2>2. clock' = clock
        BY <1>4 DEF RunStep, SaveVideo, SavePoster, CommitReady, Return, DiscardLost,
                    RenderRaises, FinishRaises, DiscardRaised, MarkFailed
    <2>3. \A w \in Videos : row'[w].status = "queued" => row[w].status = "queued"
        <3>1. \/ row' = row
              \/ row' = [row EXCEPT ![r.msg.video].status = "failed"]
              \/ row' = [row EXCEPT ![r.msg.video].status = "ready", ![r.msg.video].key = r.key]
            BY <1>4 DEF RunStep, SaveVideo, SavePoster, CommitReady, Return, DiscardLost,
                        RenderRaises, FinishRaises, DiscardRaised, MarkFailed
        <3> QED BY <3>1 DEF TypeOK, Rows
    <2>4. \A r1, r2 \in runs' : r1.msg.video = r2.msg.video =>
              r1 = r2 \/ \E q1, q2 \in runs : q1 # q2 /\ q1.msg.video = q2.msg.video
        BY <2>1
    <2>5. \A x \in runs' : \E y \in runs : x.msg = y.msg /\ x.started = y.started
        BY <2>1
    <2> QED BY <1>1, <2>2, <2>3, <2>4, <2>5 DEF KeepsTime
<1>5. ASSUME NEW j \in jobs, PublisherDies(j) PROVE TimeInv'
    BY <1>5, SameRunsKeepTime, KeepsTimeIsEnough DEF PublisherDies
<1>6. ASSUME NEW r \in runs, RunDies(r) PROVE TimeInv'
    BY <1>6 DEF RunDies, TimeInv
<1>7. CASE Tick
    <2>1. clock \in Nat /\ HardLimit \in Nat
        BY ConstantsAssumption DEF TypeOK, Time
    <2> QED BY <1>1, <1>7, <2>1 DEF Tick, TimeInv
<1>8. CASE UNCHANGED vars
    BY <1>8 DEF vars, TimeInv
<1> QED BY <1>2, <1>3, <1>4, <1>5, <1>6, <1>7, <1>8, TimeDeliver, TimeSweep, KeepsTimeIsEnough
        DEF Next, Deliver, Work, Fault

\* If a task is killed before its claim goes stale, no two tasks ever render the
\* same video, whatever is redelivered, retried or put back by the sweep.
THEOREM OneTaskRenders == Spec => []OneLiveRender
<1>1. Init => TypeOK /\ ClaimInv /\ TimeInv
    BY TypeInit, ClaimInit, TimeInit
<1>2. TypeOK /\ ClaimInv /\ TimeInv /\ [Next]_vars => (TypeOK /\ ClaimInv /\ TimeInv)'
    BY TypeStep, ClaimStep, TimeStep
<1>3. TimeInv => OneLiveRender
    BY DEF TimeInv, OneLiveRender
<1> QED BY <1>1, <1>2, <1>3, PTL DEF Spec

----------------------------------------------------------------------------
(* READY is final, and what is public stays *)

LEMMA ReadyStep ==
    ASSUME TypeOK, [Next]_vars, NEW v \in Videos, row[v].status = "ready"
    PROVE  \/ row'[v].status = "deleted" /\ ~row'[v].shared
           \/ row'[v].status = "ready" /\ row'[v].key = row[v].key
           \/ row'[v].status = "failed" /\ EnqueueFailing(v)
<1> DEFINE Goal == \/ row'[v].status = "deleted" /\ ~row'[v].shared
                   \/ row'[v].status = "ready" /\ row'[v].key = row[v].key
                   \/ row'[v].status = "failed" /\ EnqueueFailing(v)
<1>1. CASE UNCHANGED vars
    BY <1>1 DEF vars
<1>2. CASE Request
    <2>1. ASSUME NEW u \in Users, NEW w \in Videos,
                 Create(u, w) \/ Delete(u, w) \/ EnableShare(u, w) \/ DisableShare(u, w)
          PROVE Goal
        BY <2>1 DEF Create, Delete, EnableShare, DisableShare, NoRow, TypeOK, Rows
    <2> QED BY <1>2, <2>1 DEF Request, DeleteFiles, CancelTrip
<1>3. CASE Hook
    <2>1. PICK j \in jobs : Publish(j) \/ PublishRaises(j) \/ MarkEnqueueFailed(j)
        BY <1>3 DEF Hook
    <2>2. CASE MarkEnqueueFailed(j)
        BY <2>2 DEF MarkEnqueueFailed, EnqueueFailing, TypeOK, Rows
    <2> QED BY <2>1, <2>2 DEF Publish, PublishRaises
<1>4. ASSUME NEW m \in Messages, Claim(m) \/ RetryLater(m) \/ Ignore(m)
      PROVE Goal
    BY <1>4 DEF Claim, CanClaim, RetryLater, Ignore, TypeOK, Rows
<1>5. ASSUME NEW r \in runs, RunStep(r) PROVE Goal
    <2>1. \/ row' = row
          \/ Owns(r) /\ \A w \in Videos : w # r.msg.video => row'[w] = row[w]
        BY <1>5 DEF RunStep, SaveVideo, SavePoster, CommitReady, Return, DiscardLost,
                    RenderRaises, FinishRaises, DiscardRaised, MarkFailed, TypeOK
    <2> QED BY <2>1 DEF Owns
<1>6. CASE SweepScan
    BY <1>6 DEF SweepScan
<1>7. ASSUME NEW w \in Videos, SweepSkip(w) \/ SweepFail(w) \/ SweepRequeue(w)
      PROVE Goal
    BY <1>7 DEF SweepSkip, SweepFail, SweepRequeue, StillStale, TypeOK, Rows
<1>8. CASE Fault \/ Tick
    BY <1>8 DEF Fault, PublisherDies, RunDies, Tick
<1> QED BY <1>1, <1>2, <1>3, <1>4, <1>5, <1>6, <1>7, <1>8 DEF Next, Deliver, Work, Sweep

\* Nothing a task, a sweep or a redelivered message does takes a READY video
\* back or swaps its files; only a deletion and a failed enqueue end it.
THEOREM ReadyStaysReady == Spec => ReadyIsFinal
<1>1. TypeOK /\ [Next]_vars =>
          [\A v \in Videos : row[v].status = "ready" =>
               \/ row'[v].status = "deleted"
               \/ row'[v].status = "ready" /\ row'[v].key = row[v].key
               \/ row'[v].status = "failed" /\ EnqueueFailing(v)]_vars
    BY ReadyStep
<1> QED BY <1>1, TypeCorrect, PTL DEF Spec, ReadyIsFinal

\* Files leave the storage in three steps, none of which may touch those a row
\* points to: a discarded attempt's key is no row's, nor is a doomed one.
LEMMA FilesStay ==
    ASSUME TypeOK, FileInv, ~LateException, [Next]_vars,
           NEW v \in Videos, Files(row[v].key) \subseteq store
    PROVE  Files(row[v].key) \subseteq store'
<1> DEFINE k == row[v].key
<1>1. ASSUME NEW d, d # k, NEW gone \in SUBSET Files(d), store' = store \ gone
      PROVE  Files(k) \subseteq store'
    BY <1>1 DEF Files
<1>2. CASE Request
    <2>1. ASSUME NEW d \in doomed, DeleteFiles(d) PROVE Files(k) \subseteq store'
        <3>1. d # k
            BY DEF FileInv
        <3> QED BY <1>1, <2>1, <3>1 DEF DeleteFiles
    <2> QED BY <1>2, <2>1 DEF Request, Create, Delete, EnableShare, DisableShare, CancelTrip
<1>3. ASSUME NEW r \in runs, RunStep(r) PROVE Files(k) \subseteq store'
    <2>1. CASE DiscardLost(r) \/ DiscardRaised(r)
        <3>1. r.key # 0 /\ ~SharesItsKey(r)
            BY <2>1 DEF DiscardLost, DiscardRaised, FileInv, SharesItsKey
        <3>2. r.key # k
            BY <3>1 DEF FileInv
        <3> QED BY <1>1, <2>1, <3>2 DEF DiscardLost, DiscardRaised
    <2>2. CASE SaveVideo(r) \/ SavePoster(r)
        BY <2>2 DEF SaveVideo, SavePoster
    <2>3. CASE CommitReady(r) \/ Return(r) \/ RenderRaises(r) \/ FinishRaises(r) \/ MarkFailed(r)
        BY <2>3 DEF CommitReady, Return, RenderRaises, FinishRaises, MarkFailed
    <2> QED BY <1>3, <2>1, <2>2, <2>3 DEF RunStep
<1>4. CASE Hook \/ Deliver \/ Sweep \/ Fault \/ Tick \/ UNCHANGED vars
    BY <1>4 DEF Hook, Publish, PublishRaises, MarkEnqueueFailed, Deliver, Claim, RetryLater,
            Ignore, Sweep, SweepScan, SweepSkip, SweepFail, SweepRequeue, SweepNext, Fault,
            PublisherDies, RunDies, Tick, vars
<1> QED BY <1>2, <1>3, <1>4 DEF Next, Work

\* If no task is interrupted between its COMMIT and its return, a video that is
\* served in public is taken away by a member or by a failed enqueue only.
THEOREM PublicStaysPublic == ~LateException => (Spec => PublicStays)
<1> SUFFICES ASSUME ~LateException PROVE Spec => PublicStays
    OBVIOUS
<1>1. TypeOK /\ FileInv /\ [Next]_vars =>
          [\A v \in Videos : Viewable(v) =>
               Viewable(v)' \/ ~row'[v].shared \/ EnqueueFailing(v)]_vars
    <2> SUFFICES ASSUME TypeOK, FileInv, [Next]_vars, NEW v \in Videos, Viewable(v),
                        row'[v].shared, ~EnqueueFailing(v)
                 PROVE  Viewable(v)'
        OBVIOUS
    <2>1. row'[v].status = "ready" /\ row'[v].key = row[v].key
        BY ReadyStep DEF Viewable
    <2>2. Files(row[v].key) \subseteq store'
        BY FilesStay DEF Viewable
    <2> QED BY <2>1, <2>2 DEF Viewable
<1> QED BY <1>1, FileAlways, PTL DEF Spec, PublicStays
=============================================================================
