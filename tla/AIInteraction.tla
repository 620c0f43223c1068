---------------------------- MODULE AIInteraction ----------------------------
(***************************************************************************)
(* Prompts to GoPlanAI in the chat of one trip: the rows of AIInteraction, *)
(* the Celery tasks that answer them, retries, and the recovery command    *)
(* (backend/ai/services.py, ai/lifecycle.py, ai/tasks.py).                 *)
(*                                                                         *)
(* A row in PENDING or RUNNING is a lease on the trip's one reply until    *)
(* lock_expires_at.  Unlike a memory video it carries no token of its      *)
(* holder: a task that outlives its lease is stopped only by the reply     *)
(* that somebody else has posted.                                          *)
(***************************************************************************)
EXTENDS Integers, FiniteSets

CONSTANTS
    Prompts,         \* primary keys of AIInteraction, each used at most once
    Slots,           \* tasks that may run at the same time
    LockTTL,         \* GOPLAN_AI_LOCK_TTL_SECONDS, in ticks
    HardLimit,       \* CELERY_TASK_TIME_LIMIT, in ticks
    MaxAttempts,     \* GOPLAN_AI_MAX_ATTEMPTS
    MaxBusyRetries,  \* max_retries of the task for a busy trip (12)
    BusyDelay,       \* its countdown
    Budgets,         \* max_retries of the error codes; 0 for codes without policy
    TimeoutBudget,   \* max_retries of TIMEOUT
    RetryDelays,     \* countdowns of the retry policies
    MaxTime,         \* bound: the last instant of the clock
    MaxFaults,       \* bound: how often something dies or fails to publish
    LastFault        \* bound: no fault after this instant

ASSUME ConstantsAssumption ==
    /\ IsFiniteSet(Prompts)
    /\ Slots \in Nat \ {0}
    /\ LockTTL \in Nat \ {0} /\ HardLimit \in Nat \ {0}
    /\ MaxAttempts \in Nat /\ MaxBusyRetries \in Nat /\ BusyDelay \in Nat
    /\ TimeoutBudget \in Budgets /\ Budgets \subseteq 0 .. MaxBusyRetries
    /\ RetryDelays \subseteq 0 .. LockTTL
    /\ MaxTime \in Nat /\ MaxFaults \in Nat /\ LastFault \in Nat

VARIABLES
    clock,    \* timezone.now(), in ticks
    row,      \* the table ai_interaction
    replies,  \* per prompt: AI messages posted in answer to it
    loose,    \* prompts with action drafts that have no response message
    jobs,     \* on_commit hooks, and the recovery, about to call delay()
    queue,    \* the broker: how many copies of each message wait
    runs,     \* tasks in progress
    recovery, \* the run of recover_stale_ai_interactions in progress
    faults    \* bound: the faults so far

vars == <<clock, row, replies, loose, jobs, queue, runs, recovery, faults>>

----------------------------------------------------------------------------
Time     == 0 .. MaxTime
Statuses == {"absent", "pending", "running", "succeeded", "failed"}
Phases   == {"agent", "answer", "posted", "error", "crashed", "retry"}

Rows == [status : Statuses, lock : 0 .. MaxTime + LockTTL, attempts : Nat]
Messages == [prompt : Prompts, retries : 0 .. MaxBusyRetries,
             eta : 0 .. MaxTime + LockTTL + BusyDelay]
Runs == [phase : Phases, msg : Messages, attempt : Nat, started : Time,
         budget : Budgets, delay : RetryDelays \cup {0}]

Fresh(i) == [prompt |-> i, retries |-> 0, eta |-> 0]
Again(m, delay) == [m EXCEPT !.retries = @ + 1, !.eta = clock + delay]
Idle == [now |-> 0, todo |-> {}, giveUp |-> {}]

Terminal(i) == row[i].status \in {"succeeded", "failed"}

\* has_active_ai_interaction, at instant now
Active(i, now) == row[i].status \in {"pending", "running"} /\ row[i].lock > now
OtherActive(i, now) == \E k \in Prompts \ {i} : Active(k, now)

----------------------------------------------------------------------------
TypeOK ==
    /\ clock \in Time
    /\ row \in [Prompts -> Rows]
    /\ replies \in [Prompts -> Nat]
    /\ loose \subseteq Prompts
    /\ jobs \subseteq [by : {"chat", "recovery"}, prompt : Prompts]
    /\ queue \in [Messages -> Nat]
    /\ runs \subseteq Runs
    /\ recovery \in [now : Time, todo : SUBSET Prompts, giveUp : SUBSET Prompts]
    /\ faults \in 0 .. MaxFaults

Init ==
    /\ clock = 0
    /\ row = [i \in Prompts |-> [status |-> "absent", lock |-> 0, attempts |-> 0]]
    /\ replies = [i \in Prompts |-> 0]
    /\ loose = {}
    /\ jobs = {}
    /\ queue = [m \in Messages |-> 0]
    /\ runs = {}
    /\ recovery = Idle
    /\ faults = 0

----------------------------------------------------------------------------
(* send_chat_message with an @GoPlanAI mention, under the trip lock *)

\* Mutant: only a task in progress keeps the trip busy.
AvailableUnlessRunning ==
    \A i \in Prompts : ~ (Active(i, clock) /\ row[i].status = "running")

PromptAvailable == \A i \in Prompts : ~Active(i, clock)

Ask(i) ==
    /\ row[i].status = "absent"
    /\ PromptAvailable
    /\ row' = [row EXCEPT ![i] = [status |-> "pending", lock |-> clock + LockTTL,
                                  attempts |-> 0]]
    /\ jobs' = jobs \cup {[by |-> "chat", prompt |-> i]}
    /\ UNCHANGED <<clock, replies, loose, queue, runs, recovery, faults>>

(* enqueue_ai_interaction *)

Publish(j) ==
    /\ jobs' = jobs \ {j}
    /\ queue' = [queue EXCEPT ![Fresh(j.prompt)] = @ + 1]
    /\ UNCHANGED <<clock, row, replies, loose, runs, recovery, faults>>

Fault == faults < MaxFaults /\ clock <= LastFault /\ faults' = faults + 1

\* delay() raises, or the process dies before it: the row stays as committed.
PublishFails(j) ==
    /\ Fault
    /\ jobs' = jobs \ {j}
    /\ UNCHANGED <<clock, row, replies, loose, queue, runs, recovery>>

----------------------------------------------------------------------------
(* claim_interaction_for_run *)

Deliverable(m) == queue[m] > 0 /\ m.eta <= clock /\ Cardinality(runs) < Slots

\* Mutant: a running interaction is claimed again before its lock expires.
BusyForOthersOnly(i) == OtherActive(i, clock)

Busy(i) ==
    \/ row[i].status = "running" /\ row[i].lock > clock
    \/ OtherActive(i, clock)

Claim(m) ==
    /\ Deliverable(m)
    /\ replies[m.prompt] = 0 /\ ~Terminal(m.prompt) /\ ~Busy(m.prompt)
    /\ queue' = [queue EXCEPT ![m] = @ - 1]
    /\ row' = [row EXCEPT ![m.prompt] = [status |-> "running", lock |-> clock + LockTTL,
                                         attempts |-> @.attempts + 1]]
    /\ runs' = runs \cup {[phase |-> "agent", msg |-> m, started |-> clock,
                           attempt |-> row[m.prompt].attempts + 1,
                           budget |-> TimeoutBudget, delay |-> 0]}
    /\ UNCHANGED <<clock, replies, loose, jobs, recovery, faults>>

\* InteractionAlreadyRunningError: retried, or left to the recovery.
RetryLater(m) ==
    /\ Deliverable(m)
    /\ replies[m.prompt] = 0 /\ ~Terminal(m.prompt) /\ Busy(m.prompt)
    /\ LET taken == [queue EXCEPT ![m] = @ - 1]
       IN queue' = IF m.retries < MaxBusyRetries
                   THEN [taken EXCEPT ![Again(m, BusyDelay)] = @ + 1] ELSE taken
    /\ UNCHANGED <<clock, row, replies, loose, jobs, runs, recovery, faults>>

Ignore(m) ==
    /\ Deliverable(m)
    /\ replies[m.prompt] # 0 \/ Terminal(m.prompt)
    /\ queue' = [queue EXCEPT ![m] = @ - 1]
    /\ UNCHANGED <<clock, row, replies, loose, jobs, runs, recovery, faults>>

----------------------------------------------------------------------------
(* run_goplan_ai_interaction and run_goplan_ai_agent *)

Goto(r, phase) == runs' = (runs \ {r}) \cup {[r EXCEPT !.phase = phase]}

\* The tools of one answer persist their drafts in a transaction of their own.
\* An answer without action tools persists none.
RunAgent(r) ==
    /\ r.phase = "agent"
    /\ Goto(r, "answer")
    /\ loose' \in {loose, loose \cup {r.msg.prompt}}
    /\ UNCHANGED <<clock, row, replies, jobs, queue, recovery, faults>>

\* The provider or a tool fails; the drafts are rolled back.
AgentFails(r) ==
    /\ r.phase = "agent"
    /\ \E b \in Budgets, d \in RetryDelays :
          runs' = (runs \ {r}) \cup {[r EXCEPT !.phase = "error", !.budget = b, !.delay = d]}
    /\ UNCHANGED <<clock, row, replies, loose, jobs, queue, recovery, faults>>

\* SoftTimeLimitExceeded may arrive anywhere, also after the reply is posted.
SoftTimeout(r) ==
    /\ r.phase \in {"agent", "answer", "posted"}
    /\ \E d \in RetryDelays :
          runs' = (runs \ {r}) \cup {[r EXCEPT !.phase = "error", !.budget = TimeoutBudget,
                                               !.delay = d]}
    /\ UNCHANGED <<clock, row, replies, loose, jobs, queue, recovery, faults>>

\* Any other exception ends in finish_interaction_failure(TASK_ERROR).
TaskRaises(r) ==
    /\ r.phase \in {"agent", "answer", "posted"}
    /\ Goto(r, "crashed")
    /\ UNCHANGED <<clock, row, replies, loose, jobs, queue, recovery, faults>>

\* What both finish functions do in their transaction, unless a reply exists.
Post(i, status, attach) ==
    IF replies[i] # 0
    THEN UNCHANGED <<row, replies, loose>>
    ELSE /\ replies' = [replies EXCEPT ![i] = @ + 1]
         /\ row' = [row EXCEPT ![i].status = status, ![i].lock = clock]
         /\ loose' = IF attach THEN loose \ {i} ELSE loose

\* Mutant: the response message is not looked at again under the lock.
FinishSuccessUnchecked(r) ==
    /\ r.phase = "answer"
    /\ replies' = [replies EXCEPT ![r.msg.prompt] = @ + 1]
    /\ row' = [row EXCEPT ![r.msg.prompt].status = "succeeded",
                          ![r.msg.prompt].lock = clock]
    /\ loose' = loose \ {r.msg.prompt}
    /\ Goto(r, "posted")
    /\ UNCHANGED <<clock, jobs, queue, recovery, faults>>

FinishSuccess(r) ==
    /\ r.phase = "answer"
    /\ Post(r.msg.prompt, "succeeded", TRUE)
    /\ Goto(r, "posted")
    /\ UNCHANGED <<clock, jobs, queue, recovery, faults>>

Return(r) ==
    /\ r.phase = "posted"
    /\ runs' = runs \ {r}
    /\ UNCHANGED <<clock, row, replies, loose, jobs, queue, recovery, faults>>

\* _handle_failure, out of retries, and the handler of other exceptions.
FinishFailure(r) ==
    /\ r.phase = "crashed" \/ (r.phase = "error" /\ r.msg.retries >= r.budget)
    /\ Post(r.msg.prompt, "failed", FALSE)
    /\ runs' = runs \ {r}
    /\ UNCHANGED <<clock, jobs, queue, recovery, faults>>

\* release_interaction_for_retry: whoever holds the lease by now.
Release(r) ==
    /\ r.phase = "error" /\ r.msg.retries < r.budget
    /\ row' = IF replies[r.msg.prompt] # 0 \/ Terminal(r.msg.prompt) THEN row
              ELSE [row EXCEPT ![r.msg.prompt].status = "pending",
                               ![r.msg.prompt].lock = clock + r.delay]
    /\ Goto(r, "retry")
    /\ UNCHANGED <<clock, replies, loose, jobs, queue, recovery, faults>>

\* task.retry: a new message, due after the countdown.
Retry(r) ==
    /\ r.phase = "retry"
    /\ queue' = [queue EXCEPT ![Again(r.msg, r.delay)] = @ + 1]
    /\ runs' = runs \ {r}
    /\ UNCHANGED <<clock, row, replies, loose, jobs, recovery, faults>>

\* The worker process is lost and its message comes back, or the task is
\* killed at its hard limit and its message is acknowledged.
RunDies(r) ==
    /\ Fault
    /\ runs' = runs \ {r}
    /\ queue' \in {queue, [queue EXCEPT ![r.msg] = @ + 1]}
    /\ UNCHANGED <<clock, row, replies, loose, jobs, recovery>>

----------------------------------------------------------------------------
(* recover_stale_ai_interactions: one at a time, every transaction a step. *)
(* Each decision is taken at the instant of the scan, recovery.now.        *)

Stale(i, now) == row[i].status \in {"pending", "running"} /\ row[i].lock <= now

RecoveryPublishing == \E j \in jobs : j.by = "recovery"

RecoverScan ==
    /\ recovery.todo = {} /\ recovery.giveUp = {} /\ ~RecoveryPublishing
    /\ \E i \in Prompts : Stale(i, clock)
    /\ recovery' = [now |-> clock, todo |-> {i \in Prompts : Stale(i, clock)},
                    giveUp |-> {}]
    /\ UNCHANGED <<clock, row, replies, loose, jobs, queue, runs, faults>>

Candidate(i) == i \in recovery.todo /\ recovery.giveUp = {} /\ ~RecoveryPublishing

Done(i) == IF recovery.todo \ {i} = {} THEN Idle
           ELSE [recovery EXCEPT !.todo = @ \ {i}, !.giveUp = {}]

Recoverable(i) ==
    /\ replies[i] = 0
    /\ Stale(i, recovery.now)
    /\ ~OtherActive(i, recovery.now)

RecoverSkip(i) ==
    /\ Candidate(i) /\ ~Recoverable(i)
    /\ recovery' = Done(i)
    /\ UNCHANGED <<clock, row, replies, loose, jobs, queue, runs, faults>>

RecoverRequeue(i) ==
    /\ Candidate(i) /\ Recoverable(i) /\ row[i].attempts < MaxAttempts
    /\ row' = [row EXCEPT ![i].status = "pending", ![i].lock = recovery.now + LockTTL]
    /\ jobs' = jobs \cup {[by |-> "recovery", prompt |-> i]}
    /\ recovery' = Done(i)
    /\ UNCHANGED <<clock, replies, loose, queue, runs, faults>>

\* Mutant: an interaction out of attempts is left to the next recovery.
GiveUpNever(i) ==
    /\ Candidate(i) /\ Recoverable(i) /\ row[i].attempts >= MaxAttempts
    /\ recovery' = Done(i)
    /\ UNCHANGED <<clock, row, replies, loose, jobs, queue, runs, faults>>

\* should_fail: the transaction ends, and with it the locks, ...
RecoverGiveUp(i) ==
    /\ Candidate(i) /\ Recoverable(i) /\ row[i].attempts >= MaxAttempts
    /\ recovery' = [recovery EXCEPT !.todo = @ \ {i}, !.giveUp = {i}]
    /\ UNCHANGED <<clock, row, replies, loose, jobs, queue, runs, faults>>

\* ... before finish_interaction_failure takes them again.
RecoverFail(i) ==
    /\ i \in recovery.giveUp
    /\ Post(i, "failed", FALSE)
    /\ recovery' = Done(i)
    /\ UNCHANGED <<clock, jobs, queue, runs, faults>>

RecoverDies ==
    /\ Fault
    /\ recovery # Idle \/ RecoveryPublishing
    /\ recovery' = Idle
    /\ jobs' = {j \in jobs : j.by # "recovery"}
    /\ UNCHANGED <<clock, row, replies, loose, queue, runs>>

\* No task is in progress HardLimit ticks after it has begun.
Tick ==
    /\ clock < MaxTime
    /\ \A r \in runs : clock + 1 < r.started + HardLimit
    /\ clock' = clock + 1
    /\ UNCHANGED <<row, replies, loose, jobs, queue, runs, recovery, faults>>

----------------------------------------------------------------------------
Deliver(m) == Claim(m) \/ RetryLater(m) \/ Ignore(m)

Work(r) ==
    \/ RunAgent(r) \/ AgentFails(r) \/ SoftTimeout(r) \/ TaskRaises(r)
    \/ FinishSuccess(r) \/ Return(r) \/ FinishFailure(r)
    \/ Release(r) \/ Retry(r)

Recover ==
    \/ RecoverScan
    \/ \E i \in Prompts : \/ RecoverSkip(i) \/ RecoverRequeue(i)
                          \/ RecoverGiveUp(i) \/ RecoverFail(i)

Next ==
    \/ \E i \in Prompts : Ask(i)
    \/ \E j \in jobs : Publish(j) \/ PublishFails(j)
    \/ \E m \in DOMAIN queue : Deliver(m)
    \/ \E r \in runs : Work(r) \/ RunDies(r)
    \/ Recover
    \/ RecoverDies
    \/ Tick

Spec == Init /\ [][Next]_vars

\* The broker delivers, workers run, hooks fire, the scheduler service runs the
\* recovery command once a minute (podman-compose.yml), and time passes.
FairSpec ==
    /\ Spec
    /\ WF_vars(\E j \in jobs : Publish(j) \/ PublishFails(j))
    /\ WF_vars(\E m \in DOMAIN queue : Deliver(m))
    /\ WF_vars(\E r \in runs : Work(r))
    /\ WF_vars(Recover)
    /\ WF_vars(Tick)

----------------------------------------------------------------------------
(* Properties *)

\* A prompt gets one AI message in the chat, and its row is terminal exactly
\* when it has it, however many tasks, retries and recoveries race for it
\* (the response_message test under the lock in both finish functions).
OneAnswer ==
    \A i \in Prompts : replies[i] <= 1 /\ (Terminal(i) <=> replies[i] = 1)

\* Once answered, a row is never released, requeued or failed again.
AnsweredIsFinal ==
    [][\A i \in Prompts : Terminal(i) => row'[i] = row[i] /\ replies'[i] = replies[i]]_vars

\* With the hard limit within the lease, no two prompts of a trip hold it at
\* once: what AI_BUSY promises the members of the trip.
OneActivePrompt ==
    HardLimit <= LockTTL =>
        \A i \in Prompts : Active(i, clock) => ~OtherActive(i, clock)

Working(r) == r.phase \in {"agent", "answer"}

\* With the hard limit within the lease, no prompt is worked on by two tasks,
\* so that no two answers mix their drafts.
OneWorker ==
    HardLimit <= LockTTL =>
        \A r, s \in runs :
            Working(r) /\ Working(s) /\ r.msg.prompt = s.msg.prompt => r = s

\* With the hard limit within the lease, an answer carries every draft that
\* its tasks persisted, those of the attempts that were cut off included.
DraftsAttached ==
    HardLimit <= LockTTL =>
        \A i \in Prompts : row[i].status = "succeeded" => i \notin loose

\* Once faults stop, every prompt is answered, with a text or with an error,
\* as long as the recovery command is run again and again.
EveryPromptAnswered ==
    \A i \in Prompts : row[i].status = "pending" ~> Terminal(i)

\* The help of recover_ai_interactions: what it recovers "expired".
RecoveryFailsExpiredOnly ==
    [][\A i \in recovery.giveUp : row[i].status # "failed" /\ row'[i].status = "failed"
           /\ recovery'.giveUp = {} => row[i].lock <= clock]_vars
----------------------------------------------------------------------------
(* Inductive invariants, for the proofs *)

RetryInv == \A r \in runs : r.phase = "retry" => r.msg.retries < r.budget

Holding(r) == r.phase \in {"agent", "answer", "posted", "error", "crashed"}

\* Until it has released its row, a task has the lease of its prompt, unless
\* the prompt was answered: by itself, or by a recovery that gave it up.
LeaseOf(r) ==
    LET cur == row[r.msg.prompt] IN
    \/ cur.status = "running" /\ cur.lock = r.started + LockTTL
    \/ cur.status = "failed"
    \/ cur.status = "succeeded" /\ ~Working(r)

LeaseInv ==
    HardLimit <= LockTTL =>
        /\ recovery.now <= clock
        /\ \A r \in runs : clock < r.started + HardLimit /\ (Holding(r) => LeaseOf(r))
        /\ \A r, s \in runs :
              Holding(r) /\ Holding(s) /\ r.msg.prompt = s.msg.prompt => r = s
=============================================================================
