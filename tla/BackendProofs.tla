--------------------------- MODULE BackendProofs ---------------------------
(***************************************************************************)
(* Proofs about four parts of the backend that share no state.             *)
(* AIInteraction, for every set of prompts, every retry policy and every   *)
(* choice of lease, hard limit and bounds: at most one answer to a prompt, *)
(* and within the lease one prompt and one task at a time.  ActionDraft,   *)
(* for any number of edits, moves of the trip and events on their way:     *)
(* what GoPlanAI drafted is executed once and as its user reviewed it, and *)
(* the card never confirms again while it does not know how its last       *)
(* confirmation ended.  Friends, for any users, servers, requests and      *)
(* limit: the limit is kept, no request is left pending between friends,   *)
(* and nobody waits in a circle.                                           *)
(* RealtimeGateway, for any number of messages, removals and admissions    *)
(* and any capacity of the channel: nothing posted after a removal reaches *)
(* the removed user, and the connection leaves the group.                  *)
(***************************************************************************)
EXTENDS AIInteraction, ActionDraft, Friends, RealtimeGateway, FiniteSetTheorems, SequenceTheorems,
        TLAPS

(***************************************************************************)
(* Prompts of the AI assistant.                                            *)
(***************************************************************************)

(* Type correctness *)

TypeInv == TypeOK /\ RetryInv

LEMMA TypeInit == Init => TypeInv
    BY ConstantsAssumption DEF Init, TypeInv, TypeOK, RetryInv, Rows, Statuses, Time, Idle

\* What Post, Claim and the other actions write into a row is a row.
LEMMA RowType ==
    ASSUME NEW x \in Rows, NEW t \in 0 .. MaxTime + LockTTL, NEW s \in Statuses
    PROVE  /\ [x EXCEPT !.status = s, !.lock = t] \in Rows
           /\ [x EXCEPT !.status = s] \in Rows
           /\ [x EXCEPT !.lock = t] \in Rows
           /\ [status |-> s, lock |-> t, attempts |-> 0] \in Rows
           /\ [status |-> s, lock |-> t, attempts |-> x.attempts + 1] \in Rows
<1> DEFINE Times == 0 .. MaxTime + LockTTL
<1>1. t \in Times /\ x \in [status : Statuses, lock : Times, attempts : Nat]
    BY DEF Rows
<1> HIDE DEF Times
<1>2. /\ [x EXCEPT !.status = s, !.lock = t] \in [status : Statuses, lock : Times, attempts : Nat]
      /\ [x EXCEPT !.status = s] \in [status : Statuses, lock : Times, attempts : Nat]
      /\ [x EXCEPT !.lock = t] \in [status : Statuses, lock : Times, attempts : Nat]
    BY <1>1
<1>3. 0 \in Nat /\ x.attempts + 1 \in Nat
    BY <1>1
<1>4. /\ [status |-> s, lock |-> t, attempts |-> 0] \in
             [status : Statuses, lock : Times, attempts : Nat]
      /\ [status |-> s, lock |-> t, attempts |-> x.attempts + 1] \in
             [status : Statuses, lock : Times, attempts : Nat]
    BY <1>1, <1>3
<1> QED BY <1>2, <1>4 DEF Rows, Times

LEMMA TimeType ==
    ASSUME TypeOK
    PROVE  /\ clock \in 0 .. MaxTime + LockTTL /\ clock \in Nat
           /\ clock + LockTTL \in 0 .. MaxTime + LockTTL
           /\ recovery.now + LockTTL \in 0 .. MaxTime + LockTTL
           /\ \A d \in RetryDelays \cup {0} : clock + d \in 0 .. MaxTime + LockTTL
<1> USE ConstantsAssumption
<1>1. clock \in 0 .. MaxTime /\ recovery.now \in 0 .. MaxTime
    BY DEF TypeOK, Time
<1>2. \A d \in RetryDelays \cup {0} : d \in 0 .. LockTTL
    OBVIOUS
<1> QED BY <1>1, <1>2

LEMMA AgainType ==
    ASSUME TypeOK, NEW m \in Messages, m.retries < MaxBusyRetries
    PROVE  /\ Again(m, BusyDelay) \in Messages
           /\ \A d \in RetryDelays \cup {0} : Again(m, d) \in Messages
<1> USE ConstantsAssumption
<1>1. m.retries + 1 \in 0 .. MaxBusyRetries
    BY DEF Messages
<1>2. clock + BusyDelay \in 0 .. MaxTime + LockTTL + BusyDelay
    BY DEF TypeOK, Time
<1>3. ASSUME NEW d \in RetryDelays \cup {0}
      PROVE clock + d \in 0 .. MaxTime + LockTTL + BusyDelay
    BY TimeType
<1> QED BY <1>1, <1>2, <1>3 DEF Again, Messages

LEMMA PostType ==
    ASSUME TypeOK, NEW i \in Prompts, NEW s \in Statuses, NEW attach \in BOOLEAN,
           Post(i, s, attach)
    PROVE  /\ row' \in [Prompts -> Rows]
           /\ replies' \in [Prompts -> Nat]
           /\ loose' \subseteq Prompts
<1>1. CASE replies[i] # 0
    BY <1>1 DEF Post, TypeOK
<1>2. CASE replies[i] = 0
    <2>1. row' = [row EXCEPT ![i] = [@ EXCEPT !.status = s, !.lock = clock]]
        BY <1>2 DEF Post
    <2>2. row' \in [Prompts -> Rows]
        BY <2>1, RowType, TimeType DEF TypeOK
    <2> QED BY <1>2, <2>2 DEF Post, TypeOK
<1> QED BY <1>1, <1>2

LEMMA TypeDeliver ==
    ASSUME TypeInv, NEW m \in DOMAIN queue, Deliver(m) PROVE TypeInv'
<1> USE ConstantsAssumption
<1>0. m \in Messages /\ m.prompt \in Prompts /\ queue[m] \in Nat /\ queue[m] > 0
    BY DEF TypeInv, TypeOK, Deliver, Claim, RetryLater, Ignore, Deliverable, Messages
<1>1. [queue EXCEPT ![m] = @ - 1] \in [Messages -> Nat]
    BY <1>0 DEF TypeInv, TypeOK
<1>2. CASE Claim(m)
    <2> DEFINE new == [phase |-> "agent", msg |-> m, started |-> clock,
                       attempt |-> row[m.prompt].attempts + 1,
                       budget |-> TimeoutBudget, delay |-> 0]
    <2>1. new \in Runs
        BY <1>0 DEF TypeInv, TypeOK, Runs, Phases, Rows
    <2>2. runs' = runs \cup {new}
        BY <1>2 DEF Claim
    <2>3. row' \in [Prompts -> Rows]
        <3>1. row' = [row EXCEPT ![m.prompt] =
                          [status |-> "running", lock |-> clock + LockTTL,
                           attempts |-> row[m.prompt].attempts + 1]]
            BY <1>2, <1>0 DEF Claim, TypeInv, TypeOK
        <3> QED BY <3>1, <1>0, RowType, TimeType DEF TypeInv, TypeOK, Statuses
    <2>4. TypeOK'
        BY <1>1, <1>2, <2>1, <2>2, <2>3 DEF Claim, TypeInv, TypeOK
    <2>5. RetryInv'
        BY <2>2 DEF TypeInv, RetryInv
    <2> QED BY <2>4, <2>5 DEF TypeInv
<1>3. CASE RetryLater(m)
    <2>1. queue' \in [Messages -> Nat]
        <3> DEFINE taken == [queue EXCEPT ![m] = @ - 1]
        <3>1. CASE m.retries < MaxBusyRetries
            <4>1. queue' = [taken EXCEPT ![Again(m, BusyDelay)] = @ + 1]
                BY <1>3, <3>1 DEF RetryLater
            <4>2. Again(m, BusyDelay) \in Messages
                BY <1>0, <3>1, AgainType DEF TypeInv
            <4>3. taken \in [Messages -> Nat]
                BY <1>1
            <4> HIDE DEF taken
            <4> QED BY <4>1, <4>2, <4>3
        <3>2. CASE ~(m.retries < MaxBusyRetries)
            BY <1>1, <1>3, <3>2 DEF RetryLater
        <3> QED BY <3>1, <3>2
    <2> QED BY <1>3, <2>1 DEF RetryLater, TypeInv, TypeOK, RetryInv
<1>4. CASE Ignore(m)
    BY <1>1, <1>4 DEF Ignore, TypeInv, TypeOK, RetryInv
<1> QED BY <1>2, <1>3, <1>4 DEF Deliver

LEMMA TypeWork ==
    ASSUME TypeInv, NEW r \in runs, Work(r) \/ RunDies(r) PROVE TypeInv'
<1> USE ConstantsAssumption
<1>0. /\ r \in Runs
      /\ r.msg \in Messages /\ r.msg.prompt \in Prompts
      /\ r.delay \in RetryDelays \cup {0} /\ r.budget \in Budgets
      /\ \A p \in Phases : [r EXCEPT !.phase = p] \in Runs
    BY DEF TypeInv, TypeOK, Runs, Messages
<1>1. \A p \in Phases : runs' = (runs \ {r}) \cup {[r EXCEPT !.phase = p]}
                        /\ (p = "retry" => r.msg.retries < r.budget)
                        => runs' \subseteq Runs /\ RetryInv'
    BY <1>0 DEF TypeInv, TypeOK, RetryInv, Runs
<1>2. runs' = runs \ {r} => runs' \subseteq Runs /\ RetryInv'
    BY DEF TypeInv, TypeOK, RetryInv
<1>3. CASE RunAgent(r)
    BY <1>0, <1>1, <1>3 DEF RunAgent, Goto, TypeInv, TypeOK, Phases
<1>4. ASSUME NEW b \in Budgets, NEW d \in RetryDelays,
             runs' = (runs \ {r}) \cup
                     {[r EXCEPT !.phase = "error", !.budget = b, !.delay = d]}
      PROVE runs' \subseteq Runs /\ RetryInv'
    BY <1>0, <1>4 DEF TypeInv, TypeOK, RetryInv, Runs, Phases
<1>5. CASE AgentFails(r)
    BY <1>4, <1>5 DEF AgentFails, TypeInv, TypeOK
<1>6. CASE SoftTimeout(r)
    BY <1>4, <1>6 DEF SoftTimeout, TypeInv, TypeOK
<1>7. CASE TaskRaises(r)
    BY <1>1, <1>7 DEF TaskRaises, Goto, Phases, TypeInv, TypeOK
<1>8. CASE FinishSuccess(r)
    <2>1. /\ row' \in [Prompts -> Rows]
          /\ replies' \in [Prompts -> Nat]
          /\ loose' \subseteq Prompts
        BY <1>0, <1>8, PostType DEF FinishSuccess, TypeInv, Statuses
    <2> QED BY <1>1, <1>8, <2>1 DEF FinishSuccess, Goto, Phases, TypeInv, TypeOK
<1>9. CASE FinishFailure(r)
    <2>1. /\ row' \in [Prompts -> Rows]
          /\ replies' \in [Prompts -> Nat]
          /\ loose' \subseteq Prompts
        BY <1>0, <1>9, PostType DEF FinishFailure, TypeInv, Statuses
    <2> QED BY <1>2, <1>9, <2>1 DEF FinishFailure, TypeInv, TypeOK
<1>10. CASE Return(r)
    BY <1>2, <1>10 DEF Return, TypeInv, TypeOK
<1>11. CASE Release(r)
    <2>1. [row EXCEPT ![r.msg.prompt] = [@ EXCEPT !.status = "pending",
                                                  !.lock = clock + r.delay]]
          \in [Prompts -> Rows]
        BY <1>0, RowType, TimeType DEF TypeInv, TypeOK, Statuses
    <2>2. row' \in [Prompts -> Rows]
        BY <1>11, <2>1 DEF Release, TypeInv, TypeOK
    <2> QED BY <1>1, <1>11, <2>2 DEF Release, Goto, Phases, TypeInv, TypeOK
<1>12. CASE Retry(r)
    <2>1. r.msg.retries < MaxBusyRetries
        BY <1>0, <1>12 DEF Retry, TypeInv, RetryInv, Messages
    <2>2. Again(r.msg, r.delay) \in Messages
        BY <1>0, <2>1, AgainType DEF TypeInv
    <2>3. queue' \in [Messages -> Nat]
        BY <1>12, <2>2 DEF Retry, TypeInv, TypeOK
    <2> QED BY <1>2, <1>12, <2>3 DEF Retry, TypeInv, TypeOK
<1>13. CASE RunDies(r)
    BY <1>0, <1>2, <1>13 DEF RunDies, Fault, TypeInv, TypeOK
<1> QED BY <1>3, <1>5, <1>6, <1>7, <1>8, <1>9, <1>10, <1>11, <1>12, <1>13 DEF Work

LEMMA TypeRecover ==
    ASSUME TypeInv, Recover \/ RecoverDies PROVE TypeInv'
<1> USE ConstantsAssumption
<1> DEFINE Recoveries == [now : Time, todo : SUBSET Prompts, giveUp : SUBSET Prompts]
<1>0. recovery \in Recoveries /\ Idle \in Recoveries /\ \A i \in Prompts : Done(i) \in Recoveries
    <2>1. recovery \in Recoveries /\ 0 \in Time
        BY DEF TypeInv, TypeOK, Time
    <2>2. Idle \in Recoveries
        BY <2>1 DEF Idle
    <2>3. ASSUME NEW S \in SUBSET Prompts
          PROVE [recovery EXCEPT !.todo = S, !.giveUp = {}] \in Recoveries
        <3>1. {} \in SUBSET Prompts
            OBVIOUS
        <3> HIDE DEF Recoveries
        <3> QED BY <2>1, <3>1 DEF Recoveries
    <2>4. \A i \in Prompts : recovery.todo \ {i} \in SUBSET Prompts
        BY <2>1
    <2> HIDE DEF Recoveries
    <2> QED BY <2>1, <2>2, <2>3, <2>4 DEF Done
<1>1. CASE RecoverScan
    BY <1>1 DEF RecoverScan, TypeInv, TypeOK, RetryInv
<1>2. ASSUME NEW i \in Prompts, RecoverSkip(i) PROVE TypeInv'
    BY <1>0, <1>2 DEF RecoverSkip, TypeInv, TypeOK, RetryInv
<1>3. ASSUME NEW i \in Prompts, RecoverRequeue(i) PROVE TypeInv'
    <2>1. row' = [row EXCEPT ![i] = [@ EXCEPT !.status = "pending",
                                              !.lock = recovery.now + LockTTL]]
        BY <1>3 DEF RecoverRequeue
    <2>2. row' \in [Prompts -> Rows]
        BY <2>1, RowType, TimeType DEF TypeInv, TypeOK, Statuses
    <2> QED BY <1>0, <1>3, <2>2 DEF RecoverRequeue, TypeInv, TypeOK, RetryInv
<1>4. ASSUME NEW i \in Prompts, RecoverGiveUp(i) PROVE TypeInv'
    BY <1>0, <1>4 DEF RecoverGiveUp, TypeInv, TypeOK, RetryInv
<1>5. ASSUME NEW i \in Prompts, RecoverFail(i) PROVE TypeInv'
    <2>1. /\ row' \in [Prompts -> Rows]
          /\ replies' \in [Prompts -> Nat]
          /\ loose' \subseteq Prompts
        BY <1>5, PostType DEF RecoverFail, TypeInv, Statuses
    <2> QED BY <1>0, <1>5, <2>1 DEF RecoverFail, TypeInv, TypeOK, RetryInv
<1>6. CASE RecoverDies
    BY <1>0, <1>6 DEF RecoverDies, Fault, TypeInv, TypeOK, RetryInv
<1> QED BY <1>1, <1>2, <1>3, <1>4, <1>5, <1>6 DEF Recover

LEMMA TypeStep == TypeInv /\ [Next]_vars => TypeInv'
<1> SUFFICES ASSUME TypeInv, [Next]_vars PROVE TypeInv'
    OBVIOUS
<1> USE ConstantsAssumption
<1>1. ASSUME NEW i \in Prompts, Ask(i) PROVE TypeInv'
    <2>1. row' \in [Prompts -> Rows]
        <3>1. row' = [row EXCEPT ![i] = [status |-> "pending", lock |-> clock + LockTTL,
                                         attempts |-> 0]]
            BY <1>1 DEF Ask
        <3> QED BY <3>1, RowType, TimeType DEF TypeInv, TypeOK, Statuses
    <2> QED BY <1>1, <2>1 DEF Ask, TypeInv, TypeOK, RetryInv
<1>2. ASSUME NEW j \in jobs, Publish(j) PROVE TypeInv'
    <2>1. Fresh(j.prompt) \in Messages
        BY DEF TypeInv, TypeOK, Fresh, Messages
    <2> QED BY <1>2, <2>1 DEF Publish, TypeInv, TypeOK, RetryInv
<1>3. ASSUME NEW j \in jobs, PublishFails(j) PROVE TypeInv'
    BY <1>3 DEF PublishFails, Fault, TypeInv, TypeOK, RetryInv
<1>4. CASE Tick
    BY <1>4 DEF Tick, TypeInv, TypeOK, RetryInv, Time
<1>5. CASE UNCHANGED vars
    BY <1>5 DEF vars, TypeInv, TypeOK, RetryInv
<1> QED BY <1>1, <1>2, <1>3, <1>4, <1>5, TypeDeliver, TypeWork, TypeRecover DEF Next

\* The state keeps its type; in particular no retry is counted past the limit
\* and no message is consumed twice.
THEOREM TypeCorrect == Spec => []TypeOK
<1>1. TypeInv => TypeOK
    BY DEF TypeInv
<1> QED BY <1>1, TypeInit, TypeStep, PTL DEF Spec

LEMMA TypeAlways == Spec => []TypeInv
    BY TypeInit, TypeStep, PTL DEF Spec
----------------------------------------------------------------------------
(* One answer per prompt *)

\* How a step may write the row and the replies of a prompt.
Untouched(i) == row'[i] = row[i] /\ replies'[i] = replies[i]
Leased(i) ==
    /\ ~Terminal(i) /\ replies'[i] = replies[i]
    /\ row'[i].status \in {"pending", "running"}
Answered(i) ==
    /\ ~Terminal(i) /\ replies[i] = 0 /\ replies'[i] = 1
    /\ row'[i].status \in {"succeeded", "failed"}

RowWrites == \A i \in Prompts : Untouched(i) \/ Leased(i) \/ Answered(i)

LEMMA PostWrites ==
    ASSUME TypeOK, OneAnswer, NEW i \in Prompts, NEW s \in {"succeeded", "failed"},
           NEW attach \in BOOLEAN, Post(i, s, attach)
    PROVE  /\ RowWrites
           /\ \A k \in Prompts \ {i} : row'[k] = row[k]
           /\ Terminal(i) => row' = row /\ loose' = loose
           /\ ~Terminal(i) => row'[i].status = s /\ row'[i].lock = clock
           /\ \/ loose' = loose
              \/ attach /\ loose' = loose \ {i}
           /\ attach /\ ~Terminal(i) => loose' = loose \ {i}
<1>1. row \in [Prompts -> Rows] /\ replies \in [Prompts -> Nat]
    BY DEF TypeOK
<1>2. CASE replies[i] # 0
    BY <1>1, <1>2 DEF Post, RowWrites, Untouched, OneAnswer
<1>3. CASE replies[i] = 0
    <2>1. /\ row' = [row EXCEPT ![i] = [@ EXCEPT !.status = s, !.lock = clock]]
          /\ replies' = [replies EXCEPT ![i] = @ + 1]
          /\ loose' = IF attach THEN loose \ {i} ELSE loose
        BY <1>3 DEF Post
    <2>2. ~Terminal(i)
        BY <1>3 DEF OneAnswer
    <2>3. row'[i].status = s /\ row'[i].lock = clock /\ replies'[i] = 1
        <3>1. row'[i] = [row[i] EXCEPT !.status = s, !.lock = clock] /\ row[i] \in Rows
            BY <1>1, <2>1
        <3>2. replies'[i] = 1
            BY <1>1, <1>3, <2>1
        <3> QED BY <3>1, <3>2 DEF Rows
    <2>4. \A k \in Prompts \ {i} : row'[k] = row[k] /\ replies'[k] = replies[k]
        BY <1>1, <2>1
    <2>5. RowWrites
        BY <1>3, <2>2, <2>3, <2>4 DEF RowWrites, Untouched, Answered
    <2> QED BY <2>1, <2>2, <2>3, <2>4, <2>5
<1> QED BY <1>2, <1>3

LEMMA StepWrites == TypeInv /\ OneAnswer /\ [Next]_vars => RowWrites
<1> SUFFICES ASSUME TypeInv, OneAnswer, [Next]_vars PROVE RowWrites
    OBVIOUS
<1>0. row \in [Prompts -> Rows] /\ TypeOK
    BY DEF TypeInv, TypeOK
<1>1. row' = row /\ replies' = replies => RowWrites
    BY DEF RowWrites, Untouched
<1>2. ASSUME NEW i \in Prompts, Ask(i) PROVE RowWrites
    BY <1>0, <1>2 DEF Ask, RowWrites, Untouched, Leased, Terminal
<1>3. ASSUME NEW m \in DOMAIN queue, Deliver(m) PROVE RowWrites
    <2>0. m \in Messages
        BY DEF TypeInv, TypeOK
    <2>1. m.prompt \in Prompts
        BY <2>0 DEF Messages
    <2>2. CASE Claim(m)
        <3>1. /\ \A i \in Prompts \ {m.prompt} : row'[i] = row[i]
              /\ row'[m.prompt].status = "running"
              /\ ~Terminal(m.prompt) /\ replies' = replies
            BY <1>0, <2>1, <2>2 DEF Claim
        <3> QED BY <3>1 DEF RowWrites, Untouched, Leased
    <2> QED BY <1>1, <1>3, <2>2 DEF Deliver, RetryLater, Ignore
<1>4. ASSUME NEW r \in runs, Work(r) \/ RunDies(r) PROVE RowWrites
    <2>1. r.msg.prompt \in Prompts
        BY DEF TypeInv, TypeOK, Runs, Messages
    <2>2. CASE FinishSuccess(r)
        BY <1>0, <2>1, <2>2, PostWrites DEF FinishSuccess
    <2>3. CASE FinishFailure(r)
        BY <1>0, <2>1, <2>3, PostWrites DEF FinishFailure
    <2>4. CASE Release(r)
        <3>1. CASE row' = row
            BY <1>1, <2>4, <3>1 DEF Release
        <3>2. CASE /\ ~Terminal(r.msg.prompt)
                   /\ row' = [row EXCEPT ![r.msg.prompt] =
                                 [@ EXCEPT !.status = "pending", !.lock = clock + r.delay]]
            BY <1>0, <2>1, <2>4, <3>2 DEF Release, RowWrites, Untouched, Leased, Rows
        <3> QED BY <2>4, <3>1, <3>2 DEF Release
    <2> QED BY <1>1, <1>4, <2>2, <2>3, <2>4
            DEF Work, RunAgent, AgentFails, SoftTimeout, TaskRaises, Return, Retry, RunDies
<1>5. CASE Recover \/ RecoverDies
    <2>1. ASSUME NEW i \in Prompts, RecoverRequeue(i) PROVE RowWrites
        <3>1. row' = [row EXCEPT ![i] = [@ EXCEPT !.status = "pending",
                                                  !.lock = recovery.now + LockTTL]]
              /\ ~Terminal(i) /\ replies' = replies
            BY <2>1 DEF RecoverRequeue, Recoverable, Stale, Terminal
        <3> QED BY <1>0, <3>1 DEF RowWrites, Untouched, Leased, Rows
    <2>2. ASSUME NEW i \in Prompts, RecoverFail(i) PROVE RowWrites
        BY <1>0, <2>2, PostWrites DEF RecoverFail
    <2> QED BY <1>1, <1>5, <2>1, <2>2
            DEF Recover, RecoverScan, RecoverSkip, RecoverGiveUp, RecoverDies
<1>6. CASE Tick
    BY <1>1, <1>6 DEF Tick
<1>7. ASSUME NEW j \in jobs, Publish(j) \/ PublishFails(j) PROVE RowWrites
    BY <1>1, <1>7 DEF Publish, PublishFails
<1>8. CASE UNCHANGED vars
    BY <1>1, <1>8 DEF vars
<1> QED BY <1>2, <1>3, <1>4, <1>5, <1>6, <1>7, <1>8 DEF Next

AnswerInv == TypeInv /\ OneAnswer

LEMMA AnswerInit == Init => AnswerInv
    BY TypeInit DEF Init, AnswerInv, OneAnswer, Terminal

LEMMA AnswerStep == AnswerInv /\ [Next]_vars => AnswerInv'
<1> SUFFICES ASSUME AnswerInv, [Next]_vars PROVE OneAnswer'
    BY TypeStep DEF AnswerInv
<1>1. RowWrites
    BY StepWrites DEF AnswerInv
<1>2. SUFFICES ASSUME NEW i \in Prompts
               PROVE (replies[i] <= 1 /\ (Terminal(i) <=> replies[i] = 1))'
    BY DEF OneAnswer
<1>3. replies[i] \in Nat /\ replies[i] <= 1 /\ (Terminal(i) <=> replies[i] = 1)
    BY DEF AnswerInv, OneAnswer, TypeInv, TypeOK
<1>4. CASE Untouched(i)
    BY <1>3, <1>4 DEF Untouched, Terminal
<1>5. CASE Leased(i)
    BY <1>3, <1>5 DEF Leased, Terminal
<1>6. CASE Answered(i)
    BY <1>3, <1>6 DEF Answered, Terminal
<1> QED BY <1>1, <1>4, <1>5, <1>6 DEF RowWrites

\* Every prompt gets at most one AI message, and its row is SUCCEEDED or FAILED
\* exactly when it has got it.
THEOREM OneAnswerEach == Spec => []OneAnswer
<1>1. AnswerInv => OneAnswer
    BY DEF AnswerInv
<1> QED BY <1>1, AnswerInit, AnswerStep, PTL DEF Spec

\* No late task, retry or recovery touches a prompt that has been answered.
THEOREM AnswersStay == Spec => AnsweredIsFinal
<1>1. AnswerInv /\ [Next]_vars =>
          [\A i \in Prompts : Terminal(i) => row'[i] = row[i] /\ replies'[i] = replies[i]]_vars
    <2> SUFFICES ASSUME AnswerInv, [Next]_vars, NEW i \in Prompts, Terminal(i)
                 PROVE row'[i] = row[i] /\ replies'[i] = replies[i]
        OBVIOUS
    <2> QED BY StepWrites DEF AnswerInv, RowWrites, Untouched, Leased, Answered
<1> QED BY <1>1, AnswerInit, AnswerStep, PTL DEF Spec, AnsweredIsFinal
----------------------------------------------------------------------------
(* The lease: one active prompt, one worker *)

Lease ==
    /\ AnswerInv /\ LeaseInv /\ OneActivePrompt /\ DraftsAttached

LEMMA LeaseInit == Init => Lease
<1> SUFFICES ASSUME Init PROVE Lease
    OBVIOUS
<1>1. AnswerInv
    BY AnswerInit
<1>2. LeaseInv /\ OneActivePrompt /\ DraftsAttached
    BY DEF Init, Idle, LeaseInv, OneActivePrompt, DraftsAttached, Active
<1> QED BY <1>1, <1>2 DEF Lease

LEMMA Times ==
    ASSUME TypeInv
    PROVE  /\ clock \in Int /\ LockTTL \in Int /\ HardLimit \in Int /\ recovery.now \in Int
           /\ \A i \in Prompts : row[i] \in Rows /\ row[i].lock \in Int
           /\ \A r \in runs : r \in Runs /\ r.started \in Int /\ r.msg.prompt \in Prompts
           /\ LockTTL > 0 /\ HardLimit > 0
<1> USE ConstantsAssumption
<1>1. \A r \in runs : r \in Runs /\ r.started \in Int /\ r.msg.prompt \in Prompts
    <2> SUFFICES ASSUME NEW r \in runs
                 PROVE r \in Runs /\ r.started \in Int /\ r.msg.prompt \in Prompts
        OBVIOUS
    <2>1. r \in Runs
        BY DEF TypeInv, TypeOK
    <2>2. r.msg \in Messages /\ r.started \in Int
        BY <2>1 DEF Runs, Time
    <2> QED BY <2>1, <2>2 DEF Messages
<1>2. \A i \in Prompts : row[i] \in Rows /\ row[i].lock \in Int
    BY DEF TypeInv, TypeOK, Rows
<1>3. clock \in Int /\ recovery.now \in Int
    BY DEF TypeInv, TypeOK, Time
<1> QED BY <1>1, <1>2, <1>3

\* A prompt that some task holds and that is not answered has an active lease.
LEMMA HolderActive ==
    ASSUME Lease, HardLimit <= LockTTL, NEW r \in runs, Holding(r), ~Terminal(r.msg.prompt)
    PROVE  /\ row[r.msg.prompt].status = "running"
           /\ row[r.msg.prompt].lock > clock
           /\ Active(r.msg.prompt, clock)
<1>1. row[r.msg.prompt].status = "running" /\ row[r.msg.prompt].lock = r.started + LockTTL
    BY DEF Lease, LeaseInv, LeaseOf, Terminal
<1>2. clock < r.started + HardLimit
    BY DEF Lease, LeaseInv
<1>3. row[r.msg.prompt].lock > clock
    BY <1>1, <1>2, Times DEF Lease, AnswerInv
<1> QED BY <1>1, <1>3 DEF Active

\* If nobody else was active, writing one row keeps the lease exclusive.
LEMMA OneWrite ==
    ASSUME NEW i \in Prompts, clock' = clock, ~OtherActive(i, clock),
           \A k \in Prompts \ {i} : row'[k] = row[k]
    PROVE  OneActivePrompt'
    BY DEF OneActivePrompt, Active, OtherActive

\* Rows that are not written or lose their lease keep it exclusive too.
LEMMA FewerActive ==
    ASSUME OneActivePrompt,
           \A k \in Prompts : Active(k, clock)' => Active(k, clock)
    PROVE  OneActivePrompt'
    BY DEF OneActivePrompt, OtherActive

\* The tasks and the rows they hold are as before, or i is written and held by
\* no task.
LEMMA HoldersKept ==
    ASSUME LeaseInv, runs' = runs, clock' = clock, recovery'.now <= clock,
           NEW i \in Prompts,
           \A r \in runs : Holding(r) => r.msg.prompt # i,
           \A k \in Prompts \ {i} : row'[k] = row[k],
           \A r \in runs : r.msg.prompt \in Prompts
    PROVE  LeaseInv'
    BY DEF LeaseInv, LeaseOf, Working, Holding

\* A task that moves on within its lease, or ends.
LEMMA RunMoves ==
    ASSUME LeaseInv, NEW r \in runs, NEW p \in Runs,
           p.started = r.started, p.msg = r.msg,
           Holding(r), Working(p) => Working(r),
           runs' = (runs \ {r}) \cup {p} \/ runs' = runs \ {r},
           clock' = clock, recovery' = recovery, row' = row
    PROVE  LeaseInv'
    BY DEF LeaseInv, LeaseOf, Working, Holding
LeaseGoal == LeaseInv' /\ OneActivePrompt' /\ DraftsAttached'

LEMMA LeaseDeliver ==
    ASSUME Lease, HardLimit <= LockTTL, NEW m \in DOMAIN queue, Deliver(m)
    PROVE  LeaseGoal
<1>0. TypeInv /\ m \in Messages /\ row \in [Prompts -> Rows]
    BY DEF Lease, AnswerInv, TypeInv, TypeOK
<1>1. m.prompt \in Prompts
    BY <1>0 DEF Messages
<1>2. CASE Claim(m)
    <2> DEFINE i == m.prompt
               new == [phase |-> "agent", msg |-> m, started |-> clock,
                       attempt |-> row[m.prompt].attempts + 1,
                       budget |-> TimeoutBudget, delay |-> 0]
    <2>1. /\ clock' = clock /\ recovery' = recovery /\ loose' = loose
          /\ runs' = runs \cup {new}
          /\ ~Terminal(i) /\ ~Busy(i)
        BY <1>2 DEF Claim
    <2>2. /\ row'[i].status = "running" /\ row'[i].lock = clock + LockTTL
          /\ \A k \in Prompts \ {i} : row'[k] = row[k]
        BY <1>0, <1>1, <1>2 DEF Claim
    <2>3. ~OtherActive(i, clock)
        BY <2>1 DEF Busy
    <2>4. \A r \in runs : Holding(r) => r.msg.prompt # i
        BY <2>1, HolderActive DEF Busy
    <2>5. OneActivePrompt'
        BY <1>1, <2>1, <2>2, <2>3, OneWrite
    <2>6. new.started = clock /\ new.msg.prompt = i /\ new.phase = "agent"
        OBVIOUS
    <2>7. \A r \in runs : r.msg.prompt \in Prompts
        BY <1>0, Times
    <2>8. clock < new.started + HardLimit
        BY <1>0, <2>6, Times
    <2> HIDE DEF new
    <2>9. ASSUME NEW r \in runs', Holding(r) PROVE LeaseOf(r)'
        <3>1. CASE r = new
            BY <2>2, <2>6, <3>1 DEF LeaseOf
        <3>2. CASE r \in runs
            <4>1. LeaseOf(r) /\ r.msg.prompt # i /\ r.msg.prompt \in Prompts
                BY <2>4, <2>7, <2>9, <3>2 DEF Lease, LeaseInv
            <4>2. row'[r.msg.prompt] = row[r.msg.prompt]
                BY <2>2, <4>1
            <4> QED BY <4>1, <4>2 DEF LeaseOf, Working
        <3> QED BY <2>1, <3>1, <3>2
    <2>10. ASSUME NEW r \in runs', NEW s \in runs', Holding(r), Holding(s),
                  r.msg.prompt = s.msg.prompt
           PROVE r = s
        BY <2>1, <2>4, <2>6, <2>10 DEF Lease, LeaseInv
    <2>11. \A r \in runs' : clock' < r.started + HardLimit
        BY <2>1, <2>8 DEF Lease, LeaseInv
    <2>12. recovery'.now <= clock'
        BY <2>1 DEF Lease, LeaseInv
    <2>13. LeaseInv'
        BY <2>9, <2>10, <2>11, <2>12 DEF LeaseInv, Holding
    <2>14. DraftsAttached'
        BY <2>1, <2>2 DEF Lease, DraftsAttached
    <2> QED BY <2>5, <2>13, <2>14 DEF LeaseGoal
<1>3. CASE RetryLater(m) \/ Ignore(m)
    <2>1. row' = row /\ clock' = clock /\ recovery' = recovery /\ runs' = runs /\ loose' = loose
        BY <1>3 DEF RetryLater, Ignore
    <2> QED BY <2>1 DEF LeaseGoal, Lease, LeaseInv, LeaseOf, OneActivePrompt, DraftsAttached,
                        Active, OtherActive
<1> QED BY <1>2, <1>3 DEF Deliver

LEMMA LeaseRelease ==
    ASSUME Lease, HardLimit <= LockTTL, NEW r \in runs, Release(r)
    PROVE  LeaseGoal
<1> DEFINE i == r.msg.prompt
           p == [r EXCEPT !.phase = "retry"]
<1>0. TypeInv /\ row \in [Prompts -> Rows] /\ i \in Prompts /\ r \in Runs
    BY Times DEF Lease, AnswerInv, TypeInv, TypeOK
<1>1. /\ clock' = clock /\ recovery' = recovery /\ loose' = loose
      /\ runs' = (runs \ {r}) \cup {p} /\ Holding(r)
    BY DEF Release, Goto, Holding
<1>2. /\ ~Holding(p) /\ p.started = r.started
    BY <1>0 DEF Runs, Holding
<1> HIDE DEF p
<1>3. CASE row' = row
    <2>1. LeaseInv'
        BY <1>1, <1>2, <1>3 DEF Lease, LeaseInv, LeaseOf, Working, Holding
    <2> QED BY <1>1, <1>3, <2>1
            DEF LeaseGoal, Lease, OneActivePrompt, DraftsAttached, Active, OtherActive
<1>4. CASE row' # row
    <2>1. /\ ~Terminal(i)
          /\ row' = [row EXCEPT ![i] = [@ EXCEPT !.status = "pending",
                                                 !.lock = clock + r.delay]]
        BY <1>4 DEF Release
    <2>2. \A k \in Prompts \ {i} : row'[k] = row[k]
        BY <1>0, <2>1
    <2>3. row'[i].status = "pending"
        BY <1>0, <2>1 DEF Rows
    <2>4. ~OtherActive(i, clock)
        BY <1>0, <1>1, <2>1, HolderActive DEF Lease, OneActivePrompt
    <2>5. OneActivePrompt'
        BY <1>0, <1>1, <2>2, <2>4, OneWrite
    <2>6. \A s \in runs \ {r} : Holding(s) => s.msg.prompt # i
        BY <1>1 DEF Lease, LeaseInv
    <2>7. \A s \in runs : s.msg.prompt \in Prompts
        BY <1>0, Times
    <2>8. ASSUME NEW s \in runs \ {r}, Holding(s) PROVE LeaseOf(s)'
        <3>1. row'[s.msg.prompt] = row[s.msg.prompt]
            BY <2>2, <2>6, <2>7, <2>8
        <3> QED BY <2>8, <3>1 DEF Lease, LeaseInv, LeaseOf, Working
    <2>9. LeaseInv'
        BY <1>1, <1>2, <2>8 DEF Lease, LeaseInv, Holding
    <2>10. DraftsAttached'
        BY <1>1, <2>2, <2>3 DEF Lease, DraftsAttached
    <2> QED BY <2>5, <2>9, <2>10 DEF LeaseGoal
<1> QED BY <1>3, <1>4
\* An answer ends the lease of its prompt and leaves the others alone.
LEMMA PostLease ==
    ASSUME Lease, NEW i \in Prompts, NEW s \in {"succeeded", "failed"},
           NEW attach \in BOOLEAN, Post(i, s, attach), clock' = clock,
           s = "succeeded" => attach
    PROVE  /\ OneActivePrompt' /\ DraftsAttached'
           /\ \A k \in Prompts \ {i} : row'[k] = row[k]
           /\ row'[i] = row[i] \/ row'[i].status = s
<1>0. TypeOK /\ OneAnswer
    BY DEF Lease, AnswerInv, TypeInv
<1>1. /\ \A k \in Prompts \ {i} : row'[k] = row[k]
      /\ Terminal(i) => row' = row /\ loose' = loose
      /\ ~Terminal(i) => row'[i].status = s /\ row'[i].lock = clock
      /\ loose' = loose \/ loose' = loose \ {i}
      /\ attach /\ ~Terminal(i) => loose' = loose \ {i}
    BY <1>0, PostWrites
<1>2. ASSUME NEW k \in Prompts, Active(k, clock)' PROVE Active(k, clock)
    BY <1>1, <1>2 DEF Active
<1>3. OneActivePrompt'
    BY <1>2, FewerActive DEF Lease
<1>4. DraftsAttached'
    BY <1>1 DEF Lease, DraftsAttached
<1> QED BY <1>1, <1>3, <1>4

LEMMA LeaseWork ==
    ASSUME Lease, HardLimit <= LockTTL, NEW r \in runs, Work(r) \/ RunDies(r)
    PROVE  LeaseGoal
<1> DEFINE i == r.msg.prompt
<1>0. /\ TypeInv /\ i \in Prompts /\ r \in Runs
      /\ \A s \in runs : s.msg.prompt \in Prompts
    BY Times DEF Lease, AnswerInv
<1>1. ASSUME row' = row, loose' = loose, clock' = clock
      PROVE OneActivePrompt' /\ DraftsAttached'
    BY <1>1 DEF Lease, OneActivePrompt, DraftsAttached, Active, OtherActive
<1>2. \A q \in Phases : LET p == [r EXCEPT !.phase = q]
                        IN p.started = r.started /\ p.msg = r.msg /\ p.phase = q /\ p \in Runs
    BY <1>0 DEF Runs
<1>3. CASE RunAgent(r)
    <2>1. PICK p \in Runs : /\ p.started = r.started /\ p.msg = r.msg /\ p.phase = "answer"
                            /\ runs' = (runs \ {r}) \cup {p}
        BY <1>2, <1>3 DEF RunAgent, Goto, Phases
    <2>2. /\ row' = row /\ clock' = clock /\ recovery' = recovery
          /\ Holding(r) /\ Working(r) /\ loose' \in {loose, loose \cup {i}}
        BY <1>3 DEF RunAgent, Holding, Working
    <2>3. LeaseInv'
        BY <2>1, <2>2, RunMoves DEF Lease
    <2>4. LeaseOf(r)
        BY <2>2 DEF Lease, LeaseInv
    <2>5. row[i].status # "succeeded"
        BY <2>2, <2>4 DEF LeaseOf
    <2>6. DraftsAttached'
        BY <2>2, <2>5 DEF Lease, DraftsAttached
    <2>7. OneActivePrompt'
        BY <2>2 DEF Lease, OneActivePrompt, Active, OtherActive
    <2> QED BY <2>3, <2>6, <2>7 DEF LeaseGoal
<1>4. CASE AgentFails(r) \/ SoftTimeout(r)
    <2>1. PICK b \in Budgets, d \in RetryDelays :
              runs' = (runs \ {r}) \cup
                      {[r EXCEPT !.phase = "error", !.budget = b, !.delay = d]}
        BY <1>4, ConstantsAssumption DEF AgentFails, SoftTimeout
    <2> DEFINE p == [r EXCEPT !.phase = "error", !.budget = b, !.delay = d]
    <2>2. p.started = r.started /\ p.msg = r.msg /\ p.phase = "error" /\ p \in Runs
        BY <1>0 DEF Runs, Phases
    <2>3. /\ row' = row /\ clock' = clock /\ recovery' = recovery /\ loose' = loose
          /\ Holding(r) /\ runs' = (runs \ {r}) \cup {p}
        BY <1>4, <2>1 DEF AgentFails, SoftTimeout, Holding
    <2> HIDE DEF p
    <2>4. LeaseInv'
        BY <2>2, <2>3, RunMoves DEF Lease, Working
    <2> QED BY <1>1, <2>3, <2>4 DEF LeaseGoal
<1>5. CASE TaskRaises(r)
    <2>1. PICK p \in Runs : /\ p.started = r.started /\ p.msg = r.msg /\ p.phase = "crashed"
                            /\ runs' = (runs \ {r}) \cup {p}
        BY <1>2, <1>5 DEF TaskRaises, Goto, Phases
    <2>2. /\ row' = row /\ clock' = clock /\ recovery' = recovery /\ loose' = loose /\ Holding(r)
        BY <1>5 DEF TaskRaises, Holding
    <2>3. LeaseInv'
        BY <2>1, <2>2, RunMoves DEF Lease, Working
    <2> QED BY <1>1, <2>2, <2>3 DEF LeaseGoal
<1>6. CASE FinishSuccess(r)
    <2>1. PICK p \in Runs : /\ p.started = r.started /\ p.msg = r.msg /\ p.phase = "posted"
                            /\ runs' = (runs \ {r}) \cup {p}
        BY <1>2, <1>6 DEF FinishSuccess, Goto, Phases
    <2>2. /\ clock' = clock /\ recovery' = recovery /\ Holding(r)
          /\ Post(i, "succeeded", TRUE)
        BY <1>6 DEF FinishSuccess, Holding
    <2>3. /\ OneActivePrompt' /\ DraftsAttached'
          /\ \A k \in Prompts \ {i} : row'[k] = row[k]
          /\ row'[i] = row[i] \/ row'[i].status = "succeeded"
        BY <1>0, <2>2, PostLease
    <2>4. \A s \in runs \ {r} : Holding(s) => s.msg.prompt # i
        BY <2>2 DEF Lease, LeaseInv
    <2>5. ASSUME NEW s \in runs \ {r}, Holding(s) PROVE LeaseOf(s)'
        <3>1. row'[s.msg.prompt] = row[s.msg.prompt]
            BY <1>0, <2>3, <2>4, <2>5
        <3> QED BY <2>5, <3>1 DEF Lease, LeaseInv, LeaseOf, Working
    <2>6. LeaseOf(p)'
        <3>1. LeaseOf(r)
            BY <2>2 DEF Lease, LeaseInv
        <3> QED BY <2>1, <2>3, <3>1 DEF LeaseOf, Working
    <2>7. \A s, t \in runs' :
              Holding(s) /\ Holding(t) /\ s.msg.prompt = t.msg.prompt => s = t
        BY <2>1, <2>4 DEF Lease, LeaseInv
    <2>8. \A s \in runs' : clock' < s.started + HardLimit
        BY <2>1, <2>2 DEF Lease, LeaseInv
    <2>9. recovery'.now <= clock'
        BY <2>2 DEF Lease, LeaseInv
    <2>10. \A s \in runs' : Holding(s) => LeaseOf(s)'
        BY <2>1, <2>5, <2>6
    <2>11. LeaseInv'
        BY <2>7, <2>8, <2>9, <2>10 DEF LeaseInv, Holding
    <2> QED BY <2>3, <2>11 DEF LeaseGoal
<1>7. CASE FinishFailure(r)
    <2>1. /\ clock' = clock /\ recovery' = recovery /\ Holding(r)
          /\ Post(i, "failed", FALSE) /\ runs' = runs \ {r}
        BY <1>7 DEF FinishFailure, Holding
    <2>2. /\ OneActivePrompt' /\ DraftsAttached'
          /\ \A k \in Prompts \ {i} : row'[k] = row[k]
        BY <1>0, <2>1, PostLease
    <2>3. \A s \in runs \ {r} : Holding(s) => s.msg.prompt # i
        BY <2>1 DEF Lease, LeaseInv
    <2>4. ASSUME NEW s \in runs \ {r}, Holding(s) PROVE LeaseOf(s)'
        <3>1. row'[s.msg.prompt] = row[s.msg.prompt]
            BY <1>0, <2>2, <2>3, <2>4
        <3> QED BY <2>4, <3>1 DEF Lease, LeaseInv, LeaseOf, Working
    <2>5. LeaseInv'
        BY <2>1, <2>4 DEF Lease, LeaseInv, Holding
    <2> QED BY <2>2, <2>5 DEF LeaseGoal
<1>8. CASE Return(r) \/ Retry(r) \/ RunDies(r)
    <2>1. /\ row' = row /\ clock' = clock /\ recovery' = recovery /\ loose' = loose
          /\ runs' = runs \ {r}
        BY <1>8 DEF Return, Retry, RunDies
    <2>2. LeaseInv'
        BY <2>1 DEF Lease, LeaseInv, LeaseOf, Working, Holding
    <2> QED BY <1>1, <2>1, <2>2 DEF LeaseGoal
<1> QED BY <1>3, <1>4, <1>5, <1>6, <1>7, <1>8, LeaseRelease DEF Work

LEMMA LeaseRecover ==
    ASSUME Lease, HardLimit <= LockTTL, Recover \/ RecoverDies
    PROVE  LeaseGoal
<1>0. /\ TypeInv /\ clock \in Nat /\ recovery.now <= clock
      /\ \A s \in runs : s.msg.prompt \in Prompts
    BY Times, TimeType DEF Lease, AnswerInv, LeaseInv, TypeInv
<1>1. Idle.now <= clock /\ \A i \in Prompts : Done(i).now <= clock
    <2>1. recovery \in [now : Time, todo : SUBSET Prompts, giveUp : SUBSET Prompts]
        BY <1>0 DEF TypeInv, TypeOK
    <2>2. Idle.now <= clock
        BY <1>0 DEF Idle
    <2>3. \A S : [recovery EXCEPT !.todo = S, !.giveUp = {}].now = recovery.now
        BY <2>1
    <2> QED BY <1>0, <2>2, <2>3 DEF Done
<1>2. ASSUME row' = row, loose' = loose, clock' = clock, runs' = runs, recovery'.now <= clock
      PROVE LeaseGoal
    BY <1>2 DEF Lease, LeaseGoal, LeaseInv, LeaseOf, Working, Holding, OneActivePrompt,
                DraftsAttached, Active, OtherActive
<1>3. CASE RecoverScan
    BY <1>0, <1>2, <1>3 DEF RecoverScan
<1>4. ASSUME NEW i \in Prompts, RecoverSkip(i) PROVE LeaseGoal
    BY <1>1, <1>2, <1>4 DEF RecoverSkip
<1>5. ASSUME NEW i \in Prompts, RecoverRequeue(i) PROVE LeaseGoal
    <2>1. /\ row' = [row EXCEPT ![i] = [@ EXCEPT !.status = "pending",
                                                 !.lock = recovery.now + LockTTL]]
          /\ recovery'.now <= clock /\ clock' = clock /\ runs' = runs /\ loose' = loose
          /\ row[i].lock <= recovery.now /\ ~Terminal(i) /\ ~OtherActive(i, recovery.now)
        BY <1>1, <1>5 DEF RecoverRequeue, Recoverable, Stale, Terminal
    <2>2. /\ \A k \in Prompts \ {i} : row'[k] = row[k]
          /\ row'[i].status = "pending"
        BY <1>0, <2>1 DEF TypeInv, TypeOK, Rows
    <2>3. ~OtherActive(i, clock)
        BY <1>0, <2>1, Times DEF OtherActive, Active
    <2>4. OneActivePrompt'
        BY <2>1, <2>2, <2>3, OneWrite
    <2>5. \A r \in runs : Holding(r) => r.msg.prompt # i
        BY <1>0, <2>1, HolderActive, Times
    <2>6. LeaseInv'
        BY <1>0, <2>1, <2>2, <2>5, HoldersKept DEF Lease
    <2>7. DraftsAttached'
        BY <2>1, <2>2 DEF Lease, DraftsAttached
    <2> QED BY <2>4, <2>6, <2>7 DEF LeaseGoal
<1>6. ASSUME NEW i \in Prompts, RecoverGiveUp(i) PROVE LeaseGoal
    <2>1. recovery'.now = recovery.now
        BY <1>0, <1>6 DEF RecoverGiveUp, TypeInv, TypeOK
    <2> QED BY <1>0, <1>2, <1>6, <2>1 DEF RecoverGiveUp
<1>7. ASSUME NEW i \in Prompts, RecoverFail(i) PROVE LeaseGoal
    <2>1. /\ clock' = clock /\ runs' = runs /\ recovery'.now <= clock
          /\ Post(i, "failed", FALSE)
        BY <1>1, <1>7 DEF RecoverFail
    <2>2. /\ OneActivePrompt' /\ DraftsAttached'
          /\ \A k \in Prompts \ {i} : row'[k] = row[k]
          /\ row'[i] = row[i] \/ row'[i].status = "failed"
        BY <2>1, PostLease
    <2>3. ASSUME NEW r \in runs, Holding(r) PROVE LeaseOf(r)'
        BY <1>0, <2>2, <2>3 DEF Lease, LeaseInv, LeaseOf, Working
    <2>4. LeaseInv'
        BY <2>1, <2>3 DEF Lease, LeaseInv, Holding
    <2> QED BY <2>2, <2>4 DEF LeaseGoal
<1>8. CASE RecoverDies
    BY <1>1, <1>2, <1>8 DEF RecoverDies
<1> QED BY <1>3, <1>4, <1>5, <1>6, <1>7, <1>8 DEF Recover

LEMMA LeaseStep == Lease /\ [Next]_vars => Lease'
<1> SUFFICES ASSUME Lease, [Next]_vars PROVE Lease'
    OBVIOUS
<1>1. AnswerInv'
    BY AnswerStep DEF Lease
<1>2. CASE ~(HardLimit <= LockTTL)
    BY <1>1, <1>2 DEF Lease, LeaseInv, OneActivePrompt, DraftsAttached
<1>3. CASE HardLimit <= LockTTL
    <2>1. ASSUME row' = row, loose' = loose, clock' = clock, runs' = runs, recovery' = recovery
          PROVE LeaseGoal
        BY <2>1 DEF Lease, LeaseGoal, LeaseInv, LeaseOf, Working, Holding, OneActivePrompt,
                    DraftsAttached, Active, OtherActive
    <2>2. ASSUME NEW i \in Prompts, Ask(i) PROVE LeaseGoal
        <3>1. /\ clock' = clock /\ runs' = runs /\ recovery' = recovery /\ loose' = loose
              /\ ~OtherActive(i, clock) /\ row[i].status = "absent"
            BY <2>2 DEF Ask, PromptAvailable, OtherActive
        <3>2. /\ \A k \in Prompts \ {i} : row'[k] = row[k]
              /\ row'[i].status = "pending"
            BY <2>2 DEF Ask, Lease, AnswerInv, TypeInv, TypeOK
        <3>3. \A r \in runs : Holding(r) => r.msg.prompt # i
            BY <1>3, <3>1 DEF Lease, LeaseInv, LeaseOf
        <3>4. recovery'.now <= clock /\ \A r \in runs : r.msg.prompt \in Prompts
            BY <1>3, <3>1, Times DEF Lease, LeaseInv, AnswerInv
        <3>5. LeaseInv'
            BY <3>1, <3>2, <3>3, <3>4, HoldersKept DEF Lease
        <3>6. OneActivePrompt'
            BY <3>1, <3>2, OneWrite
        <3>7. DraftsAttached'
            BY <3>1, <3>2 DEF Lease, DraftsAttached
        <3> QED BY <3>5, <3>6, <3>7 DEF LeaseGoal
    <2>3. ASSUME Tick PROVE LeaseGoal
        <3>1. /\ clock' = clock + 1 /\ row' = row /\ runs' = runs /\ recovery' = recovery
              /\ loose' = loose /\ \A r \in runs : clock + 1 < r.started + HardLimit
            BY <2>3 DEF Tick
        <3>2. \A k \in Prompts : row[k].lock > clock + 1 => row[k].lock > clock
            BY Times DEF Lease, AnswerInv
        <3>3. OneActivePrompt'
            BY <3>1, <3>2, FewerActive DEF Lease, Active
        <3>4. recovery'.now <= clock'
            BY <1>3, <3>1, Times DEF Lease, LeaseInv, AnswerInv
        <3>5. LeaseInv'
            BY <3>1, <3>4 DEF Lease, LeaseInv, LeaseOf, Working, Holding
        <3>6. DraftsAttached'
            BY <3>1 DEF Lease, DraftsAttached
        <3> QED BY <3>3, <3>5, <3>6 DEF LeaseGoal
    <2>4. ASSUME NEW j \in jobs, Publish(j) \/ PublishFails(j) PROVE LeaseGoal
        BY <2>1, <2>4 DEF Publish, PublishFails
    <2>5. ASSUME UNCHANGED vars PROVE LeaseGoal
        BY <2>1, <2>5 DEF vars
    <2>6. LeaseGoal
        BY <1>3, <2>2, <2>3, <2>4, <2>5, LeaseDeliver, LeaseWork, LeaseRecover DEF Next
    <2> QED BY <1>1, <2>6 DEF Lease, LeaseGoal
<1> QED BY <1>2, <1>3

\* While tasks are killed within the lease, one prompt of the trip at most is
\* being answered, whatever is retried, requeued or redelivered.
THEOREM LeaseIsExclusive == Spec => []OneActivePrompt
<1>1. Lease => OneActivePrompt
    BY DEF Lease
<1> QED BY <1>1, LeaseInit, LeaseStep, PTL DEF Spec

\* No prompt is worked on by two tasks at once.
THEOREM WorkersAreAlone == Spec => []OneWorker
<1>1. Lease => OneWorker
    BY DEF Lease, LeaseInv, OneWorker, Working, Holding
<1> QED BY <1>1, LeaseInit, LeaseStep, PTL DEF Spec

\* No task persists drafts for a prompt whose answer is already out.
THEOREM NoDraftIsLeftBehind == Spec => []DraftsAttached
<1>1. Lease => DraftsAttached
    BY DEF Lease
<1> QED BY <1>1, LeaseInit, LeaseStep, PTL DEF Spec

(***************************************************************************)
(* Drafted actions.  The inductive invariant rests on one fact about the   *)
(* row: once it is ready its payload no longer changes.  So the draft that *)
(* a preflight found ready is the one that a confirmation, in flight or    *)
(* given up, will meet.  And the card settles: whatever it shows is a view *)
(* of the row not older than the message it covers, so once the newest     *)
(* version arrived it shows that one.                                      *)
(***************************************************************************)

Fixed(b) == draft.status # "NEEDS_INFO" /\ draft.body = b

\* A payload that a preflight found ready is the payload of the row.
Preflighted == op.stage = "preflight" /\ op.view.status = "READY" => Fixed(op.view.body)

\* A confirmation of the phone meets a payload its user approved.
Outstanding ==
  stray \/ (op.kind = "confirm" /\ op.stage = "mutation")
    => draft.status # "NEEDS_INFO" /\ draft.body \in past.approved

\* The phone waits while its failed confirmation is being recorded.
Marked ==
  "phone" \in marking => op.kind = "confirm" /\ op.stage = "mutation" /\ op.code = "none"

\* A confirmation that was not heard of is in progress or leaves the card in
\* doubt; a card in doubt, or away, is not changing the draft.
Doubted ==
  past.doubt => card.unknown \/ (op.kind = "confirm" /\ op.stage \in {"mutation", "status"})
Certain ==
  /\ op.stage = "preflight" => op.kind \in Changes
  /\ op.kind \in Changes => ~card.unknown
AtRestAway == card.place = "away" => op.kind = "none"

\* The consumer reads only when there is room for what it reads.
Room == feed.reading # 0 => Len(feed.news) < MaxNews

DraftInv ==
  /\ DraftTypeOK /\ ExecutedAsReviewed
  /\ Preflighted /\ Outstanding /\ Marked /\ Doubted /\ Certain /\ AtRestAway /\ Room

-----------------------------------------------------------------------------
\* The view of a typed row is typed, and ready only if the row is.
LEMMA ViewTyped ==
  ASSUME NEW d \in DraftRows, trip \in Trips
  PROVE  /\ ViewOf(d) \in Views
         /\ ViewOf(d).status = "READY" => d.status = "READY" /\ ViewOf(d).body = d.body
<1>1. d.status \in Waiting \cup Final /\ d.body \in 0 .. MaxBodies
  BY DraftBounds DEF DraftRows
<1>2. /\ trip.late \in BOOLEAN /\ trip.authority \in BOOLEAN
  BY DEF Trips
<1>3. (d.status \in Waiting /\ ~(d.status \in Waiting /\ trip.late) /\ trip.authority) \in BOOLEAN
  OBVIOUS
<1>4. (IF d.status \in Waiting /\ trip.late THEN "EXPIRED" ELSE d.status)
        \in Waiting \cup Final \cup {"none"}
  BY <1>1 DEF Final
<1> QED BY <1>1, <1>3, <1>4 DEF ViewOf, Views

LEMMA NoViewTyped == NoView \in Views /\ NoView.status = "none"
BY DraftBounds DEF NoView, Views

LEMMA NoOpTyped ==
  NoOp \in Operations /\ NoOp.kind = "none" /\ NoOp.stage = "none"
BY NoViewTyped DEF NoOp, Operations

LEMMA DraftInvInit == DraftInit => DraftInv
<1> SUFFICES ASSUME DraftInit PROVE DraftInv
  OBVIOUS
<1>1. draft \in DraftRows /\ draft.status \in Waiting
  BY DraftBounds DEF DraftInit, DraftRows
<1>2. trip \in Trips
  BY DraftBounds DEF DraftInit, Trips
<1>3. View \in Views
  BY <1>1, <1>2, ViewTyped DEF View
<1>4. /\ feed \in [owed : BOOLEAN, reading : Nat, news : Seq(Copies)]
      /\ Len(feed.news) <= MaxNews
  BY DraftBounds DEF DraftInit
<1>5. copy \in Copies /\ over \in [view : Views, prior : SUBSET Views]
  BY <1>3, NoViewTyped DEF DraftInit, Copies
<1>6. /\ card \in Cards /\ card.place = "list"
  BY <1>3 DEF DraftInit, Cards
<1>7. /\ op = NoOp /\ stray = FALSE /\ marking = {} /\ ran = <<>>
  BY DEF DraftInit
<1>8. /\ past \in [doubt : BOOLEAN, approved : SUBSET (1 .. MaxBodies), told : Nat]
      /\ past.doubt = FALSE
  BY DEF DraftInit
<1>9. DraftTypeOK
  BY <1>1, <1>2, <1>4, <1>5, <1>6, <1>7, <1>8, NoOpTyped DEF DraftTypeOK
<1>10. ExecutedAsReviewed
  BY <1>1, <1>7 DEF ExecutedAsReviewed, Waiting
<1>11. Preflighted /\ Outstanding /\ Marked /\ Doubted /\ Certain /\ AtRestAway /\ Room
  BY <1>6, <1>7, <1>8, NoOpTyped
     DEF DraftInit, Preflighted, Outstanding, Marked, Doubted, Certain, AtRestAway, Room, Changes
<1> QED BY <1>9, <1>10, <1>11 DEF DraftInv

-----------------------------------------------------------------------------
(* What a service does to the row, and to the phone that asked.            *)

\* The row is left alone, leaves or changes its waiting, or is confirmed by an
\* execution of what was approved.
RowMoves ==
  \/ draft' = draft /\ ran' = ran
  \/ /\ ran' = ran /\ draft.status \in Waiting /\ draft'.status # "CONFIRMED"
     /\ draft.status = "READY" => draft'.status # "NEEDS_INFO" /\ draft'.body = draft.body
  \/ /\ draft.status = "READY" /\ draft'.status = "CONFIRMED" /\ draft'.body = draft.body
     /\ \E e : /\ ran' = Append(ran, e) /\ e.base = e.target /\ ~e.late
               /\ e.by # "other" => e.body \in past.approved

AnswerMoves ==
  /\ op' \in Operations /\ op'.kind = op.kind /\ op'.stage = op.stage
  /\ op'.view = op.view \/ op.stage # "preflight" \/ (op'.view = View /\ draft' = draft)
  /\ stray' \in BOOLEAN /\ (stray' => stray)
  /\ marking' \subseteq {"phone", "other"}
  /\ "phone" \in marking' => op.kind = "confirm" /\ op.stage = "mutation" /\ op'.code = "none"

ServerStep ==
  /\ UNCHANGED <<trip, copy, over, card, past>>
  /\ draft' \in DraftRows
  /\ feed' \in [owed : BOOLEAN, reading : Nat, news : Seq(Copies)]
  /\ feed'.news = feed.news /\ feed'.reading = feed.reading
  /\ RowMoves /\ AnswerMoves

\* Who asks is told, and nothing else of an operation moves.
LEMMA AnswerShape ==
  ASSUME DraftInv, NEW who \in {"phone", "stray", "other"},
         NEW code \in {"ok", "refused"}, NEW view \in Views,
         Answer(who, code, view),
         who = "phone" => op.stage = "mutation"
  PROVE  /\ op' \in Operations /\ op'.kind = op.kind /\ op'.stage = op.stage
         /\ op'.view = op.view \/ op.stage # "preflight"
         /\ who # "phone" => op' = op
         /\ stray' \in BOOLEAN /\ (stray' => stray)
<1>1. op \in Operations /\ stray \in BOOLEAN
  BY DEF DraftInv, DraftTypeOK
<1>2. op' = IF who = "phone" THEN [op EXCEPT !.code = code, !.view = view] ELSE op
  BY DEF Answer
<1>3. [op EXCEPT !.code = code, !.view = view] \in Operations
  BY <1>1 DEF Operations
<1>4. [op EXCEPT !.code = code, !.view = view].kind = op.kind
      /\ [op EXCEPT !.code = code, !.view = view].stage = op.stage
  BY <1>1 DEF Operations
<1>5. stray' \in BOOLEAN /\ (stray' => stray)
  BY <1>1 DEF Answer
<1> QED BY <1>1, <1>2, <1>3, <1>4, <1>5

LEMMA SaveShape ==
  ASSUME DraftInv, NEW d \in DraftRows, Save(d)
  PROVE  /\ draft' \in DraftRows /\ draft'.status = d.status /\ draft'.body = d.body
         /\ feed' \in [owed : BOOLEAN, reading : Nat, news : Seq(Copies)]
         /\ feed'.news = feed.news /\ feed'.reading = feed.reading
<1>1. draft \in DraftRows
      /\ feed \in [owed : BOOLEAN, reading : Nat, news : Seq(Copies)] /\ Len(feed.news) <= MaxNews
  BY DEF DraftInv, DraftTypeOK
<1>2. PICK n \in Nat : n = draft.seq + 1
  BY <1>1 DEF DraftRows
<1>3. draft' = [d EXCEPT !.seq = n]
  BY <1>2 DEF Save
<1>4. draft' \in DraftRows /\ draft'.status = d.status /\ draft'.body = d.body
  BY <1>3 DEF DraftRows
<1>5. feed' = [feed EXCEPT !.owed = TRUE]
  BY DEF Save
<1>6. /\ feed' \in [owed : BOOLEAN, reading : Nat, news : Seq(Copies)]
      /\ feed'.news = feed.news /\ feed'.reading = feed.reading
  BY <1>1, <1>5
<1> QED BY <1>1, <1>4, <1>6

\* A refusal changes nothing but the phone that asked.
LEMMA AnswerKeeps ==
  ASSUME DraftInv, NEW who \in {"phone", "stray", "other"},
         NEW code \in {"ok", "refused"}, NEW view \in Views,
         Answer(who, code, view), UNCHANGED <<trip, copy, over, card, past, draft, feed, ran>>,
         who = "phone" => op.stage = "mutation",
         marking' \subseteq {"phone", "other"}, "phone" \in marking' => "phone" \in marking,
         who = "phone" => "phone" \notin marking'
  PROVE  ServerStep
<1>1. /\ op' \in Operations /\ op'.kind = op.kind /\ op'.stage = op.stage
      /\ op'.view = op.view \/ op.stage # "preflight"
      /\ who # "phone" => op' = op
      /\ stray' \in BOOLEAN /\ (stray' => stray)
  BY AnswerShape
<1>2. "phone" \in marking' => op.kind = "confirm" /\ op.stage = "mutation" /\ op'.code = "none"
  BY <1>1 DEF DraftInv, Marked
<1>3. AnswerMoves
  BY <1>1, <1>2 DEF AnswerMoves
<1>4. RowMoves
  BY DEF RowMoves
<1> QED BY <1>3, <1>4 DEF ServerStep, DraftInv, DraftTypeOK

\* A change of the row that its service may make.
LEMMA SaveKeeps ==
  ASSUME DraftInv, NEW who \in {"phone", "stray", "other"},
         NEW code \in {"ok", "refused"}, NEW d \in DraftRows,
         Save(d), Answer(who, code, ViewOf(d)), UNCHANGED <<trip, copy, over, card, past, ran>>,
         draft.status \in Waiting, d.status # "CONFIRMED",
         draft.status = "READY" => d.status # "NEEDS_INFO" /\ d.body = draft.body,
         who = "phone" => op.stage = "mutation",
         marking' \subseteq {"phone", "other"}, "phone" \in marking' => "phone" \in marking,
         who = "phone" => "phone" \notin marking'
  PROVE  ServerStep
<1>1. ViewOf(d) \in Views
  BY ViewTyped DEF DraftInv, DraftTypeOK
<1>2. /\ op' \in Operations /\ op'.kind = op.kind /\ op'.stage = op.stage
      /\ op'.view = op.view \/ op.stage # "preflight"
      /\ who # "phone" => op' = op
      /\ stray' \in BOOLEAN /\ (stray' => stray)
  BY <1>1, AnswerShape
<1>3. "phone" \in marking' => op.kind = "confirm" /\ op.stage = "mutation" /\ op'.code = "none"
  BY <1>2 DEF DraftInv, Marked
<1>4. AnswerMoves
  BY <1>2, <1>3 DEF AnswerMoves
<1>5. /\ draft' \in DraftRows /\ draft'.status = d.status /\ draft'.body = d.body
      /\ feed' \in [owed : BOOLEAN, reading : Nat, news : Seq(Copies)]
      /\ feed'.news = feed.news /\ feed'.reading = feed.reading
  BY SaveShape
<1>6. RowMoves
  BY <1>5 DEF RowMoves
<1> QED BY <1>4, <1>5, <1>6 DEF ServerStep

\* An expiry, a cancellation and a failure are such changes.
LEMMA StatusTyped ==
  ASSUME DraftInv, NEW status \in Waiting \cup Final
  PROVE  /\ [draft EXCEPT !.status = status] \in DraftRows
         /\ [draft EXCEPT !.status = status].status = status
         /\ [draft EXCEPT !.status = status].body = draft.body
BY DEF DraftInv, DraftTypeOK, DraftRows

LEMMA AskedFacts ==
  ASSUME DraftInv, NEW who \in {"phone", "stray", "other"}, NEW kind \in Changes, Asked(kind, who)
  PROVE  /\ who = "phone" => op.stage = "mutation" /\ op.kind = kind /\ op.code = "none"
                             /\ "phone" \notin marking
         /\ who = "stray" => stray /\ kind = "confirm"
BY DEF Asked

-----------------------------------------------------------------------------
LEMMA ConfirmShape ==
  ASSUME DraftInv, NEW who \in {"phone", "stray", "other"}, ConfirmActionDraft(who)
  PROVE  ServerStep
<1>1. /\ Asked("confirm", who) /\ UNCHANGED <<trip, copy, over, card, past>>
      /\ draft \in DraftRows /\ marking \subseteq {"phone", "other"}
      /\ View \in Views /\ NoView \in Views
  BY ViewTyped, NoViewTyped DEF ConfirmActionDraft, DraftInv, DraftTypeOK, View
<1>2. /\ who = "phone" => op.stage = "mutation" /\ op.kind = "confirm" /\ op.code = "none"
                          /\ "phone" \notin marking
      /\ who = "stray" => stray
  BY <1>1, AskedFacts DEF Changes
<1>3. CASE draft.status = "CONFIRMED" /\ Answer(who, "ok", View)
           /\ UNCHANGED <<draft, feed, marking, ran>>
  BY <1>1, <1>2, <1>3, AnswerKeeps
<1>4. CASE Refuse(who, NoView) /\ UNCHANGED <<marking, ran>>
  BY <1>1, <1>2, <1>4, AnswerKeeps DEF Refuse
<1>5. CASE draft.status = "READY" /\ Expire(who) /\ UNCHANGED <<marking, ran>>
  <2> DEFINE d == [draft EXCEPT !.status = "EXPIRED"]
  <2>1. d \in DraftRows /\ d.status = "EXPIRED" /\ d.body = draft.body
    BY StatusTyped DEF Final
  <2>2. Save(d) /\ Answer(who, "refused", ViewOf(d))
    BY <1>5 DEF Expire
  <2> QED BY <1>1, <1>2, <1>5, <2>1, <2>2, SaveKeeps DEF Waiting
<1>6. CASE Fails(who)
  <2>1. UNCHANGED <<draft, ran, feed, op>> /\ stray' \in BOOLEAN /\ (stray' => stray)
    BY <1>6 DEF Fails, DraftInv, DraftTypeOK
  <2>2. marking' \subseteq {"phone", "other"}
        /\ ("phone" \in marking' => "phone" \in marking \/ who = "phone")
    BY <1>1, <1>6 DEF Fails
  <2>3. "phone" \in marking' => op.kind = "confirm" /\ op.stage = "mutation" /\ op'.code = "none"
    BY <1>2, <2>1, <2>2 DEF DraftInv, Marked
  <2>4. AnswerMoves
    BY <2>1, <2>2, <2>3 DEF AnswerMoves, DraftInv, DraftTypeOK
  <2>5. RowMoves
    BY <2>1 DEF RowMoves
  <2> QED BY <1>1, <2>1, <2>4, <2>5 DEF ServerStep, DraftInv, DraftTypeOK
<1>7. CASE draft.status = "READY" /\ ~trip.late /\ CheckPreconditions /\ Execute(who)
  <2> DEFINE d == [draft EXCEPT !.status = "CONFIRMED"]
             e == [by |-> who, body |-> draft.body, base |-> draft.base,
                   target |-> trip.target, late |-> trip.late]
  <2>1. d \in DraftRows /\ d.status = "CONFIRMED" /\ d.body = draft.body
    BY StatusTyped DEF Final
  <2>2. /\ ran' = Append(ran, e) /\ Save(d) /\ Answer(who, "ok", ViewOf(d)) /\ UNCHANGED marking
    BY <1>7 DEF Execute
  <2>3. /\ draft' \in DraftRows /\ draft'.status = "CONFIRMED" /\ draft'.body = draft.body
        /\ feed' \in [owed : BOOLEAN, reading : Nat, news : Seq(Copies)]
        /\ feed'.news = feed.news /\ feed'.reading = feed.reading
    BY <2>1, <2>2, SaveShape
  <2>4. who # "other" => draft.body \in past.approved
    BY <1>2 DEF DraftInv, Outstanding
  <2>5. RowMoves
    BY <1>7, <2>2, <2>3, <2>4 DEF RowMoves, CheckPreconditions
  <2>6. ViewOf(d) \in Views
    BY <2>1, ViewTyped DEF DraftInv, DraftTypeOK
  <2>7. /\ op' \in Operations /\ op'.kind = op.kind /\ op'.stage = op.stage
        /\ op'.view = op.view \/ op.stage # "preflight"
        /\ who # "phone" => op' = op
        /\ stray' \in BOOLEAN /\ (stray' => stray)
    BY <1>2, <2>2, <2>6, AnswerShape
  <2>8. AnswerMoves
    BY <1>1, <1>2, <2>2, <2>7 DEF AnswerMoves, DraftInv, Marked
  <2> QED BY <1>1, <2>3, <2>5, <2>8 DEF ServerStep
<1> QED BY <1>3, <1>4, <1>5, <1>6, <1>7 DEF ConfirmActionDraft

LEMMA MarkShape ==
  ASSUME DraftInv, NEW who \in {"phone", "other"}, MarkActionDraftFailed(who)
  PROVE  ServerStep
<1> DEFINE d == [draft EXCEPT !.status = "FAILED"]
<1>1. /\ who \in marking /\ marking' = marking \ {who} /\ marking \subseteq {"phone", "other"}
      /\ UNCHANGED <<trip, ran, copy, over, card, past>>
      /\ View \in Views /\ NoView \in Views
  BY ViewTyped, NoViewTyped DEF MarkActionDraftFailed, DraftInv, DraftTypeOK, View
<1>2. who = "phone" => op.stage = "mutation"
  BY <1>1 DEF DraftInv, Marked
<1>3. d \in DraftRows /\ d.status = "FAILED" /\ d.body = draft.body
  BY StatusTyped DEF Final
<1>4. CASE draft.status = "READY" /\ Save(d) /\ Answer(who, "refused", ViewOf(d))
  BY <1>1, <1>2, <1>3, <1>4, SaveKeeps DEF Waiting
<1>5. CASE Refuse(who, View) \/ Refuse(who, NoView)
  BY <1>1, <1>2, <1>5, AnswerKeeps DEF Refuse
<1> QED BY <1>4, <1>5 DEF MarkActionDraftFailed

LEMMA PatchShape ==
  ASSUME DraftInv, NEW who \in {"phone", "stray", "other"}, PatchActionDraft(who)
  PROVE  ServerStep
<1>1. /\ Asked("patch", who) /\ UNCHANGED <<trip, marking, ran, copy, over, card, past>>
      /\ draft \in DraftRows /\ trip \in Trips /\ marking \subseteq {"phone", "other"}
      /\ View \in Views /\ NoView \in Views
  BY ViewTyped, NoViewTyped DEF PatchActionDraft, DraftInv, DraftTypeOK, View
<1>2. who = "phone" => op.stage = "mutation" /\ "phone" \notin marking
  BY <1>1, AskedFacts DEF Changes
<1>3. CASE Refuse(who, NoView) \/ Refuse(who, View)
  BY <1>1, <1>2, <1>3, AnswerKeeps DEF Refuse
<1>4. CASE draft.status \in Waiting /\ Expire(who)
  <2> DEFINE d == [draft EXCEPT !.status = "EXPIRED"]
  <2>1. d \in DraftRows /\ d.status = "EXPIRED" /\ d.body = draft.body
    BY StatusTyped DEF Final
  <2>2. Save(d) /\ Answer(who, "refused", ViewOf(d))
    BY <1>4 DEF Expire
  <2> QED BY <1>1, <1>2, <1>4, <2>1, <2>2, SaveKeeps
<1>5. CASE Answer(who, "ok", View) /\ UNCHANGED <<draft, feed>>
  BY <1>1, <1>2, <1>5, AnswerKeeps
<1>6. ASSUME Editable, draft.body < MaxBodies, NEW status \in Waiting,
             Save([draft EXCEPT !.status = status, !.body = @ + 1, !.base = trip.target]),
             Answer(who, "ok",
                    ViewOf([draft EXCEPT !.status = status, !.body = @ + 1, !.base = trip.target]))
      PROVE  ServerStep
  <2> DEFINE d == [draft EXCEPT !.status = status, !.body = @ + 1, !.base = trip.target]
  <2>1. PICK b \in 1 .. MaxBodies : b = draft.body + 1
    BY <1>1, <1>6, DraftBounds DEF DraftRows
  <2>2. trip.target \in Nat
    BY <1>1 DEF Trips
  <2>3. d = [draft EXCEPT !.status = status, !.body = b, !.base = trip.target]
    BY <2>1
  <2>4. d \in DraftRows /\ d.status \in Waiting
    BY <1>1, <2>2, <2>3 DEF DraftRows
  <2>5. Save(d) /\ Answer(who, "ok", ViewOf(d))
    BY <1>6
  <2>6. draft.status = "NEEDS_INFO"
    BY <1>6 DEF Editable
  <2> HIDE DEF d
  <2> QED BY <1>1, <1>2, <2>4, <2>5, <2>6, SaveKeeps DEF Waiting
<1> QED BY <1>3, <1>4, <1>5, <1>6 DEF PatchActionDraft

LEMMA CancelShape ==
  ASSUME DraftInv, NEW who \in {"phone", "stray", "other"}, CancelActionDraft(who)
  PROVE  ServerStep
<1>1. /\ Asked("cancel", who) /\ UNCHANGED <<trip, marking, ran, copy, over, card, past>>
      /\ marking \subseteq {"phone", "other"} /\ View \in Views /\ NoView \in Views
  BY ViewTyped, NoViewTyped DEF CancelActionDraft, DraftInv, DraftTypeOK, View
<1>2. who = "phone" => op.stage = "mutation" /\ "phone" \notin marking
  BY <1>1, AskedFacts DEF Changes
<1>3. CASE Answer(who, "ok", View) /\ UNCHANGED <<draft, feed>>
  BY <1>1, <1>2, <1>3, AnswerKeeps
<1>4. CASE Refuse(who, NoView)
  BY <1>1, <1>2, <1>4, AnswerKeeps DEF Refuse
<1>5. ASSUME draft.status \in Waiting, NEW status \in {"EXPIRED", "CANCELLED"},
             NEW code \in {"ok", "refused"},
             Save([draft EXCEPT !.status = status]),
             Answer(who, code, ViewOf([draft EXCEPT !.status = status]))
      PROVE  ServerStep
  <2> DEFINE d == [draft EXCEPT !.status = status]
  <2>1. d \in DraftRows /\ d.status = status /\ d.body = draft.body
    BY StatusTyped DEF Final
  <2>2. Save(d) /\ Answer(who, code, ViewOf(d))
    BY <1>5
  <2> HIDE DEF d
  <2> QED BY <1>1, <1>2, <1>5, <2>1, <2>2, SaveKeeps DEF Waiting
<1> QED BY <1>3, <1>4, <1>5 DEF CancelActionDraft, Expire

LEMMA GetShape ==
  ASSUME DraftInv, GetActionDraft
  PROVE  ServerStep
<1>1. /\ op.stage \in {"preflight", "status"} /\ op' = [op EXCEPT !.code = "ok", !.view = View]
      /\ UNCHANGED <<draft, trip, marking, ran, feed, copy, over, card, stray, past>>
  BY DEF GetActionDraft, serverVars
<1>2. View \in Views /\ op \in Operations
  BY ViewTyped DEF DraftInv, DraftTypeOK, View
<1>3. /\ op' \in Operations /\ op'.kind = op.kind /\ op'.stage = op.stage /\ op'.view = View
  BY <1>1, <1>2 DEF Operations
<1>4. "phone" \notin marking
  BY <1>1 DEF DraftInv, Marked
<1>5. AnswerMoves
  BY <1>1, <1>3, <1>4 DEF AnswerMoves, DraftInv, DraftTypeOK
<1>6. RowMoves
  BY <1>1 DEF RowMoves
<1> QED BY <1>1, <1>5, <1>6 DEF ServerStep, DraftInv, DraftTypeOK

LEMMA ServicesShape ==
  ASSUME DraftInv, Services
  PROVE  ServerStep
<1>1. marking \subseteq {"phone", "other"}
  BY DEF DraftInv, DraftTypeOK
<1> QED BY <1>1, ConfirmShape, PatchShape, CancelShape, MarkShape, GetShape DEF Services

\* Whatever the services do, the invariant stays.
LEMMA ServerStepInv ==
  ASSUME DraftInv, ServerStep
  PROVE  DraftInv'
<1>1. /\ UNCHANGED <<trip, copy, over, card, past>> /\ draft' \in DraftRows
      /\ feed' \in [owed : BOOLEAN, reading : Nat, news : Seq(Copies)]
      /\ feed'.news = feed.news /\ feed'.reading = feed.reading
      /\ RowMoves /\ AnswerMoves
  BY DEF ServerStep
<1>2. DraftTypeOK'
  BY <1>1 DEF AnswerMoves, DraftInv, DraftTypeOK
<1>3. ExecutedAsReviewed'
  <2>1. CASE draft' = draft /\ ran' = ran
    BY <1>1, <2>1 DEF DraftInv, ExecutedAsReviewed
  <2>2. CASE ran' = ran /\ draft.status \in Waiting /\ draft'.status # "CONFIRMED"
    BY <1>1, <2>2 DEF DraftInv, ExecutedAsReviewed, Waiting
  <2>3. ASSUME draft.status = "READY", draft'.status = "CONFIRMED",
               NEW e, ran' = Append(ran, e), e.base = e.target, ~e.late,
               e.by # "other" => e.body \in past.approved
        PROVE  ExecutedAsReviewed'
    <3>1. ran = <<>>
      BY <2>3 DEF DraftInv, ExecutedAsReviewed
    <3>2. Len(ran') = 1 /\ ran'[1] = e
      BY <2>3, <3>1
    <3> QED BY <1>1, <2>3, <3>2 DEF ExecutedAsReviewed
  <2> QED BY <1>1, <2>1, <2>2, <2>3 DEF RowMoves
<1>4. /\ \A b : Fixed(b) => draft'.status # "NEEDS_INFO" /\ draft'.body = b
      /\ draft.status # "NEEDS_INFO" => draft'.status # "NEEDS_INFO" /\ draft'.body = draft.body
  BY <1>1 DEF RowMoves, Fixed, Waiting
<1>5. Preflighted'
  <2> SUFFICES ASSUME op'.stage = "preflight", op'.view.status = "READY"
               PROVE  draft'.status # "NEEDS_INFO" /\ draft'.body = op'.view.body
    BY DEF Preflighted, Fixed
  <2>1. CASE op'.view = op.view
    BY <1>1, <1>4, <2>1 DEF AnswerMoves, DraftInv, Preflighted
  <2>2. CASE op'.view = View /\ draft' = draft
    BY <2>2, ViewTyped DEF View, DraftInv, DraftTypeOK
  <2> QED BY <1>1, <2>1, <2>2 DEF AnswerMoves
<1>6. Outstanding'
  BY <1>1, <1>4 DEF AnswerMoves, DraftInv, Outstanding
<1>7. Marked' /\ Doubted' /\ Certain' /\ AtRestAway' /\ Room'
  BY <1>1 DEF AnswerMoves, DraftInv, Marked, Doubted, Certain, AtRestAway, Room
<1> QED BY <1>2, <1>3, <1>5, <1>6, <1>7 DEF DraftInv

-----------------------------------------------------------------------------
(* The trip, the push and the transcript.                                  *)

LEMMA TripTyped ==
  ASSUME DraftInv, NEW m \in 0 .. MaxMoves
  PROVE  /\ [[trip EXCEPT !.late = TRUE] EXCEPT !.moves = m] \in Trips
         /\ [[trip EXCEPT !.closed = TRUE] EXCEPT !.moves = m] \in Trips
         /\ [[trip EXCEPT !.target = @ + 1] EXCEPT !.moves = m] \in Trips
         /\ [[trip EXCEPT !.authority = ~@] EXCEPT !.moves = m] \in Trips
<1>1. trip \in Trips
  BY DEF DraftInv, DraftTypeOK
<1>2. PICK n \in Nat : n = trip.target + 1
  BY <1>1 DEF Trips
<1>3. PICK b \in BOOLEAN : b = ~trip.authority
  BY <1>1 DEF Trips
<1>4. [[trip EXCEPT !.target = n] EXCEPT !.moves = m] \in Trips
  BY <1>1 DEF Trips
<1>5. [[trip EXCEPT !.authority = b] EXCEPT !.moves = m] \in Trips
  BY <1>1 DEF Trips
<1>6. /\ [[trip EXCEPT !.late = TRUE] EXCEPT !.moves = m] \in Trips
      /\ [[trip EXCEPT !.closed = TRUE] EXCEPT !.moves = m] \in Trips
  BY <1>1 DEF Trips
<1> QED BY <1>2, <1>3, <1>4, <1>5, <1>6

\* Steps that neither the row nor the card's operation takes part in.
LEMMA AsideInv ==
  ASSUME DraftInv, UNCHANGED <<draft, marking, ran, card, op, stray>>,
         past'.doubt = past.doubt, past'.approved = past.approved, DraftTypeOK', Room'
  PROVE  DraftInv'
BY DEF DraftInv, ExecutedAsReviewed, Preflighted, Fixed, Outstanding, Marked, Doubted, Certain,
       AtRestAway

LEMMA TripMovesInv ==
  ASSUME DraftInv, TripMoves
  PROVE  DraftInv'
<1>1. UNCHANGED <<draft, marking, ran, feed, copy, over, card, op, stray, past>>
  BY DEF TripMoves, phoneVars
<1>2. PICK t \in {[trip EXCEPT !.late = TRUE], [trip EXCEPT !.closed = TRUE],
                  [trip EXCEPT !.target = @ + 1], [trip EXCEPT !.authority = ~@]} :
        trip' = [t EXCEPT !.moves = @ + 1]
  BY DEF TripMoves
<1>3. trip \in Trips /\ trip.moves < MaxMoves
  BY DEF TripMoves, DraftInv, DraftTypeOK
<1>4. PICK m \in 0 .. MaxMoves : m = trip.moves + 1
  BY <1>3, DraftBounds DEF Trips
<1>5. t.moves = trip.moves
  BY <1>2, <1>3 DEF Trips
<1>6. trip' = [t EXCEPT !.moves = m]
  BY <1>2, <1>4, <1>5
<1>7. trip' \in Trips
  <2>1. CASE t = [trip EXCEPT !.late = TRUE]
    BY <1>6, <2>1, TripTyped
  <2>2. CASE t = [trip EXCEPT !.closed = TRUE]
    BY <1>6, <2>2, TripTyped
  <2>3. CASE t = [trip EXCEPT !.target = @ + 1]
    BY <1>6, <2>3, TripTyped
  <2>4. CASE t = [trip EXCEPT !.authority = ~@]
    BY <1>6, <2>4, TripTyped
  <2> QED BY <1>2, <2>1, <2>2, <2>3, <2>4
<1>8. DraftTypeOK'
  BY <1>1, <1>7 DEF DraftInv, DraftTypeOK
<1>9. Room'
  BY <1>1 DEF DraftInv, Room
<1> QED BY <1>1, <1>8, <1>9, AsideInv

LEMMA PushInv ==
  ASSUME DraftInv, ReadMessage \/ ReadDraft
  PROVE  DraftInv'
<1>1. /\ UNCHANGED <<draft, trip, marking, ran, copy, over, card, op, stray, past>>
      /\ feed \in [owed : BOOLEAN, reading : Nat, news : Seq(Copies)] /\ Len(feed.news) <= MaxNews
      /\ View \in Views /\ draft \in DraftRows
  BY ViewTyped DEF ReadMessage, ReadDraft, serverVars, phoneVars, DraftInv, DraftTypeOK, View
<1>2. CASE ReadMessage
  <2>1. feed' = [feed EXCEPT !.owed = FALSE, !.reading = draft.seq] /\ draft.seq \in Nat
    BY <1>1, <1>2 DEF ReadMessage, DraftRows
  <2>2. feed' \in [owed : BOOLEAN, reading : Nat, news : Seq(Copies)] /\ feed'.news = feed.news
    BY <1>1, <2>1
  <2>3. DraftTypeOK' /\ Room'
    BY <1>1, <1>2, <2>2 DEF DraftInv, DraftTypeOK, ReadMessage, Room
  <2> QED BY <1>1, <2>3, AsideInv
<1>3. CASE ReadDraft
  <2> DEFINE news == Append(feed.news, [seq |-> feed.reading, view |-> View])
  <2>1. feed' = [feed EXCEPT !.reading = 0, !.news = news]
    BY <1>3 DEF ReadDraft
  <2>2. [seq |-> feed.reading, view |-> View] \in Copies
    BY <1>1 DEF Copies
  <2>3. news \in Seq(Copies) /\ Len(news) = Len(feed.news) + 1
    BY <1>1, <2>2
  <2>4. Len(news) <= MaxNews
    BY <1>1, <1>3, <2>3, DraftBounds DEF ReadDraft, DraftInv, Room
  <2>5. /\ feed' \in [owed : BOOLEAN, reading : Nat, news : Seq(Copies)]
        /\ feed'.news = news /\ feed'.reading = 0
    BY <1>1, <2>1, <2>3
  <2>6. DraftTypeOK' /\ Room'
    BY <1>1, <2>4, <2>5 DEF DraftInv, DraftTypeOK, Room
  <2> QED BY <1>1, <2>6, AsideInv
<1> QED BY <1>2, <1>3

\* How often a confirmation was published is a number.
LEMMA ToldTyped ==
  ASSUME DraftInv, NEW prev, NEW v
  PROVE  Publishes(prev, v) \in {0, 1} /\ past.told + Publishes(prev, v) \in Nat
<1>1. Publishes(prev, v) \in {0, 1}
  BY DEF Publishes
<1>2. past.told \in Nat
  BY DEF DraftInv, DraftTypeOK
<1> QED BY <1>1, <1>2

LEMMA ShownTyped ==
  ASSUME DraftInv
  PROVE  Shown \in Views
BY DEF DraftInv, DraftTypeOK, Copies, Shown

LEMMA MessageArrivesInv ==
  ASSUME DraftInv, MessageArrives
  PROVE  DraftInv'
<1> DEFINE event == Head(feed.news)
           next == Reconciled(event.view)
           shown == IF next.view = NoView THEN event.view ELSE next.view
<1>1. /\ UNCHANGED <<draft, trip, marking, ran, card, op, stray>>
      /\ feed.news # <<>> /\ feed' = [feed EXCEPT !.news = Tail(@)]
      /\ copy' \in {copy, event} /\ over' \in {over, next}
      /\ past' \in {past, [past EXCEPT !.told = @ + Publishes(Shown, shown)]}
  BY DEF MessageArrives, serverVars
<1>2. /\ feed \in [owed : BOOLEAN, reading : Nat, news : Seq(Copies)] /\ Len(feed.news) <= MaxNews
      /\ past \in [doubt : BOOLEAN, approved : SUBSET (1 .. MaxBodies), told : Nat]
      /\ over \in [view : Views, prior : SUBSET Views]
  BY DEF DraftInv, DraftTypeOK
<1>3. /\ event \in Copies /\ Tail(feed.news) \in Seq(Copies)
      /\ Len(Tail(feed.news)) = Len(feed.news) - 1 /\ Len(feed.news) \in Nat
  BY <1>1, <1>2
<1>4. /\ feed' \in [owed : BOOLEAN, reading : Nat, news : Seq(Copies)]
      /\ feed'.news = Tail(feed.news) /\ feed'.reading = feed.reading
  BY <1>1, <1>2, <1>3
<1>5. next \in [view : Views, prior : SUBSET Views]
  BY <1>2, NoViewTyped DEF Reconciled
<1>6. PICK n \in Nat : n = past.told + Publishes(Shown, shown)
  BY ToldTyped
<1>7. /\ past' \in [doubt : BOOLEAN, approved : SUBSET (1 .. MaxBodies), told : Nat]
      /\ past'.doubt = past.doubt /\ past'.approved = past.approved
  BY <1>1, <1>2, <1>6
<1>8. Len(feed'.news) <= MaxNews /\ Room'
  BY <1>2, <1>3, <1>4, DraftBounds DEF DraftInv, Room
<1>9. copy' \in Copies /\ over' \in [view : Views, prior : SUBSET Views]
  BY <1>1, <1>2, <1>3, <1>5 DEF DraftInv, DraftTypeOK
<1>10. DraftTypeOK'
  BY <1>1, <1>4, <1>7, <1>8, <1>9 DEF DraftInv, DraftTypeOK
<1> QED BY <1>1, <1>7, <1>8, <1>10, AsideInv

-----------------------------------------------------------------------------
(* The card.                                                               *)

LEMMA SnapshotTyped ==
  ASSUME DraftInv, NEW v \in Views, Snapshot(v)
  PROVE  over' \in [view : Views, prior : SUBSET Views]
BY DEF DraftInv, DraftTypeOK, Snapshot, Cards

\* An operation ends; doubt may stay only if the card shows it.
LEMMA EndsInv ==
  ASSUME DraftInv, NEW v \in Views, NEW unknown \in BOOLEAN, NEW doubt \in BOOLEAN,
         Ends(v, unknown, doubt), doubt => unknown, "phone" \notin marking
  PROVE  DraftInv'
<1>1. /\ UNCHANGED <<draft, trip, marking, ran, feed, copy, stray>> /\ op' = NoOp
      /\ card' = [card EXCEPT !.draft = v, !.unknown = unknown]
      /\ past' = [past EXCEPT !.doubt = doubt, !.told = @ + Publishes(op.seen, v)]
  BY DEF Ends, serverVars
<1>2. over' \in [view : Views, prior : SUBSET Views]
  BY SnapshotTyped DEF Ends
<1>3. card \in Cards /\ past \in [doubt : BOOLEAN, approved : SUBSET (1 .. MaxBodies), told : Nat]
  BY DEF DraftInv, DraftTypeOK
<1>4. card' \in Cards /\ card'.unknown = unknown
  BY <1>1, <1>3 DEF Cards
<1>5. PICK n \in Nat : n = past.told + Publishes(op.seen, v)
  BY ToldTyped
<1>6. past' = [past EXCEPT !.doubt = doubt, !.told = n]
  BY <1>1, <1>5
<1>7. /\ past' \in [doubt : BOOLEAN, approved : SUBSET (1 .. MaxBodies), told : Nat]
      /\ past'.doubt = doubt /\ past'.approved = past.approved
  BY <1>3, <1>6
<1>8. op' \in Operations /\ op'.kind = "none" /\ op'.stage = "none"
  BY <1>1, NoOpTyped
<1>9. DraftTypeOK'
  BY <1>1, <1>2, <1>4, <1>7, <1>8 DEF DraftInv, DraftTypeOK
<1>10. ExecutedAsReviewed' /\ Outstanding' /\ Room'
  BY <1>1, <1>7, <1>8 DEF DraftInv, ExecutedAsReviewed, Outstanding, Room
<1>11. Preflighted' /\ Marked' /\ Doubted' /\ Certain' /\ AtRestAway'
  BY <1>1, <1>4, <1>7, <1>8 DEF Preflighted, Marked, Doubted, Certain, AtRestAway, Changes
<1> QED BY <1>9, <1>10, <1>11 DEF DraftInv

\* The phone waits for its failed confirmation only before it is answered.
LEMMA NotMarked ==
  ASSUME DraftInv, op.stage # "mutation" \/ op.code # "none" \/ op.kind # "confirm"
  PROVE  "phone" \notin marking
BY DEF DraftInv, Marked

\* A card that is changing the draft is in no doubt of an earlier change.
LEMMA NoDoubt ==
  ASSUME DraftInv, op.kind \in Changes,
         op.stage = "preflight" \/ op.kind # "confirm"
  PROVE  ~past.doubt
BY DEF DraftInv, Doubted, Certain

LEMMA EndsAsItWasInv ==
  ASSUME DraftInv, EndsAsItWas, "phone" \notin marking, ~past.doubt
  PROVE  DraftInv'
<1>1. /\ UNCHANGED <<draft, trip, marking, ran, feed, copy, over, card, stray, past>> /\ op' = NoOp
  BY DEF EndsAsItWas, serverVars, shownVars
<1>2. op' \in Operations /\ op'.kind = "none" /\ op'.stage = "none"
  BY <1>1, NoOpTyped
<1> QED BY <1>1, <1>2
       DEF DraftInv, DraftTypeOK, ExecutedAsReviewed, Preflighted, Outstanding, Marked, Doubted,
           Certain, AtRestAway, Room, Changes

\* Steps of the phone's own operation: the row, the trip and the card stay.
LEMMA OperationInv ==
  ASSUME DraftInv, UNCHANGED <<draft, trip, ran, feed, copy, over, card>>,
         op' \in Operations, stray' \in BOOLEAN, marking' \subseteq {"phone", "other"},
         past' \in [doubt : BOOLEAN, approved : SUBSET (1 .. MaxBodies), told : Nat],
         past.approved \subseteq past'.approved,
         Preflighted', Outstanding', Marked', Doubted', Certain', AtRestAway'
  PROVE  DraftInv'
<1>1. DraftTypeOK'
  BY DEF DraftInv, DraftTypeOK
<1>2. ExecutedAsReviewed' /\ Room'
  BY DEF DraftInv, ExecutedAsReviewed, Room
<1> QED BY <1>1, <1>2 DEF DraftInv

\* An operation begins when the card rests in the list.
LEMMA BeginsInv ==
  ASSUME DraftInv, CheckStatus \/ (\E kind \in Changes : Begin(kind))
  PROVE  DraftInv'
<1>1. PICK kind \in Changes \cup {"check"}, stage \in {"preflight", "status"} :
        /\ op' = [NoOp EXCEPT !.kind = kind, !.stage = stage, !.seen = card.draft]
        /\ kind \in Changes <=> stage = "preflight"
        /\ kind \in Changes => ~card.unknown
        /\ kind = "check" => card.unknown
        /\ card.place = "list" /\ op.kind = "none"
        /\ UNCHANGED <<draft, trip, marking, ran, feed, copy, over, card, stray, past>>
  BY DEF CheckStatus, Begin, serverVars, shownVars, Changes
<1>2. card.draft \in Views
  BY DEF DraftInv, DraftTypeOK, Cards
<1>3. /\ op' \in Operations /\ op'.kind = kind /\ op'.stage = stage /\ op'.view = NoView
  BY <1>1, <1>2, NoOpTyped DEF NoOp, Operations
<1>4. "phone" \notin marking
  BY <1>1, NotMarked
<1>5. Preflighted' /\ Outstanding' /\ Marked'
  BY <1>1, <1>3, <1>4, NoViewTyped DEF Preflighted, Outstanding, Marked, DraftInv
<1>6. past.doubt => card.unknown
  BY <1>1 DEF DraftInv, Doubted
<1>7. Doubted' /\ Certain' /\ AtRestAway'
  BY <1>1, <1>3, <1>6 DEF Doubted, Certain, AtRestAway, Changes
<1> QED BY <1>1, <1>3, <1>5, <1>7, OperationInv DEF DraftInv, DraftTypeOK

LEMMA PreflightReturnsInv ==
  ASSUME DraftInv, PreflightReturns
  PROVE  DraftInv'
<1>1. op.stage = "preflight" /\ op.kind \in Changes /\ "phone" \notin marking /\ ~past.doubt
  BY NotMarked, NoDoubt DEF PreflightReturns, DraftInv, Certain
<1>2. op \in Operations /\ op.view \in Views /\ op.seen \in Views
      /\ past \in [doubt : BOOLEAN, approved : SUBSET (1 .. MaxBodies), told : Nat]
  BY DEF DraftInv, DraftTypeOK, Operations
<1>3. CASE EndsAsItWas
  BY <1>1, <1>3, EndsAsItWasInv
<1>4. CASE Ends(op.view, FALSE, past.doubt)
  BY <1>1, <1>2, <1>4, EndsInv
<1>5. CASE op.view = op.seen /\ May(op.kind, op.view) /\ Sends
  <2>1. /\ op' = [op EXCEPT !.stage = "mutation", !.code = "none", !.view = NoView]
        /\ UNCHANGED <<draft, trip, marking, ran, feed, copy, over, card, stray>>
        /\ past' = IF op.kind = "confirm"
                     THEN [past EXCEPT !.doubt = TRUE,
                                       !.approved = past.approved \cup {op.seen.body}]
                     ELSE past
    BY <1>5 DEF Sends, serverVars, shownVars
  <2>2. op' \in Operations /\ op'.kind = op.kind /\ op'.stage = "mutation"
    BY <1>2, <2>1, NoViewTyped DEF Operations
  <2>3. op.kind = "confirm" => op.view.status = "READY"
    BY <1>5 DEF May
  <2>4. op.kind = "confirm" => Fixed(op.seen.body)
    BY <1>1, <1>5, <2>3 DEF DraftInv, Preflighted
  <2>5. op.kind = "confirm" => op.seen.body \in 1 .. MaxBodies
    BY <2>4 DEF Fixed, DraftInv, DraftTypeOK, DraftRows
  <2>6. /\ past' \in [doubt : BOOLEAN, approved : SUBSET (1 .. MaxBodies), told : Nat]
        /\ past.approved \subseteq past'.approved
        /\ op.kind = "confirm" => op.seen.body \in past'.approved
        /\ op.kind # "confirm" => past'.doubt = past.doubt
    BY <1>2, <2>1, <2>5
  <2>7. Preflighted' /\ Marked' /\ Certain' /\ AtRestAway'
    BY <1>1, <2>1, <2>2 DEF Preflighted, Marked, Certain, AtRestAway, DraftInv
  <2>8. Outstanding'
    BY <2>1, <2>2, <2>4, <2>6 DEF Outstanding, Fixed, DraftInv
  <2>9. Doubted'
    BY <1>1, <2>2, <2>6 DEF Doubted
  <2> QED BY <2>1, <2>2, <2>6, <2>7, <2>8, <2>9, OperationInv DEF DraftInv, DraftTypeOK
<1> QED BY <1>3, <1>4, <1>5 DEF PreflightReturns

LEMMA ConfirmReturnsInv ==
  ASSUME DraftInv, ConfirmReturns
  PROVE  DraftInv'
<1>1. op.kind = "confirm" /\ op.stage = "mutation" /\ op \in Operations
      /\ op.view \in Views /\ op.seen \in Views
  BY DEF ConfirmReturns, DraftInv, DraftTypeOK, Operations
<1>2. "phone" \notin marking
  BY NotMarked DEF ConfirmReturns
<1>3. CASE Ends(IF op.view = NoView THEN op.seen ELSE op.view, FALSE, FALSE)
  BY <1>1, <1>2, <1>3, EndsInv
<1>4. CASE /\ op' = [op EXCEPT !.stage = "status", !.code = "none"]
           /\ UNCHANGED <<serverVars, feed, shownVars, card, stray, past>>
  <2>1. op' \in Operations /\ op'.kind = "confirm" /\ op'.stage = "status"
    BY <1>1, <1>4 DEF Operations
  <2>2. UNCHANGED <<draft, trip, marking, ran, feed, copy, over, card, stray, past>>
    BY <1>4 DEF serverVars, shownVars
  <2>3. Preflighted' /\ Outstanding' /\ Marked' /\ Doubted' /\ Certain' /\ AtRestAway'
    BY <1>1, <1>2, <2>1, <2>2
       DEF Preflighted, Outstanding, Marked, Doubted, Certain, AtRestAway, DraftInv
  <2> QED BY <2>1, <2>2, <2>3, OperationInv DEF DraftInv, DraftTypeOK
<1> QED BY <1>3, <1>4 DEF ConfirmReturns

LEMMA StatusReturnsInv ==
  ASSUME DraftInv, StatusReturns
  PROVE  DraftInv'
<1>1. "phone" \notin marking
  BY NotMarked DEF StatusReturns
<1>2. op.view \in Views /\ op.seen \in Views /\ past.doubt \in BOOLEAN
  BY DEF DraftInv, DraftTypeOK, Operations
<1> QED BY <1>1, <1>2, EndsInv DEF StatusReturns

LEMMA ChangeReturnsInv ==
  ASSUME DraftInv, ChangeReturns
  PROVE  DraftInv'
<1>1. "phone" \notin marking /\ ~past.doubt
  BY NotMarked, NoDoubt DEF ChangeReturns, Changes
<1>2. op.view \in Views /\ past.doubt \in BOOLEAN
  BY DEF DraftInv, DraftTypeOK, Operations
<1>3. CASE EndsAsItWas
  BY <1>1, <1>3, EndsAsItWasInv
<1>4. CASE Ends(op.view, FALSE, past.doubt)
  BY <1>1, <1>2, <1>4, EndsInv
<1> QED BY <1>3, <1>4 DEF ChangeReturns

LEMMA AnswerIsLostInv ==
  ASSUME DraftInv, AnswerIsLost
  PROVE  DraftInv'
<1>1. /\ op' = [op EXCEPT !.code = "unclear", !.view = NoView]
      /\ stray' \in BOOLEAN /\ (stray' => stray \/ Unserved)
      /\ marking' \subseteq {"phone", "other"} /\ "phone" \notin marking'
      /\ UNCHANGED <<draft, trip, ran, feed, copy, over, card, past>> /\ op \in Operations
  BY DEF AnswerIsLost, shownVars, DraftInv, DraftTypeOK, Unserved
<1>2. /\ op' \in Operations /\ op'.kind = op.kind /\ op'.stage = op.stage /\ op'.view = NoView
  BY <1>1, NoViewTyped DEF Operations
<1>3. Preflighted' /\ Outstanding' /\ Marked' /\ Doubted' /\ Certain' /\ AtRestAway'
  BY <1>1, <1>2, NoViewTyped
     DEF Preflighted, Outstanding, Marked, Doubted, Certain, AtRestAway, Unserved, DraftInv
<1> QED BY <1>1, <1>2, <1>3, OperationInv DEF DraftInv, DraftTypeOK

-----------------------------------------------------------------------------
(* What interrupts an operation.                                           *)

LEMMA SessionTyped ==
  ASSUME DraftInv, NEW v \in Views
  PROVE  /\ SessionFor(v) \in Cards /\ SessionFor(v).place = card.place
         /\ card.unknown /\ v.status \notin Final => SessionFor(v).unknown
BY DEF SessionFor, DraftInv, DraftTypeOK, Cards

LEMMA FailClosedTyped ==
  ASSUME DraftInv, NEW c \in Cards
  PROVE  /\ FailClosed(c) \in Cards /\ FailClosed(c).place = c.place
         /\ FailClosed(c).unknown <=> c.unknown \/ op.kind = "confirm"
<1>1. PICK b \in BOOLEAN : b <=> (c.unknown \/ op.kind = "confirm")
  OBVIOUS
<1>2. c.unknown \in BOOLEAN
  BY DEF Cards
<1>3. (c.unknown \/ op.kind = "confirm") = b
  BY <1>1, <1>2
<1>4. FailClosed(c) = [c EXCEPT !.unknown = b]
  BY <1>3 DEF FailClosed
<1>5. [c EXCEPT !.unknown = b] \in Cards /\ [c EXCEPT !.unknown = b].place = c.place
      /\ [c EXCEPT !.unknown = b].unknown = b
  BY DEF Cards
<1> QED BY <1>1, <1>4, <1>5

\* The card changes and its operation, if there was one, is given up.
LEMMA InterruptInv ==
  ASSUME DraftInv, Abort, UNCHANGED <<draft, trip, ran, feed, copy, over>>, card' \in Cards,
         past' \in [doubt : BOOLEAN, approved : SUBSET (1 .. MaxBodies), told : Nat],
         past'.approved = past.approved, past'.doubt => card'.unknown
  PROVE  DraftInv'
<1>1. /\ op' = NoOp /\ stray' \in BOOLEAN /\ (stray' => stray \/ Unserved)
      /\ marking' \subseteq {"phone", "other"} /\ "phone" \notin marking'
  BY DEF Abort, DraftInv, DraftTypeOK, Unserved
<1>2. op' \in Operations /\ op'.kind = "none" /\ op'.stage = "none"
  BY <1>1, NoOpTyped
<1>3. DraftTypeOK'
  BY <1>1, <1>2 DEF DraftInv, DraftTypeOK
<1>4. ExecutedAsReviewed' /\ Room' /\ Outstanding'
  BY <1>1, <1>2 DEF DraftInv, ExecutedAsReviewed, Room, Outstanding, Unserved
<1>5. Preflighted' /\ Marked' /\ Doubted' /\ Certain' /\ AtRestAway'
  BY <1>1, <1>2 DEF Preflighted, Marked, Doubted, Certain, AtRestAway, Changes
<1> QED BY <1>3, <1>4, <1>5 DEF DraftInv

LEMMA HeardTyped ==
  ASSUME DraftInv, NEW v \in Views, past' = Heard(v)
  PROVE  /\ past' \in [doubt : BOOLEAN, approved : SUBSET (1 .. MaxBodies), told : Nat]
         /\ past'.approved = past.approved
         /\ past'.doubt => past.doubt /\ v.status \notin Final
<1>1. past \in [doubt : BOOLEAN, approved : SUBSET (1 .. MaxBodies), told : Nat]
  BY DEF DraftInv, DraftTypeOK
<1>2. PICK b \in BOOLEAN : b = (past.doubt /\ v.status \notin Final)
  BY <1>1
<1>3. past' = [past EXCEPT !.doubt = b]
  BY <1>2 DEF Heard
<1> QED BY <1>1, <1>2, <1>3

LEMMA RendersChangeInv ==
  ASSUME DraftInv, RendersChange
  PROVE  DraftInv'
<1> DEFINE session == SessionFor(Shown)
<1>1. /\ Abort /\ UNCHANGED <<draft, trip, ran, feed, copy, over>> /\ past' = Heard(Shown)
      /\ card' = IF Shown.status \notin Final THEN FailClosed(session) ELSE session
  BY DEF RendersChange, shownVars
<1>2. Shown \in Views
  BY ShownTyped
<1>3. /\ session \in Cards
      /\ card.unknown /\ Shown.status \notin Final => session.unknown
  BY <1>2, SessionTyped
<1>4. /\ FailClosed(session) \in Cards
      /\ FailClosed(session).unknown <=> session.unknown \/ op.kind = "confirm"
  BY <1>3, FailClosedTyped
<1>5. /\ past' \in [doubt : BOOLEAN, approved : SUBSET (1 .. MaxBodies), told : Nat]
      /\ past'.approved = past.approved
      /\ past'.doubt => past.doubt /\ Shown.status \notin Final
  BY <1>1, <1>2, HeardTyped
<1>6. past.doubt => card.unknown \/ op.kind = "confirm"
  BY DEF DraftInv, Doubted
<1> HIDE DEF session
<1>7. card' \in Cards /\ (past'.doubt => card'.unknown)
  BY <1>1, <1>3, <1>4, <1>5, <1>6
<1> QED BY <1>1, <1>5, <1>7, InterruptInv

\* The card leaves the list, or its buttons are locked.
LEMMA LeavesInv ==
  ASSUME DraftInv, Abort, NEW place \in {"list", "locked", "away"},
         card' = FailClosed([card EXCEPT !.place = place]),
         UNCHANGED <<draft, trip, ran, feed, copy, over, past>>
  PROVE  DraftInv'
<1> DEFINE c == [card EXCEPT !.place = place]
<1>1. c \in Cards /\ c.unknown = card.unknown
  BY DEF DraftInv, DraftTypeOK, Cards
<1>2. card' = FailClosed(c)
  OBVIOUS
<1> HIDE DEF c
<1>3. card' \in Cards /\ (card'.unknown <=> card.unknown \/ op.kind = "confirm")
  BY <1>1, <1>2, FailClosedTyped
<1>4. past'.doubt => card'.unknown
  BY <1>3 DEF DraftInv, Doubted
<1> QED BY <1>3, <1>4, InterruptInv DEF DraftInv, DraftTypeOK

\* The place or the session of a card without a change in progress.
LEMMA CardMovesInv ==
  ASSUME DraftInv, UNCHANGED <<draft, trip, marking, ran, feed, copy, over, op, stray>>,
         op.kind \notin Changes, card' \in Cards, card'.place # "away",
         past' \in [doubt : BOOLEAN, approved : SUBSET (1 .. MaxBodies), told : Nat],
         past'.approved = past.approved, past'.doubt => card'.unknown
  PROVE  DraftInv'
<1>1. DraftTypeOK'
  BY DEF DraftInv, DraftTypeOK
<1>2. ExecutedAsReviewed' /\ Room' /\ Outstanding' /\ Preflighted' /\ Marked'
  BY DEF DraftInv, ExecutedAsReviewed, Room, Outstanding, Preflighted, Fixed, Marked
<1>3. Doubted' /\ Certain' /\ AtRestAway'
  BY DEF DraftInv, Doubted, Certain, AtRestAway
<1> QED BY <1>1, <1>2, <1>3 DEF DraftInv

LEMMA BecomesDisabledInv ==
  ASSUME DraftInv, BecomesDisabled
  PROVE  DraftInv'
<1>1. /\ UNCHANGED <<draft, trip, ran, feed, copy, over, past>>
      /\ card' = FailClosed([card EXCEPT !.place = "locked"])
  BY DEF BecomesDisabled, shownVars
<1>2. CASE Abort
  BY <1>1, <1>2, LeavesInv
<1>3. CASE op.kind \notin Changes /\ UNCHANGED <<marking, op, stray>>
  <2>1. [card EXCEPT !.place = "locked"] \in Cards
        /\ [card EXCEPT !.place = "locked"].place = "locked"
        /\ [card EXCEPT !.place = "locked"].unknown = card.unknown
    BY DEF DraftInv, DraftTypeOK, Cards
  <2>2. card' \in Cards /\ card'.place = "locked" /\ (card.unknown => card'.unknown)
    BY <1>1, <2>1, FailClosedTyped
  <2>3. past.doubt => card.unknown
    BY <1>3 DEF DraftInv, Doubted, Changes
  <2> QED BY <1>1, <1>3, <2>2, <2>3, CardMovesInv DEF DraftInv, DraftTypeOK
<1> QED BY <1>2, <1>3 DEF BecomesDisabled

LEMMA MountInv ==
  ASSUME DraftInv, Mount
  PROVE  DraftInv'
<1>1. PICK place \in {"list", "locked"} : card' = [SessionFor(Shown) EXCEPT !.place = place]
  BY DEF Mount
<1>2. /\ UNCHANGED <<draft, trip, marking, ran, feed, copy, over, op, stray>>
      /\ past' = Heard(Shown) /\ card.place = "away"
  BY DEF Mount, serverVars, shownVars
<1>3. Shown \in Views
  BY ShownTyped
<1>4. /\ SessionFor(Shown) \in Cards
      /\ card.unknown /\ Shown.status \notin Final => SessionFor(Shown).unknown
  BY <1>3, SessionTyped
<1>5. /\ card' \in Cards /\ card'.place # "away" /\ card'.unknown = SessionFor(Shown).unknown
  BY <1>1, <1>4 DEF Cards
<1>6. /\ past' \in [doubt : BOOLEAN, approved : SUBSET (1 .. MaxBodies), told : Nat]
      /\ past'.approved = past.approved
      /\ past'.doubt => past.doubt /\ Shown.status \notin Final
  BY <1>2, <1>3, HeardTyped
<1>7. op.kind = "none" /\ op.kind \notin Changes
  BY <1>2 DEF DraftInv, AtRestAway, Changes
<1>8. past.doubt => card.unknown
  BY <1>7 DEF DraftInv, Doubted
<1> QED BY <1>2, <1>4, <1>5, <1>6, <1>7, <1>8, CardMovesInv

LEMMA BecomesEnabledInv ==
  ASSUME DraftInv, BecomesEnabled
  PROVE  DraftInv'
<1>1. /\ UNCHANGED <<draft, trip, marking, ran, feed, copy, over, op, stray, past>>
      /\ card' = [card EXCEPT !.place = "list"]
  BY DEF BecomesEnabled, serverVars, shownVars
<1>2. card' \in Cards /\ card'.place = "list" /\ card'.unknown = card.unknown
  BY <1>1 DEF DraftInv, DraftTypeOK, Cards
<1>3. DraftTypeOK'
  BY <1>1, <1>2 DEF DraftInv, DraftTypeOK
<1> QED BY <1>1, <1>2, <1>3
       DEF DraftInv, ExecutedAsReviewed, Room, Outstanding, Preflighted, Fixed, Marked, Doubted,
           Certain, AtRestAway

LEMMA CardInv ==
  ASSUME DraftInv, Card
  PROVE  DraftInv'
<1>1. CASE Unmount
  BY <1>1, LeavesInv DEF Unmount, shownVars
<1> QED BY <1>1, BeginsInv, PreflightReturnsInv, ConfirmReturnsInv, StatusReturnsInv,
           ChangeReturnsInv, AnswerIsLostInv, RendersChangeInv, MountInv, BecomesDisabledInv,
           BecomesEnabledInv DEF Card

LEMMA DraftInvStep == DraftInv /\ [DraftNext]_draftVars => DraftInv'
<1> SUFFICES ASSUME DraftInv, [DraftNext]_draftVars PROVE DraftInv'
  OBVIOUS
<1>1. CASE TripMoves
  BY <1>1, TripMovesInv
<1>2. CASE Services
  BY <1>2, ServicesShape, ServerStepInv
<1>3. CASE ReadMessage \/ ReadDraft
  BY <1>3, PushInv
<1>4. CASE MessageArrives
  BY <1>4, MessageArrivesInv
<1>5. CASE Card
  BY <1>5, CardInv
<1>6. CASE UNCHANGED draftVars
  <2>1. UNCHANGED <<draft, trip, marking, ran, feed, copy, over, card, op, stray, past>>
    BY <1>6 DEF draftVars, serverVars, phoneVars
  <2>2. DraftTypeOK' /\ Room'
    BY <2>1 DEF DraftInv, DraftTypeOK, Room
  <2> QED BY <2>1, <2>2, AsideInv
<1> QED BY <1>1, <1>2, <1>3, <1>4, <1>5, <1>6 DEF DraftNext

-----------------------------------------------------------------------------
(* What holds in every reachable state.                                    *)

LEMMA DraftInvariant == DraftSpec => []DraftInv
<1>1. DraftInit => DraftInv
  BY DraftInvInit
<1>2. DraftInv /\ [DraftNext]_draftVars => DraftInv'
  BY DraftInvStep
<1> QED BY <1>1, <1>2, PTL DEF DraftSpec

\* The row, its push, the transcript, the card and its operation keep their
\* types, whatever the services answer and however late.
THEOREM DraftTypeCorrect == DraftSpec => []DraftTypeOK
<1>1. DraftInv => DraftTypeOK
  BY DEF DraftInv
<1> QED BY <1>1, DraftInvariant, PTL

\* confirm_action_draft executes a draft at most once, exactly if it ends
\* CONFIRMED, on the version of its object it was built on and in time; and a
\* confirmation of the phone, however late it arrives, executes a payload its
\* user was shown.
THEOREM DraftExecutesAsReviewed == DraftSpec => []ExecutedAsReviewed
<1>1. DraftInv => ExecutedAsReviewed
  BY DEF DraftInv
<1> QED BY <1>1, DraftInvariant, PTL

\* The card never begins a confirmation while it does not know how its last
\* one ended, through recycling, selection mode and newer versions.
THEOREM DraftNeverConfirmsBlind == DraftSpec => []NoBlindConfirm
<1>1. DraftInv => NoBlindConfirm
  <2> SUFFICES ASSUME DraftInv, op.kind = "confirm", op.stage = "preflight" PROVE ~past.doubt
    BY DEF NoBlindConfirm
  <2> QED BY NoDoubt DEF Changes
<1> QED BY <1>1, DraftInvariant, PTL

-----------------------------------------------------------------------------
(* The card settles.  Views are ordered by version and by how final they   *)
(* are; whatever is shown is a view of the row, and no overlay or card     *)
(* falls behind what it covers.                                            *)

Rank(status) == IF status \in Waiting THEN 0 ELSE IF status = "EXPIRED" THEN 1 ELSE 2

\* What view v shows is not newer than what view w shows.
NotAfter(v, w) ==
  v.body < w.body \/ (v.body = w.body /\ Rank(v.status) <= Rank(w.status))

\* A view of the row, of now or of before: a draft past expires_at was shown as
\* expired, and may have failed since.
Known(v) ==
  /\ v.status \in Waiting \cup Final
  /\ v.body <= draft.body
  /\ v.body = draft.body =>
       \/ v.status = draft.status
       \/ v.status \in Waiting /\ draft.status \in Final
       \/ v.status = "EXPIRED" /\ trip.late /\ draft.status \in Waiting \cup {"FAILED"}

Current(v) == v.body = draft.body /\ v.status \in {draft.status, View.status}

\* What is read of the message is read after it changed.
ReadOf(c) == /\ c.seq <= draft.seq /\ Known(c.view)
             /\ c.seq = draft.seq => Current(c.view)

\* Versions arrive in order, and the newest one is owed, being read, sent or there.
FeedInOrder ==
  /\ copy.seq # 0 /\ ReadOf(copy)
  /\ \A i \in 1 .. Len(feed.news) :
       /\ ReadOf(feed.news[i]) /\ copy.seq < feed.news[i].seq
       /\ \A j \in 1 .. Len(feed.news) : i < j => feed.news[i].seq < feed.news[j].seq
       /\ feed.reading # 0 => feed.news[i].seq < feed.reading
       /\ feed.owed => feed.news[i].seq < draft.seq
  /\ feed.reading # 0 => copy.seq < feed.reading /\ feed.reading <= draft.seq
  /\ feed.owed => copy.seq < draft.seq /\ feed.reading < draft.seq
  /\ ~feed.owed => \/ copy.seq = draft.seq \/ feed.reading = draft.seq
                   \/ \E i \in 1 .. Len(feed.news) : feed.news[i].seq = draft.seq

\* An overlay covers versions that are not newer than it.
OverlayInOrder ==
  /\ over.view = NoView => over.prior = {}
  /\ over.view # NoView => /\ Known(over.view) /\ copy.view \in over.prior
                           /\ \A p \in over.prior : NotAfter(p, over.view)

\* The card's draft is what it was rendered from or an answer after that.
CardInOrder ==
  /\ Known(card.src) /\ Known(card.draft) /\ NotAfter(card.src, card.draft)
  /\ op.kind = "none" => op.stage = "none"
  /\ op.kind # "none" =>
       /\ op.seen = card.draft
       /\ op.view # NoView => Known(op.view) /\ NotAfter(card.draft, op.view)
       /\ op.code = "ok" => op.view # NoView

\* A confirmation is published before it is shown.
ToldOnce ==
  /\ past.told <= 1
  /\ Shown.status = "CONFIRMED" \/ card.draft.status = "CONFIRMED" => past.told = 1

SettleInv == FeedInOrder /\ OverlayInOrder /\ CardInOrder /\ ToldOnce

LEMMA RankTyped == \A status : Rank(status) \in {0, 1, 2}
BY DEF Rank

LEMMA NotAfterTransitive ==
  ASSUME NEW u \in Views, NEW v \in Views, NEW w \in Views, NotAfter(u, v), NotAfter(v, w)
  PROVE  NotAfter(u, w)
<1>1. u.body \in Nat /\ v.body \in Nat /\ w.body \in Nat
  BY DraftBounds DEF Views
<1> QED BY <1>1, RankTyped DEF NotAfter

\* The row is what it reads as; and nothing known is newer than what it reads as.
ViewNewest ==
  /\ View \in Views /\ Known(View) /\ Current(View) /\ View # NoView
  /\ \A v \in Views : Known(v) => NotAfter(v, View)

LEMMA ViewIsNewest == DraftInv => ViewNewest
<1> SUFFICES ASSUME draft \in DraftRows, trip \in Trips PROVE ViewNewest
  BY DEF DraftInv, DraftTypeOK
<1>1. /\ View \in Views /\ View.body = draft.body
      /\ View.status = IF draft.status \in Waiting /\ trip.late THEN "EXPIRED" ELSE draft.status
  BY ViewTyped DEF View, ViewOf
<1>2. draft.status \in Waiting \cup Final /\ draft.body \in Nat
  BY DEF DraftRows
<1>3. View.status \in Waiting \cup Final /\ View # NoView
  BY <1>1, <1>2 DEF Final, Waiting, NoView
<1>4. Known(View) /\ Current(View)
  BY <1>1, <1>2, <1>3 DEF Known, Current
<1>5. ASSUME NEW v \in Views, Known(v) PROVE NotAfter(v, View)
  <2>1. v.body \in Nat
    BY DraftBounds DEF Views
  <2>2. v.body = draft.body => Rank(v.status) <= Rank(View.status)
    BY <1>1, <1>2, <1>5 DEF Known, Rank, Waiting, Final
  <2> QED BY <1>1, <1>2, <1>5, <2>1, <2>2 DEF NotAfter, Known
<1> QED BY <1>1, <1>3, <1>4, <1>5 DEF ViewNewest

\* What is not older than the current version is the current version.
LEMMA CurrentSpreads ==
  ASSUME draft \in DraftRows, trip \in Trips, NEW v \in Views, NEW w \in Views,
         Current(v), NotAfter(v, w), Known(w)
  PROVE  Current(w)
<1>1. View.status = IF draft.status \in Waiting /\ trip.late THEN "EXPIRED" ELSE draft.status
  BY DEF View, ViewOf
<1>2. draft.status \in Waiting \cup Final /\ v.body \in Nat /\ w.body \in Nat
  BY DEF DraftRows, Views
<1>3. w.body = draft.body /\ Rank(v.status) <= Rank(w.status)
  BY <1>2, RankTyped DEF Current, NotAfter, Known
<1> QED BY <1>1, <1>2, <1>3 DEF Current, Known, Rank, Waiting, Final

LEMMA SettleInit == DraftInit => SettleInv
<1> SUFFICES ASSUME DraftInit PROVE SettleInv
  OBVIOUS
<1>1. draft \in DraftRows /\ trip \in Trips /\ draft.status \in Waiting /\ draft.seq = 1
  BY DraftInvInit DEF DraftInit, DraftInv, DraftTypeOK
<1>2. View \in Views /\ Known(View) /\ Current(View) /\ NotAfter(View, View)
  BY DraftInvInit, ViewIsNewest DEF ViewNewest
<1>3. View.status # "CONFIRMED"
  BY <1>1 DEF View, ViewOf, Waiting, DraftInit
<1>4. FeedInOrder
  BY <1>1, <1>2 DEF DraftInit, FeedInOrder, ReadOf
<1>5. OverlayInOrder /\ CardInOrder
  BY <1>2 DEF DraftInit, OverlayInOrder, CardInOrder, NoOp
<1>6. ToldOnce
  BY <1>3 DEF DraftInit, ToldOnce, Shown
<1> QED BY <1>4, <1>5, <1>6 DEF SettleInv

-----------------------------------------------------------------------------
(* The services: the row moves on, and who asks is told the row.           *)

RowSteps ==
  \/ UNCHANGED <<draft, feed>>
  \/ /\ draft'.seq = draft.seq + 1 /\ feed' = [feed EXCEPT !.owed = TRUE]
     /\ \/ /\ draft.status \in Waiting /\ draft'.status \in Final /\ draft'.body = draft.body
           /\ trip.late => draft'.status \in {"EXPIRED", "FAILED"}
        \/ draft'.body = draft.body + 1

IsTold ==
  \/ op' = op
  \/ /\ op'.kind = op.kind /\ op'.stage = op.stage /\ op'.seen = op.seen
     /\ op'.view \in {NoView, View'}
     /\ op'.code = "ok" => op'.view = View'

ServiceStep == UNCHANGED <<trip, copy, over, card, past>> /\ RowSteps /\ IsTold

LEMMA AnswerTells ==
  ASSUME DraftInv, NEW who, NEW code, NEW view, Answer(who, code, view),
         view \in {NoView, View'}, code = "ok" => view = View'
  PROVE  IsTold
<1>1. op \in Operations
  BY DEF DraftInv, DraftTypeOK
<1>2. op' = IF who = "phone" THEN [op EXCEPT !.code = code, !.view = view] ELSE op
  BY DEF Answer
<1>3. /\ [op EXCEPT !.code = code, !.view = view].kind = op.kind
      /\ [op EXCEPT !.code = code, !.view = view].stage = op.stage
      /\ [op EXCEPT !.code = code, !.view = view].seen = op.seen
      /\ [op EXCEPT !.code = code, !.view = view].view = view
      /\ [op EXCEPT !.code = code, !.view = view].code = code
  BY <1>1 DEF Operations
<1> QED BY <1>2, <1>3 DEF IsTold

LEMMA SaveSteps ==
  ASSUME DraftInv, NEW d \in DraftRows, Save(d), UNCHANGED trip
  PROVE  /\ draft'.seq = draft.seq + 1 /\ feed' = [feed EXCEPT !.owed = TRUE]
         /\ draft'.status = d.status /\ draft'.body = d.body /\ View' = ViewOf(d)
<1>1. PICK n \in Nat : n = draft.seq + 1
  BY DEF DraftInv, DraftTypeOK, DraftRows
<1>2. draft' = [d EXCEPT !.seq = n] /\ feed' = [feed EXCEPT !.owed = TRUE]
  BY <1>1 DEF Save
<1>3. draft'.seq = n /\ draft'.status = d.status /\ draft'.body = d.body
  BY <1>2 DEF DraftRows
<1> QED BY <1>1, <1>2, <1>3 DEF View, ViewOf

LEMMA RefusalSteps ==
  ASSUME DraftInv, NEW who, Refuse(who, NoView) \/ Refuse(who, View)
                            \/ (Answer(who, "ok", View) /\ UNCHANGED <<draft, feed>>),
         UNCHANGED <<trip, copy, over, card, past>>
  PROVE  ServiceStep
<1>1. UNCHANGED <<draft, feed>> /\ View' = View
  BY DEF Refuse, View, ViewOf
<1>2. IsTold
  BY <1>1, AnswerTells DEF Refuse
<1> QED BY <1>1, <1>2 DEF ServiceStep, RowSteps

\* The row gets a final status.
LEMMA FinalSteps ==
  ASSUME DraftInv, NEW who, NEW code, NEW status \in Final, draft.status \in Waiting,
         trip.late => status \in {"EXPIRED", "FAILED"},
         Save([draft EXCEPT !.status = status]),
         Answer(who, code, ViewOf([draft EXCEPT !.status = status])),
         UNCHANGED <<trip, copy, over, card, past>>
  PROVE  ServiceStep
<1> DEFINE d == [draft EXCEPT !.status = status]
<1>1. d \in DraftRows /\ d.status = status /\ d.body = draft.body
  BY StatusTyped
<1>2. Save(d) /\ Answer(who, code, ViewOf(d))
  OBVIOUS
<1> HIDE DEF d
<1>3. /\ draft'.seq = draft.seq + 1 /\ feed' = [feed EXCEPT !.owed = TRUE]
      /\ draft'.status = status /\ draft'.body = draft.body /\ View' = ViewOf(d)
  BY <1>1, <1>2, SaveSteps
<1>4. IsTold
  BY <1>2, <1>3, AnswerTells
<1> QED BY <1>3, <1>4 DEF ServiceStep, RowSteps

LEMMA ConfirmSteps ==
  ASSUME DraftInv, NEW who, ConfirmActionDraft(who)
  PROVE  ServiceStep
<1>1. UNCHANGED <<trip, copy, over, card, past>>
  BY DEF ConfirmActionDraft
<1>2. CASE draft.status = "CONFIRMED"
  BY <1>1, <1>2, RefusalSteps DEF ConfirmActionDraft
<1>3. CASE draft.status # "CONFIRMED"
  <2>1. CASE Refuse(who, NoView)
    BY <1>1, <2>1, RefusalSteps
  <2>2. CASE draft.status = "READY" /\ Expire(who)
    BY <1>1, <2>2, FinalSteps DEF Expire, Waiting, Final
  <2>3. CASE Fails(who)
    BY <1>1, <2>3 DEF Fails, ServiceStep, RowSteps, IsTold
  <2>4. CASE draft.status = "READY" /\ ~trip.late /\ Execute(who)
    BY <1>1, <2>4, FinalSteps DEF Execute, Waiting, Final
  <2> QED BY <1>3, <2>1, <2>2, <2>3, <2>4 DEF ConfirmActionDraft
<1> QED BY <1>2, <1>3

LEMMA MarkSteps ==
  ASSUME DraftInv, NEW who, MarkActionDraftFailed(who)
  PROVE  ServiceStep
<1>1. UNCHANGED <<trip, copy, over, card, past>>
  BY DEF MarkActionDraftFailed
<1>2. CASE draft.status = "READY" /\ Save([draft EXCEPT !.status = "FAILED"])
           /\ Answer(who, "refused", ViewOf([draft EXCEPT !.status = "FAILED"]))
  BY <1>1, <1>2, FinalSteps DEF Waiting, Final
<1>3. CASE Refuse(who, View) \/ Refuse(who, NoView)
  BY <1>1, <1>3, RefusalSteps
<1> QED BY <1>2, <1>3 DEF MarkActionDraftFailed

LEMMA PatchSteps ==
  ASSUME DraftInv, NEW who, PatchActionDraft(who)
  PROVE  ServiceStep
<1>1. UNCHANGED <<trip, copy, over, card, past>>
  BY DEF PatchActionDraft
<1>2. CASE Refuse(who, NoView) \/ Refuse(who, View)
           \/ (Answer(who, "ok", View) /\ UNCHANGED <<draft, feed>>)
  BY <1>1, <1>2, RefusalSteps
<1>3. CASE draft.status \in Waiting /\ Expire(who)
  BY <1>1, <1>3, FinalSteps DEF Expire, Final
<1>4. ASSUME draft.body < MaxBodies, NEW status \in Waiting,
             Save([draft EXCEPT !.status = status, !.body = @ + 1, !.base = trip.target]),
             Answer(who, "ok",
                    ViewOf([draft EXCEPT !.status = status, !.body = @ + 1, !.base = trip.target]))
      PROVE  ServiceStep
  <2> DEFINE d == [draft EXCEPT !.status = status, !.body = @ + 1, !.base = trip.target]
  <2>1. draft \in DraftRows /\ trip.target \in Nat
    BY DEF DraftInv, DraftTypeOK, Trips
  <2>2. PICK b \in 1 .. MaxBodies : b = draft.body + 1
    BY <1>4, <2>1, DraftBounds DEF DraftRows
  <2>3. d = [draft EXCEPT !.status = status, !.body = b, !.base = trip.target]
    BY <2>2
  <2>4. d \in DraftRows /\ d.body = b
    BY <2>1, <2>3 DEF DraftRows
  <2>5. Save(d) /\ Answer(who, "ok", ViewOf(d))
    BY <1>4
  <2> HIDE DEF d
  <2>6. /\ draft'.seq = draft.seq + 1 /\ feed' = [feed EXCEPT !.owed = TRUE]
        /\ draft'.body = draft.body + 1 /\ View' = ViewOf(d)
    BY <1>1, <2>2, <2>4, <2>5, SaveSteps
  <2>7. IsTold
    BY <2>5, <2>6, AnswerTells
  <2> QED BY <1>1, <2>6, <2>7 DEF ServiceStep, RowSteps
<1> QED BY <1>2, <1>3, <1>4 DEF PatchActionDraft

LEMMA CancelSteps ==
  ASSUME DraftInv, NEW who, CancelActionDraft(who)
  PROVE  ServiceStep
<1>1. UNCHANGED <<trip, copy, over, card, past>>
  BY DEF CancelActionDraft
<1>2. CASE Refuse(who, NoView) \/ (Answer(who, "ok", View) /\ UNCHANGED <<draft, feed>>)
  BY <1>1, <1>2, RefusalSteps
<1>3. CASE draft.status \in Waiting /\ Expire(who)
  BY <1>1, <1>3, FinalSteps DEF Expire, Final
<1>4. CASE draft.status \in Waiting /\ ~trip.late /\ Save([draft EXCEPT !.status = "CANCELLED"])
           /\ Answer(who, "ok", ViewOf([draft EXCEPT !.status = "CANCELLED"]))
  BY <1>1, <1>4, FinalSteps DEF Final
<1> QED BY <1>2, <1>3, <1>4 DEF CancelActionDraft

LEMMA ServicesSteps == DraftInv /\ Services => ServiceStep
<1> SUFFICES ASSUME DraftInv, Services PROVE ServiceStep
  OBVIOUS
<1>1. CASE GetActionDraft
  <2>1. /\ UNCHANGED <<draft, trip, feed, copy, over, card, past>>
        /\ op' = [op EXCEPT !.code = "ok", !.view = View] /\ View' = View
    BY <1>1 DEF GetActionDraft, serverVars, View, ViewOf
  <2>2. /\ op'.kind = op.kind /\ op'.stage = op.stage /\ op'.seen = op.seen
        /\ op'.view = View /\ op'.code = "ok"
    BY <2>1 DEF DraftInv, DraftTypeOK, Operations
  <2> QED BY <2>1, <2>2 DEF ServiceStep, RowSteps, IsTold
<1> QED BY <1>1, ConfirmSteps, PatchSteps, CancelSteps, MarkSteps DEF Services

\* What was known stays known, and what the steps of the row make of it.
LEMMA KnownStays ==
  ASSUME DraftInv, DraftInv', UNCHANGED trip, RowSteps, NEW v \in Views, Known(v)
  PROVE  Known(v)'
<1>1. /\ draft \in DraftRows /\ draft' \in DraftRows /\ v.body \in Nat
      /\ draft.body \in Nat /\ draft'.body \in Nat
  BY DEF DraftInv, DraftTypeOK, DraftRows, Views
<1>2. CASE draft' = draft
  BY <1>2 DEF Known
<1>3. CASE /\ draft.status \in Waiting /\ draft'.status \in Final /\ draft'.body = draft.body
           /\ trip.late => draft'.status \in {"EXPIRED", "FAILED"}
  BY <1>1, <1>3 DEF Known, Waiting, Final
<1>4. CASE draft'.body = draft.body + 1
  BY <1>1, <1>4 DEF Known
<1> QED BY <1>2, <1>3, <1>4 DEF RowSteps

\* The views in circulation, and the numbers of their versions.
LEMMA Circulation ==
  ASSUME DraftInv
  PROVE  /\ draft \in DraftRows /\ trip \in Trips /\ draft.seq \in Nat
         /\ feed.news \in Seq(Copies) /\ feed.reading \in Nat /\ feed.owed \in BOOLEAN
         /\ Len(feed.news) \in Nat
         /\ copy.view \in Views /\ copy.seq \in Nat /\ over.view \in Views
         /\ over.prior \subseteq Views /\ card.src \in Views /\ card.draft \in Views
         /\ op.view \in Views /\ op.seen \in Views /\ past.told \in Nat
         /\ \A i \in 1 .. Len(feed.news) :
               feed.news[i].view \in Views /\ feed.news[i].seq \in Nat
<1>1. feed.news \in Seq(Copies)
  BY DEF DraftInv, DraftTypeOK
<1>2. \A i \in 1 .. Len(feed.news) : feed.news[i] \in Copies
  BY <1>1
<1> QED BY <1>1, <1>2 DEF DraftInv, DraftTypeOK, DraftRows, Copies, Cards, Operations

\* A step of a service.
LEMMA SettleServices ==
  ASSUME DraftInv, DraftInv', SettleInv, ServiceStep
  PROVE  SettleInv'
<1>1. /\ UNCHANGED <<trip, copy, over, card, past>> /\ RowSteps
      /\ \A v \in Views : Known(v) => Known(v)'
  BY KnownStays DEF ServiceStep
<1>2. FeedInOrder'
  <2>1. CASE UNCHANGED <<draft, feed>>
    BY <1>1, <2>1 DEF SettleInv, FeedInOrder, ReadOf, Known, Current, View, ViewOf
  <2>2. CASE draft'.seq = draft.seq + 1 /\ feed' = [feed EXCEPT !.owed = TRUE]
    <3>1. feed'.news = feed.news /\ feed'.reading = feed.reading /\ feed'.owed
      BY <2>2 DEF DraftInv, DraftTypeOK
    <3>2. /\ \A i \in 1 .. Len(feed.news) :
                 Known(feed.news[i].view)' /\ feed.news[i].seq <= draft.seq
          /\ Known(copy.view)' /\ copy.seq <= draft.seq
      BY <1>1, <3>1, Circulation DEF SettleInv, FeedInOrder, ReadOf
    <3>3. feed.reading <= draft.seq
      BY Circulation DEF SettleInv, FeedInOrder
    <3> QED BY <1>1, <2>2, <3>1, <3>2, <3>3, Circulation DEF SettleInv, FeedInOrder, ReadOf
  <2> QED BY <1>1, <2>1, <2>2 DEF RowSteps
<1>3. OverlayInOrder'
  BY <1>1, Circulation DEF SettleInv, OverlayInOrder, NotAfter
<1>4. CardInOrder'
  <2>1. Known(card.src)' /\ Known(card.draft)' /\ NotAfter(card.src, card.draft)'
    BY <1>1, Circulation DEF SettleInv, CardInOrder, NotAfter
  <2>2. CASE op' = op
    <3>1. op.kind # "none" /\ op.view # NoView => Known(op.view)'
      BY <1>1, <2>2, Circulation DEF SettleInv, CardInOrder
    <3> QED BY <1>1, <2>1, <2>2, <3>1 DEF SettleInv, CardInOrder, NotAfter
  <2>3. CASE /\ op'.kind = op.kind /\ op'.stage = op.stage /\ op'.seen = op.seen
             /\ op'.view \in {NoView, View'}
             /\ op'.code = "ok" => op'.view = View'
    <3>1. ViewNewest'
      BY ViewIsNewest, PTL
    <3>2. op'.view # NoView => Known(op.view)' /\ NotAfter(card.draft, op.view)'
      BY <1>1, <2>1, <2>3, <3>1, Circulation DEF ViewNewest, NotAfter, SettleInv, CardInOrder
    <3> QED BY <1>1, <2>1, <2>3, <3>1, <3>2 DEF SettleInv, CardInOrder, ViewNewest
  <2> QED BY <2>2, <2>3 DEF ServiceStep, IsTold
<1>5. ToldOnce'
  BY <1>1 DEF SettleInv, ToldOnce, Shown
<1> QED BY <1>2, <1>3, <1>4, <1>5 DEF SettleInv

-----------------------------------------------------------------------------
(* The trip, the push and the transcript.                                  *)

LEMMA SettleTrip ==
  ASSUME DraftInv, DraftInv', SettleInv, TripMoves
  PROVE  SettleInv'
<1>1. /\ UNCHANGED <<draft, feed, copy, over, card, op, past>>
      /\ trip.late \in BOOLEAN /\ trip'.late \in BOOLEAN /\ (trip.late => trip'.late)
  <2>1. trip \in Trips /\ trip' \in Trips
    BY DEF DraftInv, DraftTypeOK
  <2> QED BY <2>1 DEF TripMoves, phoneVars, Trips
<1>2. \A v : (Known(v) => Known(v)') /\ (Current(v) => Current(v)')
  BY <1>1 DEF Known, Current, View, ViewOf
<1>3. FeedInOrder'
  <2>1. \A i \in 1 .. Len(feed.news) : ReadOf(feed.news[i])'
    BY <1>1, <1>2 DEF SettleInv, FeedInOrder, ReadOf
  <2>2. ReadOf(copy)'
    BY <1>1, <1>2 DEF SettleInv, FeedInOrder, ReadOf
  <2> QED BY <1>1, <2>1, <2>2 DEF SettleInv, FeedInOrder
<1>4. OverlayInOrder' /\ CardInOrder' /\ ToldOnce'
  BY <1>1, <1>2 DEF SettleInv, OverlayInOrder, CardInOrder, ToldOnce, Shown, NotAfter
<1> QED BY <1>3, <1>4 DEF SettleInv

\* The phone takes no part in a step of the push.
LEMMA SettlePush ==
  ASSUME DraftInv, DraftInv', SettleInv, ReadMessage \/ ReadDraft
  PROVE  SettleInv'
<1>1. /\ UNCHANGED <<draft, trip, copy, over, card, op, past>>
      /\ feed \in [owed : BOOLEAN, reading : Nat, news : Seq(Copies)]
  BY DEF ReadMessage, ReadDraft, serverVars, phoneVars, DraftInv, DraftTypeOK
<1>2. /\ \A v : (Known(v) => Known(v)') /\ (Current(v) => Current(v)')
      /\ \A c : ReadOf(c) => ReadOf(c)'
  BY <1>1 DEF Known, Current, View, ViewOf, ReadOf
<1>3. ASSUME ReadMessage PROVE FeedInOrder'
  <2>1. /\ feed'.owed = FALSE /\ feed'.reading = draft.seq /\ feed'.news = feed.news
        /\ feed.owed /\ feed.reading = 0
    BY <1>1, <1>3 DEF ReadMessage
  <2>2. copy.seq < draft.seq /\ \A i \in 1 .. Len(feed.news) : feed.news[i].seq < draft.seq
    BY <2>1 DEF SettleInv, FeedInOrder
  <2>3. \A i \in 1 .. Len(feed.news) : ReadOf(feed.news[i])'
    BY <1>1, <1>2, <2>1 DEF SettleInv, FeedInOrder
  <2>4. ReadOf(copy)'
    BY <1>1, <1>2 DEF SettleInv, FeedInOrder
  <2> QED BY <1>1, <2>1, <2>2, <2>3, <2>4, Circulation DEF SettleInv, FeedInOrder
<1>4. ASSUME ReadDraft PROVE FeedInOrder'
  <2> DEFINE event == [seq |-> feed.reading, view |-> View]
             n == Len(feed.news)
  <2>1. /\ feed.reading # 0 /\ feed'.reading = 0 /\ feed'.owed = feed.owed
        /\ feed'.news = Append(feed.news, event)
    BY <1>1, <1>4 DEF ReadDraft
  <2>2. /\ feed.news \in Seq(Copies) /\ n \in Nat
        /\ Len(feed'.news) = n + 1 /\ feed'.news[n + 1] = event
        /\ \A i \in 1 .. n : feed'.news[i] = feed.news[i]
    BY <1>1, <2>1
  <2>3. event.seq = feed.reading /\ event.view = View
    OBVIOUS
  <2>4. ReadOf(event)
    BY <2>1, <2>3, ViewIsNewest DEF ReadOf, ViewNewest, SettleInv, FeedInOrder
  <2> HIDE DEF event, n
  <2>5. \A i \in 1 .. n + 1 : ReadOf(feed'.news[i])
    BY <2>2, <2>4 DEF SettleInv, FeedInOrder, n
  <2>6. \A i \in 1 .. Len(feed'.news) : ReadOf(feed.news[i])'
    BY <1>2, <2>2, <2>5
  <2>7. /\ \A i \in 1 .. n : /\ copy.seq < feed.news[i].seq /\ feed.news[i].seq < feed.reading
                             /\ feed.owed => feed.news[i].seq < draft.seq
        /\ copy.seq < feed.reading /\ (feed.owed => feed.reading < draft.seq)
    BY <2>1 DEF SettleInv, FeedInOrder, n
  <2>8. \A i \in 1 .. n + 1 : /\ copy.seq < feed'.news[i].seq
                              /\ feed.owed => feed'.news[i].seq < draft.seq
                              /\ \A j \in 1 .. n + 1 : i < j => feed'.news[i].seq < feed'.news[j].seq
    <3>1. \A i \in 1 .. n : \A j \in 1 .. n : i < j => feed.news[i].seq < feed.news[j].seq
      BY DEF SettleInv, FeedInOrder, n
    <3>2. ASSUME NEW i \in 1 .. n + 1
          PROVE  /\ copy.seq < feed'.news[i].seq
                 /\ feed.owed => feed'.news[i].seq < draft.seq
      <4>1. CASE i \in 1 .. n
        <5>1. feed'.news[i] = feed.news[i]
          BY <2>2, <4>1
        <5> QED BY <2>7, <4>1, <5>1
      <4>2. CASE i = n + 1
        <5>1. feed'.news[i].seq = feed.reading
          BY <2>2, <2>3, <4>2
        <5> QED BY <2>7, <5>1
      <4> QED BY <2>2, <3>2, <4>1, <4>2
    <3>3. ASSUME NEW i \in 1 .. n + 1, NEW j \in 1 .. n + 1, i < j
          PROVE  feed'.news[i].seq < feed'.news[j].seq
      <4>1. i \in 1 .. n /\ feed'.news[i] = feed.news[i]
        BY <2>2, <3>3
      <4>2. CASE j \in 1 .. n
        <5>1. feed'.news[j] = feed.news[j]
          BY <2>2, <4>2
        <5> QED BY <3>1, <3>3, <4>1, <4>2, <5>1
      <4>3. CASE j = n + 1
        <5>1. feed'.news[j].seq = feed.reading
          BY <2>2, <2>3, <4>3
        <5> QED BY <2>7, <4>1, <5>1
      <4> QED BY <2>2, <3>3, <4>2, <4>3
    <3> QED BY <3>2, <3>3
  <2>9. ~feed.owed => \/ copy.seq = draft.seq
                      \/ \E i \in 1 .. n + 1 : feed'.news[i].seq = draft.seq
    <3>1. CASE feed.reading = draft.seq
      BY <2>2, <2>3, <3>1
    <3>2. CASE \E i \in 1 .. n : feed.news[i].seq = draft.seq
      BY <2>2, <3>2
    <3> QED BY <3>1, <3>2 DEF SettleInv, FeedInOrder, n
  <2>10. ReadOf(copy)' /\ copy.seq # 0 /\ (feed.owed => copy.seq < draft.seq)
    BY <1>1, <1>2 DEF SettleInv, FeedInOrder
  <2>11. feed.owed => 0 < draft.seq
    BY <2>7, Circulation
  <2> QED BY <1>1, <2>1, <2>2, <2>6, <2>8, <2>9, <2>10, <2>11 DEF FeedInOrder
<1>5. FeedInOrder'
  BY <1>3, <1>4
<1>6. OverlayInOrder' /\ CardInOrder' /\ ToldOnce'
  BY <1>1, <1>2 DEF SettleInv, OverlayInOrder, CardInOrder, ToldOnce, Shown, NotAfter
<1> QED BY <1>5, <1>6 DEF SettleInv

\* A message that arrives is newer than the one it replaces; its overlay stays
\* only if it covers the message.
LEMMA SettleMessage ==
  ASSUME DraftInv, DraftInv', SettleInv, MessageArrives
  PROVE  SettleInv'
<1> DEFINE event == Head(feed.news)
           next == Reconciled(event.view)
           shown == IF next.view = NoView THEN event.view ELSE next.view
<1>1. /\ UNCHANGED <<draft, trip, card, op>> /\ feed.news # <<>>
      /\ feed' = [feed EXCEPT !.news = Tail(@)]
      /\ feed \in [owed : BOOLEAN, reading : Nat, news : Seq(Copies)]
  BY DEF MessageArrives, serverVars, DraftInv, DraftTypeOK
<1>2. /\ feed'.news = Tail(feed.news) /\ feed'.reading = feed.reading /\ feed'.owed = feed.owed
      /\ Len(feed.news) \in Nat /\ Len(feed.news) >= 1 /\ Len(feed'.news) = Len(feed.news) - 1
      /\ event = feed.news[1]
      /\ \A i \in 1 .. Len(feed'.news) : i + 1 \in 1 .. Len(feed.news) /\ feed'.news[i] = feed.news[i + 1]
  BY <1>1
<1>3. /\ event \in Copies /\ ReadOf(event) /\ copy.seq < event.seq
      /\ event.seq \in Nat /\ event.view \in Views
  <2>1. 1 \in 1 .. Len(feed.news)
    BY <1>2
  <2>2. feed.news[1] \in Copies
    BY <1>1, <2>1
  <2>3. ReadOf(feed.news[1]) /\ copy.seq < feed.news[1].seq
    BY <2>1 DEF SettleInv, FeedInOrder
  <2> HIDE DEF event
  <2> QED BY <1>2, <2>2, <2>3 DEF Copies
<1>4. /\ copy' = event /\ over' = next
      /\ past' = [past EXCEPT !.told = past.told + Publishes(Shown, shown)]
  BY <1>3, Circulation DEF MessageArrives
<1>5. /\ \A v : (Known(v) => Known(v)') /\ (Current(v) => Current(v)')
      /\ \A c : ReadOf(c) => ReadOf(c)'
  BY <1>1 DEF Known, Current, View, ViewOf, ReadOf
<1>6. FeedInOrder'
  <2> HIDE DEF event
  <2>1. \A i \in 1 .. Len(feed'.news) :
          /\ ReadOf(feed'.news[i]) /\ event.seq < feed'.news[i].seq
          /\ \A j \in 1 .. Len(feed'.news) : i < j => feed'.news[i].seq < feed'.news[j].seq
          /\ feed.reading # 0 => feed'.news[i].seq < feed.reading
          /\ feed.owed => feed'.news[i].seq < draft.seq
    <3> SUFFICES ASSUME NEW i \in 1 .. Len(feed'.news)
                 PROVE  /\ ReadOf(feed.news[i + 1]) /\ event.seq < feed.news[i + 1].seq
                        /\ \A j \in 1 .. Len(feed'.news) :
                              i < j => feed.news[i + 1].seq < feed.news[j + 1].seq
                        /\ feed.reading # 0 => feed.news[i + 1].seq < feed.reading
                        /\ feed.owed => feed.news[i + 1].seq < draft.seq
      BY <1>2
    <3>1. 1 \in 1 .. Len(feed.news) /\ i + 1 \in 1 .. Len(feed.news) /\ 1 < i + 1
          /\ \A j \in 1 .. Len(feed'.news) : i < j => i + 1 < j + 1 /\ j + 1 \in 1 .. Len(feed.news)
      BY <1>2
    <3> QED BY <1>2, <3>1 DEF SettleInv, FeedInOrder
  <2>2. \A i \in 1 .. Len(feed'.news) : ReadOf(feed.news[i])'
    BY <1>5, <2>1
  <2>3. ReadOf(copy)' /\ event.seq # 0
    BY <1>3, <1>4, <1>5, Circulation
  <2>4. /\ feed.reading # 0 => event.seq < feed.reading
        /\ feed.owed => event.seq < draft.seq /\ feed.reading < draft.seq
        /\ feed.reading # 0 => feed.reading <= draft.seq
    BY <1>2 DEF SettleInv, FeedInOrder
  <2>5. ~feed.owed => \/ event.seq = draft.seq \/ feed.reading = draft.seq
                      \/ \E i \in 1 .. Len(feed'.news) : feed'.news[i].seq = draft.seq
    <3> SUFFICES ASSUME ~feed.owed, feed.reading # draft.seq, event.seq # draft.seq
                 PROVE  \E i \in 1 .. Len(feed'.news) : feed'.news[i].seq = draft.seq
      OBVIOUS
    <3>1. copy.seq # draft.seq
      BY <1>3, Circulation DEF ReadOf
    <3>2. PICK i \in 1 .. Len(feed.news) : feed.news[i].seq = draft.seq
      BY <3>1 DEF SettleInv, FeedInOrder
    <3>3. i # 1
      BY <1>2, <3>2
    <3>4. i - 1 \in 1 .. Len(feed'.news) /\ i - 1 + 1 = i
      BY <1>2, <3>3
    <3>5. feed'.news[i - 1] = feed.news[i]
      BY <1>2, <3>4
    <3> QED BY <3>2, <3>4, <3>5
  <2> QED BY <1>1, <1>2, <1>4, <2>1, <2>2, <2>3, <2>4, <2>5 DEF FeedInOrder
<1>7. OverlayInOrder'
  <2>1. CASE event.view # over.view /\ event.view \in over.prior
    <3>1. over' = over /\ over.view # NoView
      BY <1>4, <2>1 DEF Reconciled, SettleInv, OverlayInOrder
    <3> QED BY <1>4, <1>5, <2>1, <3>1 DEF SettleInv, OverlayInOrder, NotAfter
  <2>2. CASE ~(event.view # over.view /\ event.view \in over.prior)
    BY <1>4, <2>2 DEF Reconciled, OverlayInOrder
  <2> QED BY <2>1, <2>2
<1>8. CardInOrder'
  BY <1>1, <1>5 DEF SettleInv, CardInOrder, NotAfter
<1>9. ToldOnce'
  <2>1. Shown' = shown
    BY <1>4 DEF Shown
  <2>2. past'.told = past.told + Publishes(Shown, shown)
    BY <1>4 DEF DraftInv, DraftTypeOK
  <2> HIDE DEF shown
  <2> QED BY <1>1, <2>1, <2>2, Circulation DEF SettleInv, ToldOnce, Publishes
<1> QED BY <1>6, <1>7, <1>8, <1>9 DEF SettleInv

-----------------------------------------------------------------------------
(* The card.                                                               *)

\* What the card leaves alone stays in order.
CardStep == DraftInv /\ SettleInv /\ UNCHANGED <<draft, trip, feed, copy>>

LEMMA FeedStays ==
  ASSUME CardStep
  PROVE  FeedInOrder' /\ \A v : Known(v) => Known(v)'
<1>1. UNCHANGED <<draft, trip, feed, copy>> /\ FeedInOrder
  BY DEF CardStep, SettleInv
<1>2. \A v : (Known(v) => Known(v)') /\ (Current(v) => Current(v)')
  BY <1>1 DEF Known, Current, View, ViewOf
<1>3. \A c : ReadOf(c) => ReadOf(c)'
  BY <1>1, <1>2 DEF ReadOf
<1>4. ReadOf(copy)' /\ \A i \in 1 .. Len(feed.news) : ReadOf(feed.news[i])'
  BY <1>1, <1>3 DEF FeedInOrder
<1> QED BY <1>1, <1>2, <1>4 DEF FeedInOrder

LEMMA NotAfterItself == ASSUME NEW v \in Views PROVE NotAfter(v, v)
<1>1. v.body \in Nat
  BY DraftBounds DEF Views
<1> QED BY <1>1, RankTyped DEF NotAfter

\* What the transcript shows is a view of the row.
LEMMA ShownKnown == DraftInv /\ SettleInv => Shown \in Views /\ Known(Shown)
BY Circulation DEF SettleInv, FeedInOrder, ReadOf, OverlayInOrder, Shown

\* An operation ends with an answer; the transcript may take it over.
LEMMA SettleEnds ==
  ASSUME CardStep, NEW v \in Views, NEW unknown, NEW doubt, Ends(v, unknown, doubt),
         op.kind # "none", Known(v), NotAfter(card.draft, v)
  PROVE  SettleInv'
<1>1. DraftInv /\ SettleInv /\ FeedInOrder' /\ \A w : Known(w) => Known(w)'
  BY FeedStays DEF CardStep
<1>2. /\ card.src \in Views /\ card.draft \in Views /\ past.told \in Nat
      /\ over.view \in Views /\ over.prior \subseteq Views
  BY <1>1, Circulation
<1>3. card'.src = card.src /\ card'.draft = v /\ op' = NoOp /\ copy' = copy
  BY <1>1 DEF Ends, DraftInv, DraftTypeOK, Cards
<1>4. past'.told = past.told + Publishes(op.seen, v)
  BY <1>1 DEF Ends, DraftInv, DraftTypeOK
<1>5. /\ Known(card.src) /\ NotAfter(card.src, card.draft) /\ op.seen = card.draft
      /\ NotAfter(card.src, v) /\ v # NoView
  BY <1>1, <1>2, NotAfterTransitive, NoViewTyped DEF SettleInv, CardInOrder, Known, Waiting, Final
<1>6. ASSUME Shown = card.src PROVE OverlayInOrder' /\ Shown' = v
  <2>1. over' = [view |-> v, prior |-> over.prior \cup {card.src}]
    BY <1>6 DEF Ends, Snapshot
  <2>2. over'.view = v /\ over'.prior = over.prior \cup {card.src}
    BY <2>1
  <2>3. copy.view \in over.prior \cup {card.src}
    BY <1>1, <1>6 DEF Shown, SettleInv, OverlayInOrder
  <2>4. \A p \in over.prior : NotAfter(p, card.src)
    BY <1>1, <1>6 DEF Shown, SettleInv, OverlayInOrder
  <2>5. \A p \in over.prior \cup {card.src} : NotAfter(p, v)
    BY <1>2, <1>5, <2>4, NotAfterTransitive
  <2>6. \A p \in over'.prior : NotAfter(p, over.view)'
    BY <2>2, <2>5 DEF NotAfter
  <2>7. Known(over.view)'
    BY <1>1, <2>2 DEF Known
  <2> QED BY <1>3, <1>5, <2>2, <2>3, <2>6, <2>7 DEF OverlayInOrder, Shown
<1>7. ASSUME Shown # card.src PROVE OverlayInOrder' /\ Shown' = Shown
  <2>1. over' = over
    BY <1>7 DEF Ends, Snapshot
  <2>2. over.view # NoView => Known(over.view)'
    BY <1>1, <2>1 DEF SettleInv, OverlayInOrder, Known
  <2> QED BY <1>1, <1>3, <2>1, <2>2 DEF SettleInv, OverlayInOrder, NotAfter, Shown
<1>8. OverlayInOrder' /\ Shown' \in {Shown, v}
  BY <1>6, <1>7
<1>9. CardInOrder'
  BY <1>1, <1>3, <1>5 DEF CardInOrder, NoOp, NotAfter
<1>10. ToldOnce'
  BY <1>1, <1>2, <1>3, <1>4, <1>5, <1>8 DEF SettleInv, ToldOnce, Publishes
<1> QED BY <1>1, <1>8, <1>9, <1>10 DEF SettleInv

\* A step that leaves the transcript alone.
LEMMA SettleAside ==
  ASSUME CardStep, UNCHANGED over, past'.told = past.told,
         Known(card'.src), Known(card'.draft), NotAfter(card'.src, card'.draft),
         card'.draft \in {card.draft, Shown},
         op'.kind = "none" => op'.stage = "none",
         op'.kind # "none" =>
           /\ op'.seen = card'.draft
           /\ op'.view # NoView => Known(op'.view) /\ NotAfter(card'.draft, op'.view)
           /\ op'.code = "ok" => op'.view # NoView
  PROVE  SettleInv'
<1>1. SettleInv /\ UNCHANGED <<draft, trip, feed, copy, over>> /\ FeedInOrder'
  BY FeedStays DEF CardStep
<1>2. \A v : Known(v) => Known(v)'
  BY FeedStays
<1>3. OverlayInOrder'
  BY <1>1, <1>2 DEF SettleInv, OverlayInOrder, NotAfter
<1>4. /\ Known(card.src)' /\ Known(card.draft)'
      /\ op'.kind # "none" /\ op'.view # NoView => Known(op.view)'
  BY <1>1 DEF Known
<1>5. CardInOrder'
  BY <1>4 DEF CardInOrder, NotAfter
<1>6. ToldOnce'
  BY <1>1 DEF SettleInv, ToldOnce, Shown
<1> QED BY <1>1, <1>3, <1>5, <1>6 DEF SettleInv

\* The operation moves on or is given up; the card's drafts stay.
LEMMA SettleOperation ==
  ASSUME CardStep, UNCHANGED over, past'.told = past.told,
         card'.src = card.src, card'.draft = card.draft,
         \/ op'.kind = "none" /\ op'.stage = "none"
         \/ op.kind = "none" /\ op'.kind # "none" /\ op'.seen = card.draft
            /\ op'.view = NoView /\ op'.code = "none"
         \/ op.kind # "none" /\ op'.kind = op.kind /\ op'.seen = op.seen
            /\ op'.view \in {NoView, op.view} /\ (op'.code = "ok" => op' = op)
         \/ op' = op
  PROVE  SettleInv'
<1>1. /\ Known(card'.src) /\ Known(card'.draft) /\ NotAfter(card'.src, card'.draft)
      /\ card'.draft \in {card.draft, Shown}
  BY DEF CardStep, SettleInv, CardInOrder
<1>2. op'.kind = "none" => op'.stage = "none"
  BY DEF CardStep, SettleInv, CardInOrder
<1>3. op'.kind # "none" =>
        /\ op'.seen = card'.draft
        /\ op'.view # NoView => Known(op'.view) /\ NotAfter(card'.draft, op'.view)
        /\ op'.code = "ok" => op'.view # NoView
  BY DEF CardStep, SettleInv, CardInOrder
<1> QED BY <1>1, <1>2, <1>3, SettleAside

LEMMA EndsStep ==
  ASSUME DraftInv, SettleInv, NEW v, NEW unknown, NEW doubt, Ends(v, unknown, doubt)
  PROVE  CardStep
BY DEF Ends, CardStep, serverVars

\* An operation that ends ends with what it saw or what it was told.
LEMMA SettleAnswered ==
  ASSUME DraftInv, SettleInv, op.kind # "none", NEW v, NEW unknown, NEW doubt,
         Ends(v, unknown, doubt), v = op.seen \/ (v = op.view /\ op.view # NoView)
  PROVE  SettleInv'
<1>1. CardStep /\ op.seen \in Views /\ op.view \in Views /\ card.draft \in Views
  BY EndsStep, Circulation
<1>2. v \in Views /\ Known(v) /\ NotAfter(card.draft, v)
  BY <1>1, NotAfterItself DEF SettleInv, CardInOrder
<1> QED BY <1>1, <1>2, SettleEnds

LEMMA SettleGivesUp == ASSUME DraftInv, SettleInv, EndsAsItWas PROVE SettleInv'
<1>1. /\ UNCHANGED <<draft, trip, feed, copy, over, card, past>>
      /\ op'.kind = "none" /\ op'.stage = "none"
  BY DEF EndsAsItWas, NoOp, serverVars, shownVars
<1> QED BY <1>1, SettleOperation DEF CardStep

LEMMA SettleBegins ==
  ASSUME DraftInv, SettleInv, (\E kind \in Changes : Begin(kind)) \/ CheckStatus
  PROVE  SettleInv'
<1>1. PICK kind \in Changes \cup {"check"}, stage \in {"preflight", "status"} :
        op' = [NoOp EXCEPT !.kind = kind, !.stage = stage, !.seen = card.draft]
  BY DEF Begin, CheckStatus
<1>2. op'.kind = kind /\ op'.seen = card.draft /\ op'.view = NoView /\ op'.code = "none"
  BY <1>1 DEF NoOp
<1>3. op.kind = "none" /\ UNCHANGED <<draft, trip, feed, copy, over, card, past>>
  BY DEF Begin, CheckStatus, serverVars, shownVars
<1>4. kind # "none"
  BY DEF Changes
<1> QED BY <1>1, <1>2, <1>3, <1>4, SettleOperation DEF CardStep

LEMMA SettleReturns ==
  ASSUME DraftInv, SettleInv,
         PreflightReturns \/ ConfirmReturns \/ StatusReturns \/ ChangeReturns
  PROVE  SettleInv'
<1>1. op.kind # "none"
  BY DEF PreflightReturns, ConfirmReturns, StatusReturns, ChangeReturns, SettleInv, CardInOrder
<1>2. CASE PreflightReturns
  <2>1. CASE EndsAsItWas
    BY <2>1, SettleGivesUp
  <2>2. CASE Sends
    <3>1. UNCHANGED <<draft, trip, feed, copy, over, card>> /\ past'.told = past.told
      BY <2>2 DEF Sends, serverVars, shownVars, DraftInv, DraftTypeOK
    <3>2. /\ op'.kind = op.kind /\ op'.seen = op.seen /\ op'.view = NoView
          /\ op'.code = "none"
      BY <2>2 DEF Sends, DraftInv, DraftTypeOK, Operations
    <3> QED BY <1>1, <3>1, <3>2, SettleOperation DEF CardStep
  <2>3. CASE op.code = "ok" /\ Ends(op.view, FALSE, past.doubt)
    <3>1. op.view # NoView
      BY <1>1, <2>3 DEF SettleInv, CardInOrder
    <3> QED BY <1>1, <2>3, <3>1, SettleAnswered
  <2> QED BY <1>2, <2>1, <2>2, <2>3 DEF PreflightReturns
<1>3. CASE ConfirmReturns
  <2>1. CASE Ends(IF op.view = NoView THEN op.seen ELSE op.view, FALSE, FALSE)
    BY <1>1, <2>1, SettleAnswered
  <2>2. CASE /\ op' = [op EXCEPT !.stage = "status", !.code = "none"]
             /\ UNCHANGED <<serverVars, feed, shownVars, card, stray, past>>
    <3>1. /\ op'.kind = op.kind /\ op'.seen = op.seen /\ op'.view = op.view
          /\ op'.code = "none"
      BY <2>2 DEF DraftInv, DraftTypeOK, Operations
    <3>2. UNCHANGED <<draft, trip, feed, copy, over, card, past>>
      BY <2>2 DEF serverVars, shownVars
    <3> QED BY <1>1, <3>1, <3>2, SettleOperation DEF CardStep
  <2> QED BY <1>3, <2>1, <2>2 DEF ConfirmReturns
<1>4. CASE StatusReturns
  <2>1. CASE op.code = "ok" /\ Ends(op.view, FALSE, FALSE)
    <3>1. op.view # NoView
      BY <1>1, <2>1 DEF SettleInv, CardInOrder
    <3> QED BY <1>1, <2>1, <3>1, SettleAnswered
  <2>2. CASE Ends(op.seen, TRUE, past.doubt)
    BY <1>1, <2>2, SettleAnswered
  <2> QED BY <1>4, <2>1, <2>2 DEF StatusReturns
<1>5. CASE ChangeReturns
  <2>1. CASE EndsAsItWas
    BY <2>1, SettleGivesUp
  <2>2. CASE op.view # NoView /\ Ends(op.view, FALSE, past.doubt)
    BY <1>1, <2>2, SettleAnswered
  <2> QED BY <1>5, <2>1, <2>2 DEF ChangeReturns
<1> QED BY <1>2, <1>3, <1>4, <1>5

LEMMA SettleLost == ASSUME DraftInv, SettleInv, AnswerIsLost PROVE SettleInv'
<1>1. UNCHANGED <<draft, trip, feed, copy, over, card, past>> /\ op.kind # "none"
  BY DEF AnswerIsLost, shownVars
<1>2. /\ op'.kind = op.kind /\ op'.seen = op.seen /\ op'.view = NoView
      /\ op'.code = "unclear"
  BY DEF AnswerIsLost, DraftInv, DraftTypeOK, Operations
<1> QED BY <1>1, <1>2, SettleOperation DEF CardStep

\* The card takes over what is shown, or keeps a draft that is not older.
LEMMA SessionInOrder ==
  ASSUME DraftInv, SettleInv
  PROVE  /\ SessionFor(Shown).src = Shown
         /\ SessionFor(Shown).draft \in {card.draft, Shown}
         /\ Known(SessionFor(Shown).draft) /\ NotAfter(Shown, SessionFor(Shown).draft)
<1>1. card \in Cards /\ Shown \in Views /\ Known(Shown) /\ NotAfter(Shown, Shown)
  BY ShownKnown, NotAfterItself DEF DraftInv, DraftTypeOK
<1>2. Known(card.draft) /\ NotAfter(card.src, card.draft)
  BY DEF SettleInv, CardInOrder
<1>3. /\ SessionFor(Shown).src = Shown
      /\ \/ SessionFor(Shown).draft = Shown
         \/ SessionFor(Shown).draft = card.draft /\ card.src = Shown
  BY <1>1 DEF SessionFor, Cards
<1> QED BY <1>1, <1>2, <1>3

\* Place and doubt aside, a card is its drafts.
LEMMA FailClosedKeeps ==
  ASSUME NEW c \in Cards, NEW place \in {"list", "locked", "away"}
  PROVE  /\ FailClosed(c).src = c.src /\ FailClosed(c).draft = c.draft
         /\ [c EXCEPT !.place = place].src = c.src
         /\ [c EXCEPT !.place = place].draft = c.draft
         /\ [c EXCEPT !.place = place] \in Cards
BY DEF FailClosed, Cards

LEMMA SettleRenders ==
  ASSUME DraftInv, SettleInv, RendersChange \/ Mount
  PROVE  SettleInv'
<1>1. SessionFor(Shown) \in Cards
  BY SessionTyped, ShownKnown
<1>2. card'.src = SessionFor(Shown).src /\ card'.draft = SessionFor(Shown).draft
  <2>1. \/ card' = FailClosed(SessionFor(Shown)) \/ card' = SessionFor(Shown)
        \/ \E place \in {"list", "locked"} : card' = [SessionFor(Shown) EXCEPT !.place = place]
    BY DEF RendersChange, Mount
  <2>2. CASE card' = FailClosed(SessionFor(Shown)) \/ card' = SessionFor(Shown)
    BY <1>1, <2>2, FailClosedKeeps
  <2>3. ASSUME NEW place \in {"list", "locked"}, card' = [SessionFor(Shown) EXCEPT !.place = place]
        PROVE  card'.src = SessionFor(Shown).src /\ card'.draft = SessionFor(Shown).draft
    BY <1>1, <2>3, FailClosedKeeps
  <2> QED BY <2>1, <2>2, <2>3
<1>3. UNCHANGED <<draft, trip, feed, copy, over>> /\ past'.told = past.told
  <2>1. UNCHANGED <<draft, trip, feed, copy, over>> /\ past' = Heard(Shown)
    BY DEF RendersChange, Mount, serverVars, shownVars
  <2>2. Heard(Shown).told = past.told
    BY DEF Heard, DraftInv, DraftTypeOK
  <2> QED BY <2>1, <2>2
<1>4. op'.kind = "none" /\ op'.stage = "none"
  <2>1. CASE RendersChange
    BY <2>1 DEF RendersChange, Abort, NoOp
  <2>2. CASE Mount
    BY <2>2 DEF Mount, DraftInv, AtRestAway, SettleInv, CardInOrder
  <2> QED BY <2>1, <2>2
<1>5. /\ Known(card'.src) /\ Known(card'.draft) /\ NotAfter(card'.src, card'.draft)
      /\ card'.draft \in {card.draft, Shown}
  BY <1>2, SessionInOrder, ShownKnown
<1> QED BY <1>3, <1>4, <1>5, SettleAside DEF CardStep

LEMMA SettleMoves ==
  ASSUME DraftInv, SettleInv, Unmount \/ BecomesDisabled \/ BecomesEnabled
  PROVE  SettleInv'
<1>1. UNCHANGED <<draft, trip, feed, copy, over, past>>
  BY DEF Unmount, BecomesDisabled, BecomesEnabled, serverVars, shownVars
<1>2. card'.src = card.src /\ card'.draft = card.draft
  <2>1. card \in Cards
    BY DEF DraftInv, DraftTypeOK
  <2> QED BY <2>1, FailClosedKeeps DEF Unmount, BecomesDisabled, BecomesEnabled
<1>3. (op'.kind = "none" /\ op'.stage = "none") \/ op' = op
  BY DEF Unmount, BecomesDisabled, BecomesEnabled, Abort, NoOp
<1> QED BY <1>1, <1>2, <1>3, SettleOperation DEF CardStep

LEMMA SettleStep == DraftInv /\ DraftInv' /\ SettleInv /\ [DraftNext]_draftVars => SettleInv'
<1> SUFFICES ASSUME DraftInv, DraftInv', SettleInv, [DraftNext]_draftVars PROVE SettleInv'
  OBVIOUS
<1>1. CASE TripMoves
  BY <1>1, SettleTrip
<1>2. CASE Services
  BY <1>2, ServicesSteps, SettleServices
<1>3. CASE ReadMessage \/ ReadDraft
  BY <1>3, SettlePush
<1>4. CASE MessageArrives
  BY <1>4, SettleMessage
<1>5. CASE Card
  BY <1>5, SettleBegins, SettleReturns, SettleLost, SettleRenders, SettleMoves DEF Card
<1>6. CASE UNCHANGED draftVars
  <2>1. UNCHANGED <<draft, trip, feed, copy, over, card, op, past>>
    BY <1>6 DEF draftVars, serverVars, phoneVars
  <2> QED BY <2>1, SettleOperation DEF CardStep
<1> QED BY <1>1, <1>2, <1>3, <1>4, <1>5, <1>6 DEF DraftNext

\* When everything pushed has arrived and is rendered, the newest version is the
\* one the phone has; what is shown and the card are not older than it, so they
\* are it.  A confirmation the phone learnt of was published once.
THEOREM CardAlwaysSettles == DraftSpec => []CardSettles
<1>1. DraftInit => SettleInv
  BY SettleInit
<1>2. DraftInv /\ DraftInv' /\ SettleInv /\ [DraftNext]_draftVars => SettleInv'
  BY SettleStep
<1>3. DraftInv /\ SettleInv => CardSettles
  <2> SUFFICES ASSUME DraftInv, SettleInv PROVE CardSettles
    OBVIOUS
  <2>1. past.told <= 1 /\ (Shown.status = "CONFIRMED" => past.told = 1)
    BY DEF SettleInv, ToldOnce
  <2>2. ASSUME Quiet PROVE Current(Shown) /\ Current(card.draft)
    <3>1. Current(copy.view)
      BY <2>2, Circulation DEF Quiet, SettleInv, FeedInOrder, ReadOf
    <3>2. /\ draft \in DraftRows /\ trip \in Trips /\ copy.view \in Views
          /\ Shown \in Views /\ Known(Shown) /\ card.draft \in Views
      BY Circulation, ShownKnown
    <3>3. NotAfter(copy.view, Shown)
      BY <3>2, NotAfterItself DEF Shown, SettleInv, OverlayInOrder
    <3>4. Current(Shown)
      BY <3>1, <3>2, <3>3, CurrentSpreads
    <3>5. Known(card.draft) /\ NotAfter(Shown, card.draft)
      BY <2>2 DEF Quiet, SettleInv, CardInOrder
    <3> QED BY <3>2, <3>4, <3>5, CurrentSpreads
  <2> QED BY <2>1, <2>2 DEF CardSettles, Current
<1> QED BY <1>1, <1>2, <1>3, DraftInvariant, PTL DEF DraftSpec

(***************************************************************************)
(* Friends.                                                                *)
(***************************************************************************)

USE FriendsAssumption

----------------------------------------------------------------------------
(* Locks *)

\* The statement after each one, read off Order.
LEMMA OrderValues ==
    /\ Order["send"]["low"] = "high" /\ Order["send"]["high"] = "strangers"
    /\ Order["send"]["strangers"] = "unasked" /\ Order["send"]["unasked"] = "sender"
    /\ Order["send"]["sender"] = "receiver" /\ Order["send"]["receiver"] = "write"
    /\ Order["accept"]["row"] = "low" /\ Order["accept"]["low"] = "high"
    /\ Order["accept"]["high"] = "sender" /\ Order["accept"]["sender"] = "receiver"
    /\ Order["accept"]["receiver"] = "strangers" /\ Order["accept"]["strangers"] = "write"
BY DEF Order

LEMMA LocksInitially == FriendsInit => LockInv
<1> SUFFICES ASSUME FriendsInit PROVE LockInv
    OBVIOUS
<1>1. NoTx \in TxShapes /\ Unsent \in RequestShapes
    BY DEF TxShapes, Tx, NoTx, RequestShapes, Request, Unsent
<1>2. TxShapes \subseteq Tx /\ RequestShapes \subseteq Request
    BY DEF TxShapes, RequestShapes
<1> QED BY <1>1, <1>2 DEF FriendsInit, LockInv, FriendsTypeOK, LocksApart, RowsKnown, NoTx, HoldsRow

\* What is known of a transaction under way.
LEMMA TxUnderWay ==
    ASSUME LockInv, NEW w \in Servers, tx[w].pc # "done"
    PROVE  /\ tx[w] \in Tx /\ tx[w].op \in {"send", "accept"}
           /\ tx[w].op = "send" => tx[w].pc \in {"low", "high"} \cup AfterPair
           /\ tx[w].op = "accept" =>
                 tx[w].pc \in {"row", "low", "high"} \cup (AfterPair \ {"unasked"})
           /\ tx[w].from # tx[w].to /\ tx[w].from \in Users /\ tx[w].to \in Users
           /\ tx[w].req \in Ids
           /\ tx[w].held = IF tx[w].pc \in {"row", "low"} THEN {}
                           ELSE IF tx[w].pc = "high" THEN {LowKey(tx[w])} ELSE Pair(tx[w])
<1>1. tx[w] \in TxShapes /\ tx[w] # NoTx
    BY DEF LockInv, NoTx
<1> QED BY <1>1 DEF TxShapes, Tx, Pair

LEMMA RequestKnown ==
    ASSUME LockInv, NEW w \in Servers, tx[w].op \in {"send", "accept"}
    PROVE  tx[w].req \in Ids
<1>1. tx[w] \in TxShapes /\ tx[w] # NoTx
    BY DEF LockInv, NoTx
<1> QED BY <1>1 DEF TxShapes, Tx

\* A transaction takes one step, and no row is written: what is left to show is
\* that what it takes is free.
LEMMA LocksMove ==
    ASSUME LockInv, NEW w \in Servers, NEW t \in TxShapes,
           tx' = [tx EXCEPT ![w] = t], UNCHANGED <<requests, friendships>>,
           \A v \in Servers \ {w} : t.held \cap tx[v].held = {},
           t.op = "send" =>
               /\ requests[t.req] = Unsent
               /\ \A v \in Servers \ {w} : tx[v].op = "send" => tx[v].req # t.req,
           t.op = "accept" =>
               /\ requests[t.req] # Unsent
               /\ t.from = requests[t.req].from /\ t.to = requests[t.req].to
               /\ t.pc # "row" => /\ requests[t.req].status = "pending"
                                  /\ \A v \in Servers \ {w} : ~HoldsRow(v, t.req)
    PROVE  LockInv'
<1>1. tx \in [Servers -> TxShapes] /\ requests \in [Ids -> RequestShapes]
    BY DEF LockInv
<1>2. tx' \in [Servers -> TxShapes] /\ tx'[w] = t /\ \A v \in Servers \ {w} : tx'[v] = tx[v]
    BY <1>1
<1>3. FriendsTypeOK'
    BY <1>2 DEF LockInv, FriendsTypeOK, TxShapes
<1>4. LocksApart'
    BY <1>2 DEF LockInv, LocksApart, HoldsRow
<1>5. RowsKnown'
    BY <1>2 DEF LockInv, RowsKnown
<1> QED BY <1>1, <1>2, <1>3, <1>4, <1>5 DEF LockInv

\* Ending a transaction gives up its locks and nothing else.
LEMMA LocksEnd ==
    ASSUME LockInv, NEW w \in Servers, tx' = [tx EXCEPT ![w] = NoTx],
           UNCHANGED <<requests, friendships>>
    PROVE  LockInv'
<1>1. NoTx \in TxShapes /\ NoTx.held = {} /\ NoTx.op = "none"
    BY DEF TxShapes, Tx, NoTx
<1> QED BY <1>1, LocksMove

LEMMA LocksReadOn ==
    ASSUME LockInv, NEW w \in Servers, tx[w].pc \in AfterPair \ {"write"},
           tx' = [tx EXCEPT ![w].pc = Order[tx[w].op][tx[w].pc]],
           UNCHANGED <<requests, friendships>>
    PROVE  LockInv'
<1> DEFINE pc == Order[tx[w].op][tx[w].pc]
           t == [tx[w] EXCEPT !.pc = pc]
<1>1. tx[w].pc # "done" /\ tx[w].pc \notin {"row", "low", "high"}
    BY DEF AfterPair
<1>2. pc \in AfterPair /\ (tx[w].op = "accept" => pc # "unasked")
    BY <1>1, TxUnderWay, OrderValues DEF AfterPair
<1>3. tx \in [Servers -> Tx]
    BY DEF LockInv, FriendsTypeOK
<1>4. /\ tx' = [tx EXCEPT ![w] = t]
      /\ t.op = tx[w].op /\ t.req = tx[w].req /\ t.held = tx[w].held
      /\ t.from = tx[w].from /\ t.to = tx[w].to /\ t.pc = pc
    BY <1>3 DEF Tx
<1> HIDE DEF pc
<1>5. t \in Tx
    BY <1>2, <1>3 DEF Tx, AfterPair
<1> HIDE DEF t
<1>6. t \in TxShapes
    BY <1>1, <1>2, <1>4, <1>5, TxUnderWay DEF TxShapes, AfterPair, LowKey, Pair
<1>7. \A v \in Servers \ {w} : tx[w].req \in Ids => ~(HoldsRow(w, tx[w].req) /\ HoldsRow(v, tx[w].req))
    BY DEF LockInv, LocksApart
<1>8. /\ \A v \in Servers \ {w} : t.held \cap tx[v].held = {}
      /\ t.op = "send" => \A v \in Servers \ {w} : tx[v].op = "send" => tx[v].req # t.req
    BY <1>4 DEF LockInv, LocksApart
<1>9. /\ t.op = "send" => requests[t.req] = Unsent
      /\ t.op = "accept" =>
             /\ requests[t.req] # Unsent
             /\ t.from = requests[t.req].from /\ t.to = requests[t.req].to
             /\ requests[t.req].status = "pending"
    BY <1>1, <1>4 DEF LockInv, RowsKnown
<1>10. t.op = "accept" => \A v \in Servers \ {w} : ~HoldsRow(v, t.req)
    BY <1>1, <1>4, <1>7, TxUnderWay DEF HoldsRow
<1> QED BY <1>4, <1>6, <1>8, <1>9, <1>10, LocksMove

LEMMA LocksRequest == ASSUME LockInv, NEW w \in Servers, LockRequest(w) PROVE LockInv'
<1>1. CASE End(w)
    BY <1>1, LocksEnd DEF LockRequest, Check, End
<1>2. CASE Pass(w) /\ requests[tx[w].req].status = "pending"
  <2> DEFINE t == [tx[w] EXCEPT !.pc = "low"]
  <2>1. tx[w].pc = "row" /\ tx[w].op = "accept" /\ tx[w].held = {}
    BY TxUnderWay DEF LockRequest, Check, AfterPair
  <2>2. tx \in [Servers -> Tx]
    BY DEF LockInv, FriendsTypeOK
  <2>3. /\ tx' = [tx EXCEPT ![w] = t] /\ UNCHANGED <<requests, friendships>>
        /\ t.op = "accept" /\ t.req = tx[w].req /\ t.held = {}
        /\ t.from = tx[w].from /\ t.to = tx[w].to /\ t.pc = "low" /\ t \in Tx
    BY <1>2, <2>1, <2>2, OrderValues DEF Pass, LockRequest, Check, Tx
  <2> HIDE DEF t
  <2>4. t \in TxShapes
    <3>1. t.from # t.to /\ t.from \in Users /\ t.to \in Users /\ t.req \in Ids
      BY <2>1, <2>3, TxUnderWay
    <3> QED BY <2>3, <3>1 DEF TxShapes, Pair
  <2>5. \A v \in Servers \ {w} : ~HoldsRow(v, t.req)
    BY <2>1, <2>3 DEF LockRequest, BlockedBy
  <2>6. /\ requests[t.req] # Unsent /\ requests[t.req].status = "pending"
        /\ t.from = requests[t.req].from /\ t.to = requests[t.req].to
    BY <1>2, <2>1, <2>3 DEF LockInv, RowsKnown
  <2> QED BY <2>3, <2>4, <2>5, <2>6, LocksMove
<1> QED BY <1>1, <1>2 DEF LockRequest, Check

LEMMA LocksUser == ASSUME LockInv, NEW w \in Servers, LockUser(w) PROVE LockInv'
<1> DEFINE u == WantedUser(tx[w])
           pc == Order[tx[w].op][tx[w].pc]
           t == [tx[w] EXCEPT !.pc = pc, !.held = @ \cup {u}]
<1>1. tx[w].pc \in {"low", "high"} /\ tx[w].pc # "done"
    BY DEF LockUser
<1>2. /\ pc \in {"high", "strangers", "sender"} /\ (pc = "high" <=> tx[w].pc = "low")
    BY <1>1, TxUnderWay, OrderValues
<1>3. tx \in [Servers -> Tx]
    BY DEF LockInv, FriendsTypeOK
<1>4. u \in Users /\ u = IF tx[w].pc = "low" THEN LowKey(tx[w]) ELSE HighKey(tx[w])
    BY <1>1, TxUnderWay DEF WantedUser, LowKey, HighKey
<1>5. {LowKey(tx[w])} \cup {HighKey(tx[w])} = Pair(tx[w])
    BY DEF LowKey, HighKey, Pair
<1>6. \A v \in Servers \ {w} : u \notin tx[v].held
    BY <1>1 DEF LockUser, BlockedBy
<1>7. tx' = [tx EXCEPT ![w].pc = pc, ![w].held = @ \cup {u}] /\ UNCHANGED <<requests, friendships>>
    BY DEF LockUser
<1> HIDE DEF u, pc
<1>8. /\ tx' = [tx EXCEPT ![w] = t] /\ t \in Tx
      /\ t.op = tx[w].op /\ t.req = tx[w].req /\ t.held = tx[w].held \cup {u}
      /\ t.from = tx[w].from /\ t.to = tx[w].to /\ t.pc = pc
    BY <1>2, <1>3, <1>4, <1>7 DEF Tx
<1> HIDE DEF t
<1>9. LowKey(t) = LowKey(tx[w]) /\ Pair(t) = Pair(tx[w])
    BY <1>8 DEF LowKey, Pair
<1>10. t.held = IF t.pc = "high" THEN {LowKey(t)} ELSE Pair(t)
    BY <1>1, <1>2, <1>4, <1>5, <1>8, <1>9, TxUnderWay
<1>11. t \in TxShapes
  <2>1. t.op = "accept" => t.pc \in {"high", "sender"}
    BY <1>1, <1>8, OrderValues DEF pc
  <2>2. t.op \in {"send", "accept"} /\ t.from # t.to /\ t.req \in Ids /\ t.from \in Users /\ t.to \in Users
    BY <1>1, <1>8, TxUnderWay
  <2> QED BY <1>2, <1>8, <1>10, <2>1, <2>2 DEF TxShapes, AfterPair, Pair
<1>12. /\ \A v \in Servers \ {w} : t.held \cap tx[v].held = {}
       /\ t.op = "send" => \A v \in Servers \ {w} : tx[v].op = "send" => tx[v].req # t.req
    BY <1>6, <1>8 DEF LockInv, LocksApart
<1>13. /\ t.op = "send" => requests[t.req] = Unsent
       /\ t.op = "accept" =>
             /\ requests[t.req] # Unsent
             /\ t.from = requests[t.req].from /\ t.to = requests[t.req].to
             /\ requests[t.req].status = "pending"
    BY <1>1, <1>8 DEF LockInv, RowsKnown
<1>14. t.op = "accept" => \A v \in Servers \ {w} : ~HoldsRow(v, t.req)
  <2>1. \A v \in Servers \ {w} : tx[w].req \in Ids => ~(HoldsRow(w, tx[w].req) /\ HoldsRow(v, tx[w].req))
    BY DEF LockInv, LocksApart
  <2>2. tx[w].req \in Ids /\ (tx[w].op = "accept" => HoldsRow(w, tx[w].req))
    BY <1>1, TxUnderWay DEF HoldsRow
  <2>3. t.op = tx[w].op /\ t.req = tx[w].req
    BY <1>8
  <2> SUFFICES ASSUME t.op = "accept", NEW v \in Servers \ {w}, HoldsRow(v, t.req) PROVE FALSE
    OBVIOUS
  <2>4. HoldsRow(v, tx[w].req)
    BY <2>3
  <2> QED BY <2>1, <2>2, <2>3, <2>4
<1> QED BY <1>7, <1>8, <1>11, <1>12, <1>13, <1>14, LocksMove

LEMMA LocksBegin ==
    ASSUME LockInv, NEW w \in Servers, NEW q \in Ids,
           BeginAccept(w, q) \/ \E a, b \in Users : BeginSend(w, q, a, b)
    PROVE  LockInv'
<1>1. CASE BeginAccept(w, q)
  <2> DEFINE t == [NoTx EXCEPT !.op = "accept", !.pc = "row", !.req = q,
                               !.from = requests[q].from, !.to = requests[q].to]
  <2>1. requests[q] \in RequestShapes /\ requests[q] # Unsent
    BY <1>1 DEF LockInv, BeginAccept
  <2>2. t \in TxShapes
    BY <2>1 DEF TxShapes, Tx, NoTx, Pair, RequestShapes, Request
  <2>3. t.op = "accept" /\ t.pc = "row" /\ t.req = q /\ t.held = {}
        /\ t.from = requests[q].from /\ t.to = requests[q].to
    BY DEF NoTx
  <2>4. tx' = [tx EXCEPT ![w] = t] /\ UNCHANGED <<requests, friendships>>
    BY <1>1 DEF BeginAccept
  <2> HIDE DEF t
  <2> QED BY <2>1, <2>2, <2>3, <2>4, LocksMove
<1>2. ASSUME NEW a \in Users, NEW b \in Users, BeginSend(w, q, a, b) PROVE LockInv'
  <2> DEFINE t == [NoTx EXCEPT !.op = "send", !.pc = "low", !.req = q, !.from = a, !.to = b]
  <2>1. t \in TxShapes
    BY <1>2 DEF TxShapes, Tx, NoTx, Pair, BeginSend
  <2>2. t.op = "send" /\ t.req = q /\ t.held = {}
    BY DEF NoTx
  <2>3. /\ tx' = [tx EXCEPT ![w] = t] /\ UNCHANGED <<requests, friendships>>
        /\ requests[q] = Unsent /\ \A v \in Servers : tx[v].op = "send" => tx[v].req # q
    BY <1>2 DEF BeginSend
  <2> HIDE DEF t
  <2> QED BY <2>1, <2>2, <2>3, LocksMove
<1> QED BY <1>1, <1>2

\* A commit ends its transaction and writes the row that it alone worked on.
LEMMA LocksWrite ==
    ASSUME LockInv, NEW w \in Servers, tx[w].pc = "write", NEW r \in RequestShapes,
           r # Unsent, r.from = tx[w].from, r.to = tx[w].to,
           tx' = [tx EXCEPT ![w] = NoTx], requests' = [requests EXCEPT ![tx[w].req] = r],
           friendships' \in {friendships, friendships \cup {Pair(tx[w])}}
    PROVE  LockInv'
<1> DEFINE q == tx[w].req
<1>1. /\ q \in Ids /\ tx[w].op \in {"send", "accept"}
      /\ tx[w].from \in Users /\ tx[w].to \in Users
    BY TxUnderWay
<1>2. /\ requests' \in [Ids -> RequestShapes] /\ requests'[q] = r
      /\ \A p \in Ids \ {q} : requests'[p] = requests[p]
    BY <1>1 DEF LockInv
<1>3. /\ tx' \in [Servers -> TxShapes] /\ tx'[w] = NoTx
      /\ \A v \in Servers \ {w} : tx'[v] = tx[v]
  <2>1. NoTx \in TxShapes
    BY DEF TxShapes, Tx, NoTx
  <2> QED BY <2>1 DEF LockInv
<1>4. FriendsTypeOK'
  <2>1. Pair(tx[w]) \in SUBSET Users
    BY <1>1 DEF Pair
  <2>2. friendships' \subseteq SUBSET Users
    BY <2>1 DEF LockInv, FriendsTypeOK
  <2>3. TxShapes \subseteq Tx /\ RequestShapes \subseteq Request
    BY DEF TxShapes, RequestShapes
  <2> QED BY <1>2, <1>3, <2>2, <2>3 DEF FriendsTypeOK
<1>5. LocksApart'
    BY <1>3 DEF LockInv, LocksApart, HoldsRow, NoTx
<1>6. RowsKnown'
  <2> SUFFICES ASSUME NEW v \in Servers \ {w}
               PROVE  /\ tx[v].op = "send" => requests'[tx[v].req] = Unsent
                      /\ tx[v].op = "accept" =>
                            /\ requests'[tx[v].req] # Unsent
                            /\ tx[v].from = requests'[tx[v].req].from
                            /\ tx[v].to = requests'[tx[v].req].to
                            /\ tx[v].pc # "row" => requests'[tx[v].req].status = "pending"
    BY <1>3 DEF RowsKnown, NoTx
  <2>1. tx[v].op \in {"send", "accept"} => tx[v].req \in Ids
    BY RequestKnown
  <2>2. CASE tx[v].req # q
    BY <1>2, <2>1, <2>2 DEF LockInv, RowsKnown
  <2>3. CASE tx[v].req = q
    <3>1. /\ tx[w].op = "send" => requests[q] = Unsent
          /\ tx[w].op = "accept" =>
                /\ requests[q] # Unsent
                /\ tx[w].from = requests[q].from /\ tx[w].to = requests[q].to
      BY DEF LockInv, RowsKnown
    <3>2. /\ tx[v].op = "send" => requests[q] = Unsent
          /\ tx[v].op = "accept" =>
                /\ requests[q] # Unsent
                /\ tx[v].from = requests[q].from /\ tx[v].to = requests[q].to
      BY <2>3 DEF LockInv, RowsKnown
    <3>3. /\ ~(tx[w].op = "send" /\ tx[v].op = "send")
          /\ tx[w].op = "accept" /\ tx[v].op = "accept" => tx[v].pc = "row"
      BY <1>1, <2>3 DEF LockInv, LocksApart, HoldsRow
    <3> QED BY <1>1, <1>2, <2>3, <3>1, <3>2, <3>3
  <2> QED BY <2>2, <2>3
<1> QED BY <1>2, <1>3, <1>4, <1>5, <1>6 DEF LockInv

\* What a commit writes.
LEMMA CommitWrites ==
    ASSUME LockInv, NEW w \in Servers, CommitSend(w) \/ CommitAccept(w)
    PROVE  /\ tx[w].pc = "write" /\ tx' = [tx EXCEPT ![w] = NoTx]
           /\ \/ UNCHANGED <<requests, friendships>>
              \/ \E r \in RequestShapes :
                    /\ r # Unsent /\ r.from = tx[w].from /\ r.to = tx[w].to
                    /\ requests' = [requests EXCEPT ![tx[w].req] = r]
                    /\ \/ /\ tx[w].op = "send" /\ ~Pending(Pair(tx[w]))
                          /\ r.status = "pending" /\ UNCHANGED friendships
                       \/ /\ tx[w].op = "accept" /\ Pair(tx[w]) \notin friendships
                          /\ r.status = "accepted" /\ friendships' = friendships \cup {Pair(tx[w])}
<1>1. tx[w].pc = "write" /\ tx' = [tx EXCEPT ![w] = NoTx]
    BY DEF CommitSend, CommitAccept, End
<1>2. CASE UNCHANGED <<requests, friendships>>
    BY <1>1, <1>2
<1>3. /\ tx[w].req \in Ids /\ tx[w].from # tx[w].to
      /\ tx[w].from \in Users /\ tx[w].to \in Users
    BY <1>1, TxUnderWay
<1>4. CASE CommitSend(w) /\ ~Pending(Pair(tx[w]))
  <2> DEFINE r == [status |-> "pending", from |-> tx[w].from, to |-> tx[w].to]
  <2>1. r \in RequestShapes /\ r # Unsent
    BY <1>3 DEF RequestShapes, Request, Unsent, Pair
  <2>2. requests' = [requests EXCEPT ![tx[w].req] = r] /\ UNCHANGED friendships /\ tx[w].op = "send"
    BY <1>4 DEF CommitSend
  <2> QED BY <1>1, <1>4, <2>1, <2>2
<1>5. CASE CommitAccept(w) /\ Pair(tx[w]) \notin friendships
  <2> DEFINE r == [requests[tx[w].req] EXCEPT !.status = "accepted"]
  <2>1. requests[tx[w].req] \in RequestShapes /\ requests[tx[w].req] # Unsent
    BY <1>3, <1>5 DEF LockInv, RowsKnown, CommitAccept
  <2>2. /\ r \in RequestShapes /\ r # Unsent /\ r.status = "accepted"
        /\ r.from = requests[tx[w].req].from /\ r.to = requests[tx[w].req].to
    BY <2>1 DEF RequestShapes, Request, Unsent, Pair
  <2>3. r.from = tx[w].from /\ r.to = tx[w].to
    BY <1>5, <2>2 DEF LockInv, RowsKnown, CommitAccept
  <2>4. /\ requests' = [requests EXCEPT ![tx[w].req] = r] /\ tx[w].op = "accept"
        /\ friendships' = friendships \cup {Pair(tx[w])}
    BY <1>5 DEF CommitAccept
  <2> QED BY <1>1, <1>5, <2>2, <2>3, <2>4
<1> QED BY <1>2, <1>4, <1>5 DEF CommitSend, CommitAccept

LEMMA LocksCommit ==
    ASSUME LockInv, NEW w \in Servers, CommitSend(w) \/ CommitAccept(w) PROVE LockInv'
BY CommitWrites, LocksEnd, LocksWrite

LEMMA LocksElsewhere ==
    ASSUME LockInv,
           \/ \E q \in Ids : RefuseRequest(q)
           \/ \E p \in friendships : RemoveFriendship(p)
           \/ UNCHANGED friendVars
    PROVE  LockInv'
<1>1. ASSUME NEW q \in Ids, RefuseRequest(q) PROVE LockInv'
  <2>1. UNCHANGED <<friendships, tx>> /\ requests' = [requests EXCEPT ![q].status = "refused"]
    BY <1>1 DEF RefuseRequest
  <2>2. requests[q] \in RequestShapes /\ requests[q] # Unsent
    BY <1>1 DEF RefuseRequest, LockInv, Unsent
  <2>3. /\ requests'[q] \in RequestShapes /\ requests'[q] # Unsent
        /\ requests'[q].from = requests[q].from /\ requests'[q].to = requests[q].to
    BY <2>1, <2>2 DEF LockInv, RequestShapes, Request, Unsent, Pair
  <2>4. requests' \in [Ids -> RequestShapes] /\ \A p \in Ids \ {q} : requests'[p] = requests[p]
    BY <2>1, <2>3 DEF LockInv
  <2>5. FriendsTypeOK'
    BY <2>1, <2>4 DEF LockInv, FriendsTypeOK, RequestShapes
  <2>6. LocksApart'
    BY <2>1 DEF LockInv, LocksApart, HoldsRow
  <2>7. RowsKnown'
    <3> SUFFICES ASSUME NEW v \in Servers
                 PROVE  /\ tx[v].op = "send" => requests'[tx[v].req] = Unsent
                        /\ tx[v].op = "accept" =>
                              /\ requests'[tx[v].req] # Unsent
                              /\ tx[v].from = requests'[tx[v].req].from
                              /\ tx[v].to = requests'[tx[v].req].to
                              /\ tx[v].pc # "row" => requests'[tx[v].req].status = "pending"
      BY <2>1 DEF RowsKnown
    <3>1. tx[v].op \in {"send", "accept"} => tx[v].req \in Ids
      BY RequestKnown
    <3>2. CASE tx[v].req # q
      BY <2>4, <3>1, <3>2 DEF LockInv, RowsKnown
    <3>3. CASE tx[v].req = q
      BY <1>1, <2>2, <2>3, <3>3 DEF LockInv, RowsKnown, RefuseRequest, HoldsRow
    <3> QED BY <3>2, <3>3
  <2> QED BY <2>1, <2>4, <2>5, <2>6, <2>7 DEF LockInv
<1>2. ASSUME NEW p \in friendships, RemoveFriendship(p) PROVE LockInv'
    BY <1>2 DEF RemoveFriendship, LockInv, FriendsTypeOK, LocksApart, RowsKnown, HoldsRow
<1>3. CASE UNCHANGED friendVars
    BY <1>3 DEF friendVars, LockInv, FriendsTypeOK, LocksApart, RowsKnown, HoldsRow
<1> QED BY <1>1, <1>2, <1>3

\* A check reads; it moves its transaction on or ends it.
LEMMA ChecksRead ==
    ASSUME NEW w \in Servers,
           CheckStrangers(w) \/ CheckUnasked(w) \/ CheckSender(w) \/ CheckReceiver(w)
    PROVE  /\ tx[w].pc \in AfterPair \ {"write"} /\ UNCHANGED <<requests, friendships>>
           /\ Pass(w) \/ End(w)
BY DEF CheckStrangers, CheckUnasked, CheckSender, CheckReceiver, Check, AfterPair

LEMMA LocksStep == LockInv /\ [FriendsNext]_friendVars => LockInv'
<1> SUFFICES ASSUME LockInv, [FriendsNext]_friendVars PROVE LockInv'
    OBVIOUS
<1>1. ASSUME NEW w \in Servers,
             CheckStrangers(w) \/ CheckUnasked(w) \/ CheckSender(w) \/ CheckReceiver(w)
      PROVE  LockInv'
    BY <1>1, ChecksRead, LocksEnd, LocksReadOn DEF Pass, End
<1>2. ASSUME NEW w \in Servers, Statement(w) PROVE LockInv'
    BY <1>1, <1>2, LocksRequest, LocksUser, LocksCommit DEF Statement
<1> QED BY <1>2, LocksBegin, LocksElsewhere DEF FriendsNext

----------------------------------------------------------------------------
(* Limits and pairs *)

\* Transactions past the lock of their pair share no user.
LEMMA PairsApart ==
    ASSUME LockInv, NEW w \in Servers, NEW v \in Servers, w # v,
           tx[w].pc \in AfterPair, tx[v].pc \in AfterPair
    PROVE  Pair(tx[w]) \cap Pair(tx[v]) = {}
<1>1. tx[w].held = Pair(tx[w]) /\ tx[v].held = Pair(tx[v])
    BY TxUnderWay DEF AfterPair
<1> QED BY <1>1 DEF LockInv, LocksApart

\* Friends of a user, after one friendship more or less.
LEMMA FriendsCounted ==
    ASSUME IsFiniteSet(friendships), NEW u
    PROVE  IsFiniteSet(FriendsOf(u)) /\ Cardinality(FriendsOf(u)) \in Nat
<1>1. FriendsOf(u) \in SUBSET friendships
    BY DEF FriendsOf
<1> QED BY <1>1, FS_Subset, FS_CardinalityType

LEMMA FriendsAdded ==
    ASSUME IsFiniteSet(friendships), NEW p, friendships' = friendships \cup {p}, NEW u
    PROVE  /\ u \notin p => FriendsOf(u)' = FriendsOf(u)
           /\ Cardinality(FriendsOf(u)') <= Cardinality(FriendsOf(u)) + 1
<1>1. FriendsOf(u)' = IF u \in p THEN FriendsOf(u) \cup {p} ELSE FriendsOf(u)
    BY DEF FriendsOf
<1>2. IsFiniteSet(FriendsOf(u)) /\ Cardinality(FriendsOf(u)) \in Nat
    BY FriendsCounted
<1>3. Cardinality(FriendsOf(u) \cup {p}) <= Cardinality(FriendsOf(u)) + 1
  <2>1. Cardinality(FriendsOf(u) \cup {p}) =
            IF p \in FriendsOf(u) THEN Cardinality(FriendsOf(u)) ELSE Cardinality(FriendsOf(u)) + 1
    BY <1>2, FS_AddElement, Zenon
  <2> QED BY <1>2, <2>1
<1> QED BY <1>1, <1>2, <1>3

LEMMA FriendsRemoved ==
    ASSUME IsFiniteSet(friendships), NEW u, friendships' \subseteq friendships
    PROVE  Cardinality(FriendsOf(u)') <= Cardinality(FriendsOf(u))
<1>1. FriendsOf(u)' \in SUBSET FriendsOf(u)
    BY DEF FriendsOf
<1> QED BY <1>1, FriendsCounted, FS_Subset

LEMMA DataInitially == FriendsInit => DataInv
<1> SUFFICES ASSUME FriendsInit PROVE DataInv
    OBVIOUS
<1>1. \A u : FriendsOf(u) = {}
    BY DEF FriendsInit, FriendsOf
<1>2. IsFiniteSet(friendships) /\ LimitKept
    BY <1>1, FS_EmptySet DEF FriendsInit, LimitKept
<1> QED BY <1>2 DEF FriendsInit, DataInv, ChecksHold, FriendsSound, NoIdleRequest, NoTx, Unsent

\* One transaction reads on or ends: it keeps what it has read, and a check that
\* passes adds to it.
LEMMA DataRead ==
    ASSUME LockInv, DataInv, NEW w \in Servers, UNCHANGED <<requests, friendships>>,
           \A v \in Servers \ {w} : tx'[v] = tx[v],
           tx'[w].op = "none" \/ tx'[w].pc \notin AfterPair
              \/ /\ tx'[w].op = tx[w].op /\ tx'[w].from = tx[w].from /\ tx'[w].to = tx[w].to
                 /\ \/ tx[w].op = "accept" /\ tx'[w].pc = "sender"
                    \/ tx[w].op = "send" /\ tx'[w].pc = "strangers"
                    \/ /\ tx[w].pc \in AfterPair \ {"write"}
                       /\ tx'[w].pc = Order[tx[w].op][tx[w].pc]
                       /\ tx[w].pc = "strangers" => Pair(tx[w]) \notin friendships
                       /\ tx[w].pc = "unasked" => ~Pending(Pair(tx[w]))
                       /\ tx[w].pc = "sender" => HasRoom(tx[w].from)
                       /\ tx[w].pc = "receiver" => HasRoom(tx[w].to)
    PROVE  DataInv'
<1>1. IsFiniteSet(friendships)' /\ FriendsSound'
    BY DEF DataInv, FriendsSound, LimitKept, NoIdleRequest, FriendsOf, Pair
<1>2. ChecksHold'
  <2> SUFFICES ASSUME NEW v \in Servers
               PROVE  /\ tx'[v].op = "accept" /\ tx'[v].pc \in {"receiver", "strangers", "write"}
                            => HasRoom(tx'[v].from)
                      /\ tx'[v].op = "accept" /\ tx'[v].pc \in {"strangers", "write"}
                            => HasRoom(tx'[v].to)
                      /\ tx'[v].op = "send" /\ tx'[v].pc \in {"unasked", "sender", "receiver", "write"}
                            => Pair(tx'[v]) \notin friendships
                      /\ tx'[v].op = "send" /\ tx'[v].pc \in {"sender", "receiver", "write"}
                            => ~Pending(Pair(tx'[v]))
    BY DEF ChecksHold, HasRoom, FriendsOf, Pending, Pair
  <2>1. CASE v # w
    BY <2>1 DEF DataInv, ChecksHold
  <2>2. CASE v = w
    <3>1. CASE tx'[w].op = "none" \/ tx'[w].pc \notin AfterPair
      BY <2>2, <3>1 DEF AfterPair
    <3>2. CASE tx'[w].op # "none" /\ tx'[w].pc \in AfterPair
      <4>1. Pair(tx'[w]) = Pair(tx[w]) /\ tx'[w].from = tx[w].from /\ tx'[w].to = tx[w].to
        BY <3>2 DEF Pair
      <4>2. CASE tx'[w].pc = "sender" /\ tx[w].op = "accept"
        BY <2>2, <3>2, <4>2
      <4>3. CASE tx'[w].pc = "strangers" /\ tx[w].op = "send"
        BY <2>2, <3>2, <4>3
      <4>4. CASE /\ tx[w].pc \in AfterPair \ {"write"}
                 /\ tx'[w].op = tx[w].op
                 /\ tx'[w].pc = Order[tx[w].op][tx[w].pc]
                 /\ tx[w].pc = "strangers" => Pair(tx[w]) \notin friendships
                 /\ tx[w].pc = "unasked" => ~Pending(Pair(tx[w]))
                 /\ tx[w].pc = "sender" => HasRoom(tx[w].from)
                 /\ tx[w].pc = "receiver" => HasRoom(tx[w].to)
        <5>1. tx[w].op \in {"send", "accept"} /\ ~(tx[w].op = "accept" /\ tx[w].pc = "unasked")
          BY <4>4, TxUnderWay DEF AfterPair
        <5>2. /\ tx[w].op = "accept" /\ tx[w].pc \in {"receiver", "strangers", "write"}
                     => HasRoom(tx[w].from)
              /\ tx[w].op = "accept" /\ tx[w].pc \in {"strangers", "write"} => HasRoom(tx[w].to)
              /\ tx[w].op = "send" /\ tx[w].pc \in {"unasked", "sender", "receiver", "write"}
                     => Pair(tx[w]) \notin friendships
              /\ tx[w].op = "send" /\ tx[w].pc \in {"sender", "receiver", "write"}
                     => ~Pending(Pair(tx[w]))
          BY DEF DataInv, ChecksHold
        <5>4. CASE tx[w].op = "send"
          BY <2>2, <4>1, <4>4, <5>2, <5>4, OrderValues DEF AfterPair
        <5>5. CASE tx[w].op = "accept"
          BY <2>2, <4>1, <4>4, <5>1, <5>2, <5>5, OrderValues DEF AfterPair
        <5> QED BY <5>1, <5>4, <5>5
      <4> QED BY <3>2, <4>2, <4>3, <4>4
    <3> QED BY <3>1, <3>2
  <2> QED BY <2>1, <2>2
<1> QED BY <1>1, <1>2 DEF DataInv

LEMMA DataWrite ==
    ASSUME LockInv, DataInv, NEW w \in Servers, CommitSend(w) \/ CommitAccept(w)
    PROVE  DataInv'
<1> DEFINE p == Pair(tx[w])
           q == tx[w].req
<1>1. /\ tx[w].pc = "write" /\ tx'[w] = NoTx /\ \A v \in Servers \ {w} : tx'[v] = tx[v]
      /\ q \in Ids
    BY CommitWrites, TxUnderWay DEF LockInv
<1>2. CASE UNCHANGED <<requests, friendships>>
  <2>1. tx'[w].op = "none"
    BY <1>1 DEF NoTx
  <2> QED BY <1>1, <1>2, <2>1, DataRead
<1>3. \A v \in Servers \ {w} : tx[v].pc \in AfterPair => Pair(tx[v]) \cap p = {}
    BY <1>1, PairsApart DEF AfterPair
<1>4. tx[w].from \in p /\ tx[w].to \in p /\ \A u \in p : u = tx[w].from \/ u = tx[w].to
    BY DEF Pair
<1>5. \A v \in Servers \ {w} : tx[v].from \in Pair(tx[v]) /\ tx[v].to \in Pair(tx[v])
    BY DEF Pair
<1>6. ASSUME NEW r \in RequestShapes, r # Unsent, r.from = tx[w].from, r.to = tx[w].to,
             requests' = [requests EXCEPT ![q] = r], r.status = "pending",
             tx[w].op = "send", ~Pending(p), UNCHANGED friendships
      PROVE  DataInv'
  <2>1. /\ requests'[q] = r /\ Pair(r) = p
        /\ \A i \in Ids \ {q} : requests'[i] = requests[i]
    BY <1>1, <1>6 DEF LockInv, Pair
  <2>2. \A u : FriendsOf(u)' = FriendsOf(u)
    BY <1>6 DEF FriendsOf
  <2>3. ChecksHold'
    <3>1. \A x : Pending(x)' => Pending(x) \/ x = p
      BY <1>1, <2>1 DEF Pending, Pair
    <3>2. \A v \in Servers \ {w} : tx[v].pc \in AfterPair => Pair(tx[v]) # p
      BY <1>3, <1>4
    <3> SUFFICES ASSUME NEW v \in Servers \ {w}, tx[v].pc \in AfterPair
                 PROVE  /\ tx[v].op = "accept" /\ tx[v].pc \in {"receiver", "strangers", "write"}
                              => HasRoom(tx[v].from)'
                        /\ tx[v].op = "accept" /\ tx[v].pc \in {"strangers", "write"}
                              => HasRoom(tx[v].to)'
                        /\ tx[v].op = "send" /\ tx[v].pc \in {"unasked", "sender", "receiver", "write"}
                              => Pair(tx[v]) \notin friendships'
                        /\ tx[v].op = "send" /\ tx[v].pc \in {"sender", "receiver", "write"}
                              => ~Pending(Pair(tx[v]))'
      BY <1>1 DEF ChecksHold, AfterPair, NoTx
    <3>3. \A u : HasRoom(u)' <=> HasRoom(u)
      BY <2>2 DEF HasRoom
    <3> QED BY <1>1, <1>6, <3>1, <3>2, <3>3 DEF DataInv, ChecksHold
  <2>4. p \notin friendships
    BY <1>1, <1>6 DEF DataInv, ChecksHold
  <2>5. NoIdleRequest'
    <3>1. \A i \in Ids \ {q} : requests[i].status = "pending" => Pair(requests[i]) # p
      BY <1>6 DEF Pending
    <3>2. \A i \in Ids : requests'[i].status = "pending" =>
             /\ Pair(requests'[i]) \notin friendships
             /\ \A j \in Ids \ {i} : requests'[j].status = "pending" =>
                    Pair(requests'[j]) # Pair(requests'[i])
      BY <2>1, <2>4, <3>1 DEF DataInv, FriendsSound, NoIdleRequest
    <3> QED BY <1>6, <3>2 DEF NoIdleRequest, Pair
  <2> QED BY <1>6, <2>2, <2>3, <2>5 DEF DataInv, FriendsSound, LimitKept
<1>7. ASSUME NEW r \in RequestShapes, r # Unsent, r.from = tx[w].from, r.to = tx[w].to,
             requests' = [requests EXCEPT ![q] = r], r.status = "accepted",
             tx[w].op = "accept", friendships' = friendships \cup {p}
      PROVE  DataInv'
  <2>1. requests'[q] = r /\ \A i \in Ids \ {q} : requests'[i] = requests[i]
    BY <1>1, <1>7 DEF LockInv
  <2>2. requests[q].status = "pending" /\ Pair(requests[q]) = p
    BY <1>1, <1>7 DEF LockInv, RowsKnown, Pair
  <2>3. IsFiniteSet(friendships')
    BY <1>7, FS_AddElement DEF DataInv
  <2>4. LimitKept'
    <3> SUFFICES ASSUME NEW u \in Users PROVE Cardinality(FriendsOf(u)') <= FriendLimit
      BY DEF LimitKept
    <3>1. Cardinality(FriendsOf(u)) \in Nat /\ Cardinality(FriendsOf(u)) <= FriendLimit
      BY FriendsCounted DEF DataInv, FriendsSound, LimitKept
    <3>2. CASE u \in p
      <4>1. Cardinality(FriendsOf(u)) < FriendLimit
        BY <1>1, <1>4, <1>7, <3>2 DEF DataInv, ChecksHold, HasRoom
      <4>2. Cardinality(FriendsOf(u)') <= Cardinality(FriendsOf(u)) + 1
        BY <1>7, FriendsAdded DEF DataInv
      <4>3. FriendsOf(u)' \subseteq friendships' /\ Cardinality(FriendsOf(u)') \in Nat
        BY <2>3, FS_Subset, FS_CardinalityType DEF FriendsOf
      <4> QED BY <3>1, <4>1, <4>2, <4>3
    <3>3. CASE u \notin p
      BY <1>7, <3>1, <3>3, FriendsAdded DEF DataInv
    <3> QED BY <3>2, <3>3
  <2>5. ChecksHold'
    <3>1. \A x : Pending(x)' => Pending(x)
      BY <1>1, <1>7, <2>1 DEF Pending, Pair
    <3>2. \A u : u \notin p => (HasRoom(u)' <=> HasRoom(u))
      BY <1>7, FriendsAdded DEF DataInv, HasRoom
    <3>3. \A v \in Servers \ {w} : tx[v].pc \in AfterPair =>
             tx[v].from \notin p /\ tx[v].to \notin p /\ Pair(tx[v]) # p
      BY <1>3, <1>4, <1>5
    <3> SUFFICES ASSUME NEW v \in Servers \ {w}, tx[v].pc \in AfterPair
                 PROVE  /\ tx[v].op = "accept" /\ tx[v].pc \in {"receiver", "strangers", "write"}
                              => HasRoom(tx[v].from)'
                        /\ tx[v].op = "accept" /\ tx[v].pc \in {"strangers", "write"}
                              => HasRoom(tx[v].to)'
                        /\ tx[v].op = "send" /\ tx[v].pc \in {"unasked", "sender", "receiver", "write"}
                              => Pair(tx[v]) \notin friendships'
                        /\ tx[v].op = "send" /\ tx[v].pc \in {"sender", "receiver", "write"}
                              => ~Pending(Pair(tx[v]))'
      BY <1>1 DEF ChecksHold, AfterPair, NoTx
    <3> QED BY <1>1, <1>7, <3>1, <3>2, <3>3 DEF DataInv, ChecksHold
  <2>6. NoIdleRequest'
    <3>1. \A i \in Ids \ {q} : requests[i].status = "pending" => Pair(requests[i]) # p
      BY <1>1, <2>2 DEF DataInv, FriendsSound, NoIdleRequest
    <3>2. \A i \in Ids : requests'[i].status = "pending" =>
             /\ Pair(requests'[i]) \notin friendships'
             /\ \A j \in Ids \ {i} : requests'[j].status = "pending" =>
                    Pair(requests'[j]) # Pair(requests'[i])
      BY <1>7, <2>1, <3>1 DEF DataInv, FriendsSound, NoIdleRequest
    <3> QED BY <3>2 DEF NoIdleRequest, Pair
  <2> QED BY <2>3, <2>4, <2>5, <2>6 DEF DataInv, FriendsSound
<1> QED BY <1>2, <1>6, <1>7, CommitWrites

LEMMA DataShrinks ==
    ASSUME LockInv, DataInv, UNCHANGED tx, friendships' \subseteq friendships,
           \A i \in Ids : \/ requests'[i] = requests[i]
                          \/ requests'[i].status # "pending"
    PROVE  DataInv'
<1>1. IsFiniteSet(friendships') /\ \A u : Cardinality(FriendsOf(u)') <= Cardinality(FriendsOf(u))
    BY FS_Subset, FriendsRemoved DEF DataInv
<1>2. \A u : Cardinality(FriendsOf(u)) \in Nat /\ Cardinality(FriendsOf(u)') \in Nat
  <2>1. \A u : FriendsOf(u)' \in SUBSET friendships'
    BY DEF FriendsOf
  <2> QED BY <1>1, <2>1, FriendsCounted, FS_Subset, FS_CardinalityType DEF DataInv
<1>3. LimitKept'
  <2>1. LimitKept /\ FriendLimit \in Int
    BY DEF DataInv, FriendsSound
  <2> HIDE FriendsAssumption
  <2> QED BY <1>1, <1>2, <2>1 DEF LimitKept
<1>4. NoIdleRequest'
  <2>1. \A i \in Ids : requests'[i].status = "pending" =>
           /\ Pair(requests'[i]) \notin friendships'
           /\ \A j \in Ids \ {i} : requests'[j].status = "pending" =>
                  Pair(requests'[j]) # Pair(requests'[i])
    BY DEF DataInv, FriendsSound, NoIdleRequest
  <2> QED BY <2>1 DEF NoIdleRequest, Pair
<1>5. ChecksHold'
  <2>1. \A x : Pending(x)' => Pending(x)
    BY DEF Pending, Pair
  <2>2. \A u : HasRoom(u) => HasRoom(u)'
    BY <1>1, <1>2 DEF HasRoom
  <2>3. \A v \in Servers :
           /\ tx[v].op = "accept" /\ tx[v].pc \in {"receiver", "strangers", "write"}
                  => HasRoom(tx[v].from)'
           /\ tx[v].op = "accept" /\ tx[v].pc \in {"strangers", "write"} => HasRoom(tx[v].to)'
           /\ tx[v].op = "send" /\ tx[v].pc \in {"unasked", "sender", "receiver", "write"}
                  => Pair(tx[v]) \notin friendships'
           /\ tx[v].op = "send" /\ tx[v].pc \in {"sender", "receiver", "write"}
                  => ~Pending(Pair(tx[v]))'
    BY <2>1, <2>2 DEF DataInv, ChecksHold
  <2> QED BY <2>3 DEF ChecksHold
<1> QED BY <1>1, <1>3, <1>4, <1>5 DEF DataInv, FriendsSound

LEMMA DataStep == LockInv /\ DataInv /\ [FriendsNext]_friendVars => DataInv'
<1> SUFFICES ASSUME LockInv, DataInv, [FriendsNext]_friendVars PROVE DataInv'
    OBVIOUS
<1>1. tx \in [Servers -> Tx]
    BY DEF LockInv, FriendsTypeOK
<1>2. ASSUME NEW w \in Servers, End(w), UNCHANGED <<requests, friendships>> PROVE DataInv'
  <2>1. /\ tx'[w].op = "none" /\ \A v \in Servers \ {w} : tx'[v] = tx[v]
    BY <1>1, <1>2 DEF End, NoTx
  <2> QED BY <1>2, <2>1, DataRead
<1>3. ASSUME NEW w \in Servers, tx[w].pc # "done", Pass(w),
             UNCHANGED <<requests, friendships>>,
             /\ tx[w].pc = "strangers" => Pair(tx[w]) \notin friendships
             /\ tx[w].pc = "unasked" => ~Pending(Pair(tx[w]))
             /\ tx[w].pc = "sender" => HasRoom(tx[w].from)
             /\ tx[w].pc = "receiver" => HasRoom(tx[w].to),
             tx[w].pc \in {"row"} \cup (AfterPair \ {"write"})
      PROVE  DataInv'
  <2>1. /\ tx'[w].op = tx[w].op /\ tx'[w].from = tx[w].from /\ tx'[w].to = tx[w].to
        /\ tx'[w].pc = Order[tx[w].op][tx[w].pc]
        /\ \A v \in Servers \ {w} : tx'[v] = tx[v]
    BY <1>1, <1>3 DEF Pass, Tx
  <2>2. CASE tx[w].pc = "row"
    <3>1. tx'[w].pc \notin AfterPair
      BY <1>3, <2>1, <2>2, TxUnderWay, OrderValues DEF AfterPair
    <3> QED BY <1>3, <2>1, <3>1, DataRead
  <2>3. CASE tx[w].pc \in AfterPair \ {"write"}
    BY <1>3, <2>1, <2>3, DataRead
  <2> QED BY <1>3, <2>2, <2>3
<1>4. ASSUME NEW w \in Servers, LockRequest(w) PROVE DataInv'
    BY <1>2, <1>3, <1>4 DEF LockRequest, Check
<1>5. ASSUME NEW w \in Servers,
             CheckStrangers(w) \/ CheckUnasked(w) \/ CheckSender(w) \/ CheckReceiver(w)
      PROVE  DataInv'
    BY <1>2, <1>3, <1>5
       DEF CheckStrangers, CheckUnasked, CheckSender, CheckReceiver, Check, AfterPair
<1>6. ASSUME NEW w \in Servers, LockUser(w) PROVE DataInv'
  <2>1. tx[w].pc \in {"low", "high"} /\ UNCHANGED <<requests, friendships>>
    BY <1>6 DEF LockUser
  <2>2. /\ tx'[w].op = tx[w].op /\ tx'[w].from = tx[w].from /\ tx'[w].to = tx[w].to
        /\ tx'[w].pc = Order[tx[w].op][tx[w].pc]
        /\ \A v \in Servers \ {w} : tx'[v] = tx[v]
    BY <1>1, <1>6 DEF LockUser, Tx
  <2>3. \/ tx'[w].pc \notin AfterPair
        \/ tx[w].op = "accept" /\ tx'[w].pc = "sender"
        \/ tx[w].op = "send" /\ tx'[w].pc = "strangers"
    BY <2>1, <2>2, TxUnderWay, OrderValues DEF AfterPair
  <2> QED BY <2>1, <2>2, <2>3, DataRead
<1>7. ASSUME NEW w \in Servers, NEW q \in Ids,
             BeginAccept(w, q) \/ \E a, b \in Users : BeginSend(w, q, a, b)
      PROVE  DataInv'
  <2>1. /\ tx'[w].pc \in {"low", "row"} /\ \A v \in Servers \ {w} : tx'[v] = tx[v]
        /\ UNCHANGED <<requests, friendships>>
    BY <1>1, <1>7 DEF BeginAccept, BeginSend, NoTx
  <2> QED BY <2>1, DataRead DEF AfterPair
<1>8. ASSUME NEW q \in Ids, RefuseRequest(q) PROVE DataInv'
  <2>1. requests \in [Ids -> Request]
    BY DEF LockInv, FriendsTypeOK
  <2>2. \A i \in Ids : requests'[i] = requests[i] \/ requests'[i].status # "pending"
    BY <1>8, <2>1 DEF RefuseRequest, Request
  <2> QED BY <1>8, <2>2, DataShrinks DEF RefuseRequest
<1>9. ASSUME NEW p \in friendships, RemoveFriendship(p) PROVE DataInv'
    BY <1>9, DataShrinks DEF RemoveFriendship
<1>10. CASE UNCHANGED friendVars
    BY <1>10, DataShrinks DEF friendVars
<1> QED BY <1>4, <1>5, <1>6, <1>7, <1>8, <1>9, <1>10, DataWrite DEF FriendsNext, Statement

----------------------------------------------------------------------------
(* Nobody waits in a circle *)

\* The servers of a circle that hold a first user and are ahead of server w in
\* the order of the keys.
AtHigh(circle) == {v \in circle : tx[v].pc = "high"}
Ahead(circle, w) == {v \in AtHigh(circle) : LowKey(tx[w]) < LowKey(tx[v])}

\* Who waits for a server that waits itself, waits for one that holds its first
\* user and asks for its second, or for one that holds a request.
LEMMA WaitsForWaiting ==
    ASSUME LockInv, NEW w \in Servers, NEW v \in Servers, BlockedBy(w, v),
           tx[v].pc \in {"row", "low", "high"}
    PROVE  /\ tx[w].pc = "row" => tx[v].pc \in {"low", "high"}
           /\ tx[w].pc \in {"low", "high"} => tx[v].pc = "high"
           /\ tx[w].pc = "high" => LowKey(tx[w]) < LowKey(tx[v])
<1>1. CASE tx[w].pc = "row"
    BY <1>1 DEF BlockedBy, HoldsRow
<1>2. CASE tx[w].pc \in {"low", "high"}
    <2>1. WantedUser(tx[w]) \in tx[v].held
        BY <1>2 DEF BlockedBy
    <2>2. tx[v].pc = "high" /\ tx[v].held = {LowKey(tx[v])}
        BY <2>1, TxUnderWay
    <2>3. ASSUME tx[w].pc = "high" PROVE LowKey(tx[w]) < LowKey(tx[v])
        <3>1. LowKey(tx[v]) = HighKey(tx[w])
            BY <2>1, <2>2, <2>3 DEF WantedUser
        <3>2. tx[w].from \in Nat /\ tx[w].to \in Nat /\ tx[w].from # tx[w].to
            BY <2>3, TxUnderWay
        <3> QED BY <3>1, <3>2 DEF LowKey, HighKey
    <2> QED BY <1>2, <2>2, <2>3
<1> QED BY <1>1, <1>2 DEF BlockedBy

\* In a circle somebody holds a first user, and each of those waits for one that
\* is ahead of it: those ahead of a server become fewer and fewer along the
\* circle, and a finite set has no endless sequence of smaller and smaller parts.
LEMMA NoCircle == LockInv => NoWaitCycle
<1> SUFFICES ASSUME LockInv, NEW circle \in SUBSET Servers, circle # {},
                    \A w \in circle : \E v \in circle : BlockedBy(w, v)
             PROVE  FALSE
    BY DEF NoWaitCycle
<1>1. \A w \in circle : tx[w].pc \in {"row", "low", "high"}
    BY DEF BlockedBy
<1>2. \A w \in circle : tx[w].pc \in {"low", "high"} => \E v \in AtHigh(circle) : BlockedBy(w, v)
    BY <1>1, WaitsForWaiting DEF AtHigh
<1>3. AtHigh(circle) # {}
    <2>1. PICK w \in circle : TRUE
        OBVIOUS
    <2>2. CASE tx[w].pc = "row"
        <3>1. PICK v \in circle : tx[v].pc \in {"low", "high"}
            BY <1>1, <2>2, WaitsForWaiting
        <3> QED BY <1>2, <3>1
    <2> QED BY <1>1, <1>2, <2>2
<1>4. \A w \in AtHigh(circle) : \E v \in AtHigh(circle) : LowKey(tx[w]) < LowKey(tx[v])
    BY <1>1, <1>2, WaitsForWaiting DEF AtHigh
<1>5. \A w \in AtHigh(circle) : LowKey(tx[w]) \in Nat
    BY TxUnderWay DEF AtHigh, LowKey
<1> DEFINE Parts == {Ahead(circle, w) : w \in AtHigh(circle)}
<1>6. Parts \subseteq FiniteSubsetsOf(Servers) /\ Parts # {}
    <2>1. \A w \in AtHigh(circle) : Ahead(circle, w) \in SUBSET Servers
        BY DEF Ahead, AtHigh
    <2> QED BY <1>3, <2>1, FS_FiniteSubsetsOfFinite
<1>7. PICK least \in Parts : \A part \in Parts :
          <<part, least>> \notin StrictSubsetOrdering(Servers)
    <2> HIDE DEF Parts
    <2> QED BY <1>6, WFMin, FS_StrictSubsetOrderingWellFounded
<1>8. PICK w \in AtHigh(circle) : least = Ahead(circle, w)
    OBVIOUS
<1>9. PICK v \in AtHigh(circle) : LowKey(tx[w]) < LowKey(tx[v])
    BY <1>4
<1>10. /\ Ahead(circle, v) \subseteq least /\ v \in least /\ v \notin Ahead(circle, v)
       /\ Ahead(circle, v) \in SUBSET Servers /\ least \in SUBSET Servers
    BY <1>5, <1>8, <1>9 DEF Ahead, AtHigh
<1>11. <<Ahead(circle, v), least>> \in StrictSubsetOrdering(Servers)
    BY <1>10 DEF StrictSubsetOrdering
<1> QED BY <1>7, <1>11

----------------------------------------------------------------------------
(* Theorems *)

LEMMA FriendsInvHolds == FriendsSpec => []FriendsInv
<1>1. FriendsInit => FriendsInv
    BY LocksInitially, DataInitially DEF FriendsInv
<1>2. FriendsInv /\ [FriendsNext]_friendVars => FriendsInv'
    BY LocksStep, DataStep DEF FriendsInv
<1> QED BY <1>1, <1>2, PTL DEF FriendsSpec

\* The tables and the transactions stay well-typed.
THEOREM FriendsTypesHold == FriendsSpec => []FriendsTypeOK
<1>1. FriendsInv => FriendsTypeOK
    BY DEF FriendsInv, LockInv
<1> QED BY <1>1, FriendsInvHolds, PTL

\* However acceptances and requests cross each other, nobody gets over the limit
\* of friends, and no request is pending between friends or twice.
THEOREM FriendsStaySound == FriendsSpec => []FriendsSound
<1>1. FriendsInv => FriendsSound
    BY DEF FriendsInv, DataInv
<1> QED BY <1>1, FriendsInvHolds, PTL

\* The locks of the friend services are taken in one order: however many servers
\* there are, in every set of them one does not wait for another of the set.
THEOREM NobodyWaitsInACircle == FriendsSpec => []NoWaitCycle
<1>1. FriendsInv => NoWaitCycle
    BY NoCircle DEF FriendsInv
<1> QED BY <1>1, FriendsInvHolds, PTL

----------------------------------------------------------------------------
(* The gateway *)

USE GatewayAssumption DEF Posts, KickEvent, Events

LEMMA GatewayInitially == GatewayInit => GatewayInv
<1> SUFFICES ASSUME GatewayInit PROVE GatewayInv
    OBVIOUS
<1>1. link = NewLink /\ NewLink.inbox = <<>> /\ <<>> \in Seq(Events) /\ Len(<<>>) = 0
    BY EmptySeq DEF GatewayInit, NewLink
<1>2. GatewayTypeOK
    BY <1>1 DEF GatewayInit, GatewayTypeOK, NewLink, Chats, Links, Audits
<1> QED BY <1>1, <1>2
        DEF GatewayInit, NewLink, GatewayInv, EventsPosted, ReadersEntitled, GroupKnown

----------------------------------------------------------------------------
(* Steps of the trip *)

LEMMA TripSteps ==
    ASSUME GatewayInv, PostMessage \/ RemoveMember \/ AdmitMember \/ EndUserSession
    PROVE  GatewayInv'
<1>1. chat \in Chats /\ audit \in Audits /\ hooks \in [Events -> 0..(MaxSwitches + 1)]
    BY DEF GatewayInv, GatewayTypeOK
<1>2. CASE PostMessage
  <2> DEFINE m == chat.posts + 1
  <2>1. /\ chat' \in Chats /\ chat'.posts = m /\ m \in Posts /\ UNCHANGED link
        /\ chat'.member = chat.member /\ chat'.switches = chat.switches
    BY <1>1, <1>2 DEF PostMessage, Chats
  <2>2. /\ audit' \in Audits /\ audit'.sent = audit.sent
        /\ audit'.refused = audit.refused /\ audit'.stuck = audit.stuck
        /\ audit'.entitled = IF chat.member THEN audit.entitled \cup {m} ELSE audit.entitled
    <3>1. CASE chat.member
      BY <1>1, <1>2, <2>1, <3>1 DEF PostMessage, Audits
    <3>2. CASE ~chat.member
      BY <1>1, <1>2, <3>2 DEF PostMessage
    <3> QED BY <3>1, <3>2
  <2>3. hooks[m] = 0 /\ hooks' = [hooks EXCEPT ![m] = @ + 1]
    BY <1>1, <1>2, <2>1 DEF PostMessage, GatewayInv, EventsPosted, Chats
  <2>4. /\ hooks' \in [Events -> 0..(MaxSwitches + 1)] /\ hooks'[m] = 1
        /\ \A h \in Events \ {m} : hooks'[h] = hooks[h]
    BY <1>1, <2>1, <2>3
  <2>5. chat.posts \in Nat /\ m = chat.posts + 1
    BY <1>1 DEF Chats
  <2> HIDE DEF m
  <2>6. GatewayTypeOK'
    BY <2>1, <2>2, <2>4 DEF GatewayInv, GatewayTypeOK
  <2>7. EventsPosted'
    <3>1. \A h \in Events : hooks'[h] > 0 => h <= chat'.posts
      BY <2>1, <2>4, <2>5 DEF GatewayInv, EventsPosted
    <3>2. hooks'[KickEvent] <= chat'.switches /\ \A h \in Posts : hooks'[h] <= 1
      BY <2>1, <2>4, <2>5 DEF GatewayInv, EventsPosted
    <3>3. \A i \in 1..Len(link.inbox) : link.inbox[i] \in 0..chat'.posts
      BY <2>1, <2>5 DEF GatewayInv, EventsPosted
    <3>4. link.task \in {"checkPush", "send"} => link.arg \in 1..chat'.posts
      BY <2>1, <2>5 DEF GatewayInv, EventsPosted
    <3> QED BY <2>1, <3>1, <3>2, <3>3, <3>4 DEF EventsPosted
  <2>8. ReadersEntitled'
    <3>1. 1..m = (1..chat.posts) \cup {m}
      BY <2>5
    <3>2. /\ audit.sent \subseteq audit.entitled /\ audit.entitled \subseteq 1..chat.posts
          /\ chat.member => audit.entitled = 1..chat.posts
          /\ link.task = "send" => link.arg \in audit.entitled
      BY DEF GatewayInv, ReadersEntitled
    <3> QED BY <2>1, <2>2, <3>1, <3>2 DEF ReadersEntitled
  <2>9. GroupKnown'
    BY <2>1, <2>2 DEF GatewayInv, GroupKnown
  <2> QED BY <2>6, <2>7, <2>8, <2>9 DEF GatewayInv
<1>3. CASE RemoveMember
  <2>1. /\ chat' \in Chats /\ chat'.posts = chat.posts /\ ~chat'.member
        /\ chat'.switches = chat.switches + 1 /\ chat.switches < MaxSwitches
        /\ chat.switches \in Nat /\ chat.posts \in Nat /\ UNCHANGED <<link, audit>>
    <3>1. chat' = [member |-> FALSE, valid |-> chat.valid, posts |-> chat.posts,
                   switches |-> chat.switches + 1]
      BY <1>1, <1>3 DEF RemoveMember, Chats
    <3>2. /\ chat.valid \in BOOLEAN /\ chat.posts \in 0..MaxPosts
          /\ chat.switches \in Nat /\ chat.switches < MaxSwitches
      BY <1>1, <1>3 DEF RemoveMember, Chats
    <3>3. chat' \in Chats
      BY <3>1, <3>2 DEF Chats
    <3> QED BY <1>3, <3>1, <3>2, <3>3 DEF RemoveMember
  <2>2. hooks[KickEvent] \in Nat /\ hooks[KickEvent] <= chat.switches
    BY <1>1, <2>1 DEF GatewayInv, EventsPosted
  <2>3. /\ hooks' \in [Events -> 0..(MaxSwitches + 1)]
        /\ hooks'[KickEvent] = hooks[KickEvent] + 1
        /\ \A h \in Posts : hooks'[h] = hooks[h]
    BY <1>1, <1>3, <2>1, <2>2 DEF RemoveMember
  <2>4. EventsPosted'
    BY <2>1, <2>2, <2>3 DEF GatewayInv, EventsPosted
  <2> QED BY <2>1, <2>3, <2>4
          DEF GatewayInv, GatewayTypeOK, ReadersEntitled, GroupKnown
<1>4. CASE AdmitMember
  <2>1. GatewayTypeOK'
    <3>1. chat' = [member |-> TRUE, valid |-> chat.valid, posts |-> chat.posts,
                   switches |-> chat.switches + 1]
      BY <1>1, <1>4 DEF AdmitMember, Chats
    <3>2. audit' = [entitled |-> 1..chat.posts, sent |-> audit.sent, refused |-> FALSE,
                    stuck |-> audit.stuck]
      BY <1>1, <1>4 DEF AdmitMember, Audits
    <3>3. chat' \in Chats
      <4>1. /\ chat.valid \in BOOLEAN /\ chat.posts \in 0..MaxPosts
            /\ chat.switches \in Nat /\ chat.switches < MaxSwitches
        BY <1>1, <1>4 DEF AdmitMember, Chats
      <4> QED BY <3>1, <4>1 DEF Chats
    <3>4. audit' \in Audits
      BY <1>1, <3>2 DEF Chats, Audits
    <3> QED BY <1>4, <3>3, <3>4 DEF AdmitMember, GatewayInv, GatewayTypeOK
  <2>2. /\ chat'.member /\ chat'.posts = chat.posts /\ chat.posts \in Nat
        /\ chat.switches \in Nat /\ chat'.switches = chat.switches + 1
        /\ audit'.entitled = 1..chat.posts /\ audit'.sent = audit.sent /\ ~audit'.refused
        /\ audit'.stuck = audit.stuck /\ UNCHANGED <<hooks, link>>
    BY <1>1, <1>4 DEF AdmitMember, Chats, Audits
  <2>3. EventsPosted'
    BY <1>1, <2>2 DEF GatewayInv, EventsPosted
  <2>4. ReadersEntitled'
    <3>1. /\ audit.sent \subseteq audit.entitled /\ audit.entitled \subseteq 1..chat.posts
          /\ link.task = "send" => link.arg \in audit.entitled
      BY DEF GatewayInv, ReadersEntitled
    <3> QED BY <2>2, <3>1 DEF ReadersEntitled
  <2>5. GroupKnown'
    BY <2>2 DEF GatewayInv, GroupKnown
  <2> QED BY <2>1, <2>3, <2>4, <2>5 DEF GatewayInv
<1>5. CASE EndUserSession
    BY <1>1, <1>5 DEF EndUserSession, GatewayInv, GatewayTypeOK, EventsPosted,
                      ReadersEntitled, GroupKnown, Chats
<1> QED BY <1>2, <1>3, <1>4, <1>5

LEMMA GroupSendStep == ASSUME GatewayInv, NEW h \in Events, GroupSend(h) PROVE GatewayInv'
<1>1. /\ chat \in Chats /\ link \in Links /\ hooks \in [Events -> 0..(MaxSwitches + 1)]
      /\ link.inbox \in Seq(Events)
    BY DEF GatewayInv, GatewayTypeOK, Links
<1>2. /\ hooks' \in [Events -> 0..(MaxSwitches + 1)] /\ \A i \in Events : hooks'[i] <= hooks[i]
      /\ h \in 0..chat.posts
    BY <1>1 DEF GroupSend, GatewayInv, EventsPosted, Chats
<1>3. CASE UNCHANGED link
    BY <1>1, <1>2, <1>3 DEF GroupSend, GatewayInv, GatewayTypeOK, EventsPosted, ReadersEntitled,
                            GroupKnown, Chats
<1>4. CASE Len(link.inbox) < Capacity /\ link' = [link EXCEPT !.inbox = Append(@, h)]
  <2>1. /\ Append(link.inbox, h) \in Seq(Events) /\ Len(Append(link.inbox, h)) = Len(link.inbox) + 1
        /\ \A i \in 1..Len(link.inbox) : Append(link.inbox, h)[i] = link.inbox[i]
        /\ Append(link.inbox, h)[Len(link.inbox) + 1] = h
    BY <1>1, AppendProperties
  <2>2. /\ link' \in Links /\ link'.inbox = Append(link.inbox, h)
        /\ link'.task = link.task /\ link'.arg = link.arg
        /\ link'.inGroup = link.inGroup /\ link'.joined = link.joined
    BY <1>1, <1>4, <2>1 DEF Links
  <2>3. Len(link.inbox) \in Nat
    BY <1>1, LenProperties
  <2>4. \A i \in 1..Len(link'.inbox) : link'.inbox[i] \in 0..chat.posts
    BY <1>2, <2>1, <2>2, <2>3 DEF GatewayInv, EventsPosted
  <2>5. GatewayTypeOK'
    BY <1>1, <1>2, <1>4, <2>1, <2>2, <2>3 DEF GroupSend, GatewayInv, GatewayTypeOK, Chats
  <2>6. EventsPosted'
    BY <1>1, <1>2, <1>4, <2>4 DEF GroupSend, GatewayInv, EventsPosted, Chats
  <2>7. ReadersEntitled' /\ GroupKnown'
    BY <1>1, <1>2, <1>4, <2>1, <2>2, <2>3
    DEF GroupSend, GatewayInv, ReadersEntitled, GroupKnown, Chats
  <2> QED BY <2>5, <2>6, <2>7 DEF GatewayInv
<1> QED BY <1>3, <1>4 DEF GroupSend

----------------------------------------------------------------------------
(* Steps of the consumer *)

\* Whatever a handler does to the connection: it reads from its channel only, and
\* what it knows follows from what it has just seen.
LEMMA HandlerKeeps ==
    ASSUME GatewayInv, UNCHANGED <<chat, hooks>>, link' \in Links, audit' \in Audits,
           Len(link'.inbox) <= Capacity,
           \A i \in 1..Len(link'.inbox) : link'.inbox[i] \in 0..chat.posts,
           link'.task \in {"checkPush", "send"} => link'.arg \in 1..chat.posts,
           audit'.entitled = audit.entitled, audit'.sent \subseteq audit.entitled,
           link'.task = "send" => link'.arg \in audit.entitled,
           link'.inGroup => link'.joined \/ audit'.stuck,
           audit'.refused => ~chat.member /\ ~link'.joined /\ link'.task # "join"
    PROVE  GatewayInv'
BY DEF GatewayInv, GatewayTypeOK, EventsPosted, ReadersEntitled, GroupKnown

\* The event that is handled next.
LEMMA HeadTaken ==
    ASSUME GatewayInv, link.inbox # <<>>
    PROVE  /\ Head(link.inbox) \in 0..chat.posts
           /\ TakenOut \in Links /\ TakenOut.inGroup = link.inGroup
           /\ TakenOut.joined = link.joined /\ TakenOut.task = link.task
           /\ Len(TakenOut.inbox) <= Capacity
           /\ \A i \in 1..Len(TakenOut.inbox) : TakenOut.inbox[i] \in 0..chat.posts
<1>1. link \in Links /\ link.inbox \in Seq(Events) /\ Len(link.inbox) <= Capacity
    BY DEF GatewayInv, GatewayTypeOK, Links
<1>2. Len(link.inbox) \in Nat \ {0}
    BY <1>1, EmptySeq
<1>3. /\ Tail(link.inbox) \in Seq(Events) /\ Len(Tail(link.inbox)) = Len(link.inbox) - 1
      /\ \A i \in 1..Len(Tail(link.inbox)) : Tail(link.inbox)[i] = link.inbox[i + 1]
    BY <1>1, HeadTailProperties
<1>4. Head(link.inbox) = link.inbox[1]
    BY <1>1, <1>2
<1>5. /\ TakenOut \in Links /\ TakenOut.inbox = Tail(link.inbox) /\ TakenOut.inGroup = link.inGroup
      /\ TakenOut.joined = link.joined /\ TakenOut.task = link.task
    BY <1>1, <1>3 DEF TakenOut, Links
<1>6. \A i \in 1..Len(link.inbox) : link.inbox[i] \in 0..chat.posts
    BY DEF GatewayInv, EventsPosted
<1> QED BY <1>1, <1>2, <1>3, <1>4, <1>5, <1>6

\* A connection that leaves the group does so, unless the layer fails.
LEMMA DiscardLeaves ==
    ASSUME NEW l \in Links, NEW raises \in BOOLEAN
    PROVE  /\ DiscardGroup(l, raises) \in Links
           /\ DiscardGroup(l, raises).inbox = l.inbox
           /\ DiscardGroup(l, raises).task = l.task /\ DiscardGroup(l, raises).arg = l.arg
           /\ ~DiscardGroup(l, raises).joined
           /\ DiscardGroup(l, raises).inGroup => (raises /\ l.joined) \/ (l.inGroup /\ ~l.joined)
<1>1. CASE l.joined
  <2>1. DiscardGroup(l, raises) = [l EXCEPT !.joined = FALSE, !.inGroup = raises]
    BY <1>1 DEF DiscardGroup
  <2>2. DiscardGroup(l, raises) =
            [up |-> l.up, inGroup |-> raises, joined |-> FALSE, inbox |-> l.inbox,
             task |-> l.task, arg |-> l.arg]
    BY <2>1 DEF Links
  <2>3. /\ l.up \in BOOLEAN /\ l.inbox \in Seq(Events) /\ l.arg \in Events
        /\ l.task \in {"idle", "access", "join", "checkPush", "refuse", "send"}
    BY DEF Links
  <2>4. DiscardGroup(l, raises) \in Links
    BY <2>2, <2>3 DEF Links
  <2> QED BY <1>1, <2>2, <2>4
<1>2. CASE ~l.joined
    BY <1>2 DEF DiscardGroup
<1> QED BY <1>1, <1>2

LEMMA KickKeeps ==
    ASSUME GatewayInv, UNCHANGED <<chat, hooks>>, NEW l \in Links, LeaveKicked(l),
           l.task = "idle", l.inGroup = link.inGroup, l.joined = link.joined,
           Len(l.inbox) <= Capacity, \A i \in 1..Len(l.inbox) : l.inbox[i] \in 0..chat.posts
    PROVE  GatewayInv'
<1>1. audit \in Audits /\ chat \in Chats /\ link \in Links
    BY DEF GatewayInv, GatewayTypeOK
<1>2. PICK raises \in BOOLEAN :
          /\ link' = DiscardGroup(l, raises)
          /\ audit' = [audit EXCEPT !.refused = ~chat.member,
                                    !.stuck = @ \/ (raises /\ l.joined)]
    BY DEF LeaveKicked
<1>3. /\ audit' \in Audits /\ audit'.refused = ~chat.member
      /\ audit'.entitled = audit.entitled /\ audit'.sent = audit.sent
      /\ audit'.stuck = (audit.stuck \/ (raises /\ l.joined))
    BY <1>1, <1>2 DEF Audits, Chats, Links
<1>4. audit.sent \subseteq audit.entitled /\ (link.inGroup => link.joined \/ audit.stuck)
    BY DEF GatewayInv, ReadersEntitled, GroupKnown
<1>5. /\ link' \in Links /\ link'.inbox = l.inbox /\ link'.task = "idle" /\ ~link'.joined
      /\ link'.inGroup => (raises /\ l.joined) \/ (l.inGroup /\ ~l.joined)
    BY <1>2, DiscardLeaves
<1>6. link'.inGroup => audit'.stuck
    BY <1>3, <1>4, <1>5
<1> QED BY <1>3, <1>4, <1>5, <1>6, HandlerKeeps

LEMMA SubscriptionSteps ==
    ASSUME GatewayInv, Subscribe \/ CheckAccess \/ JoinGroup \/ Unsubscribe
    PROVE  GatewayInv'
<1>1. /\ audit \in Audits /\ chat \in Chats /\ link \in Links /\ Len(link.inbox) <= Capacity
      /\ \A i \in 1..Len(link.inbox) : link.inbox[i] \in 0..chat.posts
      /\ audit.sent \subseteq audit.entitled /\ (link.inGroup => link.joined \/ audit.stuck)
      /\ audit.refused => ~chat.member /\ ~link.joined /\ link.task # "join"
    BY DEF GatewayInv, GatewayTypeOK, EventsPosted, ReadersEntitled, GroupKnown
<1>2. CASE Subscribe \/ CheckAccess \/ JoinGroup
  <2>1. /\ link' \in Links /\ link'.inbox = link.inbox
        /\ link'.task \in {"idle", "access", "join"}
        /\ link'.task = "join" => chat.member
        /\ \/ link'.joined = link.joined /\ link'.inGroup = link.inGroup
           \/ link.task = "join" /\ link'.joined
        /\ UNCHANGED <<chat, hooks, audit>>
    BY <1>1, <1>2 DEF Subscribe, CheckAccess, JoinGroup, Ready, Links
  <2> QED BY <1>1, <2>1, HandlerKeeps
<1>3. CASE Unsubscribe
  <2>1. PICK raises \in BOOLEAN :
            /\ link' = DiscardGroup(link, raises)
            /\ audit' = [audit EXCEPT !.stuck = @ \/ (raises /\ link.joined)]
    BY <1>3 DEF Unsubscribe
  <2>2. /\ audit' \in Audits /\ audit'.refused = audit.refused
        /\ audit'.entitled = audit.entitled /\ audit'.sent = audit.sent
        /\ audit'.stuck = (audit.stuck \/ (raises /\ link.joined))
    BY <1>1, <2>1 DEF Audits, Links
  <2>3. link.task = "idle" /\ UNCHANGED <<chat, hooks>>
    BY <1>3 DEF Unsubscribe, Ready
  <2> QED BY <1>1, <2>1, <2>2, <2>3, DiscardLeaves, HandlerKeeps
<1> QED BY <1>2, <1>3

LEMMA EventSteps ==
    ASSUME GatewayInv, HandleKick \/ HandlePush \/ CheckPush \/ RefusePush \/ SendPush
    PROVE  GatewayInv'
<1>1. /\ audit \in Audits /\ chat \in Chats /\ link \in Links /\ Len(link.inbox) <= Capacity
      /\ \A i \in 1..Len(link.inbox) : link.inbox[i] \in 0..chat.posts
      /\ link.task \in {"checkPush", "send"} => link.arg \in 1..chat.posts
      /\ audit.sent \subseteq audit.entitled /\ audit.entitled \subseteq 1..chat.posts
      /\ chat.member => audit.entitled = 1..chat.posts
      /\ link.task = "send" => link.arg \in audit.entitled
      /\ link.inGroup => link.joined \/ audit.stuck
      /\ audit.refused => ~chat.member /\ ~link.joined /\ link.task # "join"
    BY DEF GatewayInv, GatewayTypeOK, EventsPosted, ReadersEntitled, GroupKnown
<1>2. CASE HandleKick
    BY <1>2, HeadTaken, KickKeeps DEF HandleKick, Ready
<1>3. CASE HandlePush
  <2>1. /\ TakenOut \in Links
        /\ link' = [TakenOut EXCEPT !.task = "checkPush", !.arg = Head(link.inbox)]
        /\ Head(link.inbox) \in 1..chat.posts /\ Head(link.inbox) \in Events
        /\ UNCHANGED <<chat, hooks, audit>>
    BY <1>1, <1>3, HeadTaken DEF HandlePush, Chats
  <2>2. /\ link' \in Links /\ link'.inbox = TakenOut.inbox
        /\ link'.task = "checkPush" /\ link'.arg = Head(link.inbox)
        /\ link'.inGroup = TakenOut.inGroup /\ link'.joined = TakenOut.joined
    BY <2>1 DEF Links
  <2> QED BY <1>1, <1>3, <2>1, <2>2, HeadTaken, HandlerKeeps DEF HandlePush
<1>4. CASE CheckPush
  <2>1. /\ link' \in Links /\ link'.inbox = link.inbox /\ link'.arg = link.arg
        /\ link'.inGroup = link.inGroup /\ link'.joined = link.joined
        /\ link'.task \in {"idle", "refuse", "send"} /\ (link'.task = "send" => chat.member)
        /\ link.task = "checkPush" /\ UNCHANGED <<chat, hooks, audit>>
    BY <1>1, <1>4 DEF CheckPush, Links
  <2> QED BY <1>1, <2>1, HandlerKeeps
<1>5. CASE RefusePush
  <2> DEFINE l == [link EXCEPT !.task = "idle"]
  <2>1. /\ l \in Links /\ l.inbox = link.inbox /\ l.task = "idle"
        /\ l.inGroup = link.inGroup /\ l.joined = link.joined
    BY <1>1 DEF Links
  <2>2. LeaveKicked(l) /\ UNCHANGED <<chat, hooks>>
    BY <1>5 DEF RefusePush
  <2> HIDE DEF l
  <2> QED BY <1>1, <2>1, <2>2, KickKeeps
<1>6. CASE SendPush
  <2>1. /\ link' \in Links /\ link'.inbox = link.inbox /\ link'.task = "idle"
        /\ link'.inGroup = link.inGroup /\ link'.joined = link.joined
        /\ link.arg \in audit.entitled /\ UNCHANGED <<chat, hooks>>
    BY <1>1, <1>6 DEF SendPush, Links
  <2>2. /\ audit' \in Audits /\ audit'.entitled = audit.entitled
        /\ audit'.sent = audit.sent \cup {link.arg}
        /\ audit'.refused = audit.refused /\ audit'.stuck = audit.stuck
    BY <1>1, <1>6, <2>1 DEF SendPush, Audits
  <2> QED BY <1>1, <2>1, <2>2, HandlerKeeps
<1> QED BY <1>2, <1>3, <1>4, <1>5, <1>6

LEMMA ConnectionSteps == ASSUME GatewayInv, Disconnect \/ Connect PROVE GatewayInv'
<1>1. /\ audit \in Audits /\ link \in Links /\ audit.sent \subseteq audit.entitled
      /\ audit.refused => ~chat.member
    BY DEF GatewayInv, GatewayTypeOK, ReadersEntitled, GroupKnown
<1>2. <<>> \in Seq(Events) /\ Len(<<>>) = 0
    BY EmptySeq
<1>3. /\ link' \in Links /\ link'.inbox = <<>> /\ link'.task = "idle"
      /\ ~link'.inGroup /\ ~link'.joined /\ UNCHANGED <<chat, hooks>>
  <2>1. CASE Disconnect
    BY <1>1, <1>2, <2>1 DEF Disconnect, Closed, Links
  <2>2. CASE Connect
    BY <1>2, <2>2 DEF Connect, NewLink, Links
  <2> QED BY <2>1, <2>2
<1>4. /\ audit' \in Audits /\ audit'.entitled = audit.entitled /\ audit'.sent = audit.sent
      /\ audit'.refused = audit.refused
    BY <1>1 DEF Disconnect, Connect, Audits
<1> QED BY <1>1, <1>2, <1>3, <1>4, HandlerKeeps

LEMMA GatewayStep == GatewayInv /\ [GatewayNext]_gatewayVars => GatewayInv'
<1> SUFFICES ASSUME GatewayInv, [GatewayNext]_gatewayVars PROVE GatewayInv'
    OBVIOUS
<1>1. CASE UNCHANGED gatewayVars
    BY <1>1 DEF gatewayVars, GatewayInv, GatewayTypeOK, EventsPosted, ReadersEntitled, GroupKnown
<1> QED BY <1>1, TripSteps, GroupSendStep, SubscriptionSteps, EventSteps, ConnectionSteps
        DEF GatewayNext

\* A removed member reads nothing that was posted since, however late the kick
\* is, and the first event that finds the user removed ends the subscription.
THEOREM GatewayStaysSound == GatewaySpec => []GatewaySound
<1>1. GatewayInv => GatewaySound
    BY DEF GatewayInv, ReadersEntitled, GroupKnown, GatewaySound, RemovalReaches
<1> QED BY <1>1, GatewayInitially, GatewayStep, PTL DEF GatewaySpec

=============================================================================
