# GoPlan: TLA+ models, checks and proofs

GoPlan is a trip planner: a Django backend (`src/backend`), a Next.js web client
whose route handlers keep the session in cookies (`src/frontend`) and a React
Native client (`src/mobile`). This directory models the parts of the backend in
which several processes change the same rows, the arithmetic of its settlements,
and the parts of the clients in which callbacks, answers and the user's own
actions cross.

| File | What it is |
| --- | --- |
| `MemoryRender.tla` | memory videos of a trip: rows, hooks, broker, render tasks, files, recovery sweep |
| `AIInteraction.tla` | prompts to GoPlanAI: rows as leases, tasks, retries, recovery |
| `ActionDraft.tla` | a change GoPlanAI drafted, from the row in the backend to the card of one phone |
| `Friends.tla` | friend requests and friendships: transactions with their row locks |
| `RealtimeGateway.tla` | the chat of one trip on one WebSocket consumer |
| `Settlement.tla`, `SettlementPlan.tla` | expenses, settlements and transfers of a trip; the split of an amount and the plan of transfers, as operators |
| `MobileSession.tla` | credentials of the phone: lifecycle, SecureStore, refresh, rotation, 401 replay |
| `PrivateMedia.tla` | the phone's private-media gate, its purges and transfer leases |
| `MobileApp.tla` | MobileSession and PrivateMedia, composed as `session.tsx` wires them |
| `RealtimeConnection.tla` | the phone's WebSocket manager and its controller |
| `ChatFeed.tla` | abstract: what a transcript may rely on |
| `ChatSubscription.tla` | the chat screen's subscription to its room; implements ChatFeed |
| `ChatTranscript.tla` | the transcript of a room, over ChatFeed |
| `UploadSession.tla` | an upload of picked photos |
| `NotificationInbox.tla` | the phone's notifications and the server's |
| `WebSession.tla` | a browser's session: tabs, cookies, route handlers |
| `*Proofs.tla` | the theorems about the module they are named after; `SettlementProofs` is also about SettlementPlan, `BackendProofs` about AIInteraction, ActionDraft, Friends and RealtimeGateway, `ClientProofs` about RealtimeConnection, ChatSubscription, UploadSession and WebSession |
| `MC*.tla`, `*.cfg` | instances for TLC |

To check a run: `tlc -config MCSettlement.cfg MCSettlement`; to check the proofs:
`tlapm SettlementProofs.tla`. `PROJECT.json` maps every definition to the lines it
models and every property to a bug in those lines that breaks it (the operators
marked "Mutant").

## 1. Inventory

### Backend

**Memory videos** (`memories/memory_video_services.py`, `memories/tasks.py`).
State: rows of `TripMemoryVideo` (status, owner, `render_started_at`,
`recovery_count`, file names, share flag), files in `default_storage`, messages
in the queue `memory_render`. Operations: create, rename, delete, share, unshare,
public read; the task (claim, render, save video, save poster, publish, fail);
`recover_stale_memory_renders`. Hard: tasks that outlive their claim, messages
delivered twice (`acks_late`, `reject_on_worker_lost`), publication after commit
that fails or is lost, files outside transactions. Correct when: two attempts
never share a claim, a row's files exist, final states are final, the quota
holds, nothing stays in progress.

**AI interactions** (`ai/services.py`, `ai/lifecycle.py`, `ai/tasks.py`). State:
rows of `AIInteraction` (status, `lock_expires_at`, `attempt_count`,
`response_message`), chat messages, drafts. Operations: ask, publish, claim, run
the agent, post an answer or an error, release for retry, recover. Hard: a lease
by time without a token of its holder, three sources of messages (retry,
redelivery, recovery), one retry counter for two purposes. Correct when: one
answer per prompt, one active prompt per trip, drafts arrive with the answer,
every prompt is answered.

**AI action drafts** (`ai/agent/`). State: rows of `AIActionDraft` (status,
payload, the version of the object it is about, expiry), the change sequence of
the chat message that shows it. Operations: confirm, patch, cancel, read, expire;
a failed confirmation is recorded in a second transaction. Hard: the trip moves
under the draft, other members act on it, an answer is lost, a request arrives
after the phone has given it up. Correct when: a draft is executed at most once,
never after expiry, never against another version of its object, and with a
payload its user was shown.

**Expenses and settlement** (`expenses/services.py`). State: expenses with their
participant snapshot, shares, contributions and lock; `TripSettlement`,
`SettlementTransfer`, the ledger. Operations: create, update, delete, contribute,
finalize, reopen, mark sent, confirm received. Every service holds the row lock
of its `Trip` from its first statement to its commit, so that a service is one
step; what is hard is the order of steps, membership that changes in between,
and arithmetic. Correct when: transfers match the balances they settle, locks
follow the settlement, a settlement can always be carried out, nothing marked is
forgotten.

**Trips** (`trips/services.py`): lifecycle, membership, invitations, timeline,
reminders. Trip row lock first, then members; `dispatch_due_timeline_reminders`
takes another order. **Friends** (`friends/services.py`): requests, a limit of
friends, rows locked one after the other while counts are read without a lock.
Correct when: nobody gets over the limit, no request is pending between friends,
nobody waits in a circle. **Chat** (`chat/services.py`): messages, reactions,
deletion and hiding, with a change sequence per trip. **Realtime** (`realtime/`):
one-use tickets; the group, the channel and the consumer of a connection, which
learn of a removal one after the other. Correct when: a removed member reads
nothing that was posted since. **Notifications**: rows with a push
after commit. **Accounts**: JWT pairs, one use of each refresh token, an
`auth_version` that a new password moves. **Trip photos**, **location search** and **media**: rows and files of one
request each.

### Mobile client

**Credential session** (`shared/api/authSessionLifecycle.ts`, `refresh.ts`,
`client.ts`, `token-store.ts`, `features/auth/session.tsx`). State: the lifecycle
(owner, generation, revision, rotation, activities), the durable token pair behind
a serialized queue, refreshes in flight, API requests. Hard: a refresh that ends
after a sign-out, a password change that crosses it, SecureStore writes that fail,
a process that dies between two writes. Correct when: the newest pair the server
issued is never lost for an older one, a request never goes out with a token of
another session, a sign-out ends.

**Private media** (`shared/media/privateMediaLifecycle.ts`,
`fetchProtectedAsset.ts`). State: the gate with its epoch, tracked operations,
transfer leases, two purge queues, files. Correct when: the gate is open only for
the present session and with nothing of an earlier one on disk.

**Realtime connection** (`features/realtime`). State: manager (status, owner,
attempt, timers), tickets, sockets; controller (credentials, foreground, network).
Correct when: one live socket, of this session; never waiting for nobody; a
bounded number of tries.

**Chat subscription and transcript** (`features/chat/hooks/useTripChat.ts`,
`application/transcriptReducer.ts`). State: focus, access, epoch, subscribe
command with its timer; rows, pages, catch-up cursors, optimistic overlays.
Correct when: an open screen is subscribed, retrying or told why not; live again
means a catch-up is owed; at rest the transcript is what the server has.

**AI draft card** (`features/chat/ai`): preflight, confirmation, edit and
cancellation of a draft from a card that lists recycle, lock and mount again.
**Photo upload** (`features/photos/uploadSession.ts`): encoding, batches,
pause and stop; a photo whose answer is lost leaves the queue as unknown, is neither
looked up nor sent again, and the gallery is read again. **Notifications** (`features/notifications`): list and
badge merged from events, pages and counts. **Protected assets**
(`protectedAssetStore.ts`): a reference-counted cache in front of the gate.

### Web client

**Session gateway** (`app/api/auth`, `app/api/_lib/protected-upstream.ts`,
`features/auth`). State: two cookies shared by all tabs, refreshes in flight in
the server process, the access token and status of each tab. Hard: several tabs
refresh one token of a single use; an answer that is lost takes the next token
with it. Correct when: a token is under way once, the cookie is the newest token,
a session is called ended only when it is, a sign-out reaches every tab.
**Web chat, notifications, `ws-manager`, timeline**: the web counterparts of the
mobile parts, and forms.

### How they interact

Services call each other inside one transaction (expenses and trips refresh AI
drafts and write notifications). Tasks are sent by `transaction.on_commit`
through Celery with Redis; the row and the message are not atomic. The scheduler
service of `podman-compose.yml` runs `recover_ai_interactions` and
`recover_memory_renders` once a minute. Events reach the clients through channel
groups after commit, so that they may overtake each other. On the phone the
session publishes credentials to the realtime controller and shuts and opens the
media gate; the connection hands epochs to the chat subscription, which decides
when the transcript is fed live and when it catches up; the transcript shows the
drafts whose cards ask the backend. The web client reaches Django only through its
route handlers.

## 2. Modules

An action is a transaction, a native or network callback with the promise
continuations that follow it, or a message. Where the code is asynchronous
JavaScript, it is what runs between two awaits; operators with the name of the
code's function map one state to the next.

### MemoryRender

One trip, its members (`Users`, one of them `Captain`) and the primary keys
`Videos`. `row` is the table, with NULL as 0 in `started` (`render_started_at`)
and `key`, which stands for the random component of the attempt's path
(`_memory_video_render_attempt_storage_name`); `store` holds files as
`<<key, kind>>`. `queue` is a bag of messages with their retry count and due
time; `jobs` are the `on_commit` hooks that have not yet called `apply_async`;
`runs` are the tasks, each with the claim (`started`) it remembers and a phase
that says how far it is; `sweep` is the recovery command, with the candidates and
the cutoff it has read.

| Code | Actions |
| --- | --- |
| `create_trip_memory_video`, `delete_…`, `enable_…`, `disable_…` | `Create`, `Delete`, `DeleteFiles`, `EnableShare`, `DisableShare` |
| `cancel_trip` | `CancelTrip` |
| `_enqueue_trip_memory_render` | `Publish`, `PublishRaises`, `MarkEnqueueFailed`, `PublisherDies` |
| `_claim_memory_for_render` and the task's retry | `Claim`, `RetryLater`, `Ignore` |
| `_finish_memory_render_success` | `SaveVideo`, `SavePoster`, `CommitReady`, `Return`, `DiscardLost`, `FinishRaises`, `DiscardRaised` |
| `render_trip_memory_video` | `RenderRaises`, `MarkFailed` |
| lost worker, hard limit | `RunDies`, `Tick` |
| `recover_stale_memory_renders` | `SweepScan`, `SweepSkip`, `SweepFail`, `SweepRequeue` |

Two constants switch behaviours on that a run may want to exclude:
`AmbiguousPublish` (`apply_async` raises although the broker has the message) and
`LateException` (an exception after COMMIT). `FairSpec` leaves `PublisherDies`
out: no code repairs a QUEUED row whose hook died with its process, so that
liveness is stated of the runs in which no publisher dies.

### AIInteraction

One trip, as `ensure_ai_prompt_available` serialises prompts per trip. `row` has
status, `lock_expires_at` and `attempt_count`; `replies` counts the AI messages
posted for a prompt (1 is `response_message` set); `loose` holds the prompts with
drafts that no message carries. `Budgets`, `RetryDelays` and `TimeoutBudget`
stand for the retry policies by error code; a task picks one when it fails.
`Ask` is the AI branch of `send_chat_message`; `Publish`/`PublishFails` is
`enqueue_ai_interaction`; `Claim`, `RetryLater`, `Ignore` are
`claim_interaction_for_run`; `RunAgent` and `AgentFails` are
`run_goplan_ai_agent`; `FinishSuccess`, `FinishFailure`, `Release`, `Retry` are
the ends of the task; the `Recover…` actions are one transaction each of
`recover_stale_ai_interactions`, which decides at the instant of its scan. A
soft time limit and any other exception may arrive in every phase
(`SoftTimeout`, `TaskRaises`).

### ActionDraft

One draft, from the row that waits for a confirmation. The backend: `draft` (the
row; `base` is the version of the object it was built on, `body` a version of the
payload), `trip` (what confirmation compares with), `marking` (confirmations that
failed and have yet to record it), `ran` (what was executed). The phone: `feed`
(changes on their way to the transcript), `copy` and `over` (what the transcript
shows, and the card's overlay), `card`, `op` (the operation in progress), `stray`
(a confirmation the phone has given up and the server may still get).
`ConfirmActionDraft`, `MarkActionDraftFailed`, `PatchActionDraft`,
`CancelActionDraft`, `GetActionDraft` are the services, `TripMoves` the rest of
the trip; `Begin`, `PreflightReturns`, `ConfirmReturns`, `StatusReturns`,
`ChangeReturns`, `AnswerIsLost`, `Abort` the card's controller;
`MessageArrives`, `RendersChange`, `Mount`, `Unmount`, `BecomesDisabled` and
`BecomesEnabled` the list around it.

### Friends

`requests` and `friendships` are the tables, a friendship being a pair of users;
`tx` is the transaction of each server process: its operation, the statement it
comes to next (`pc`), what it works on and the user rows it holds. `Order` lists
the statements of `send_friend_request` and `accept_friend_request`. `LockRequest`
and `LockUser` wait while another transaction holds the row (`BlockedBy`); the
`Check…` actions read committed data and go on or roll back; `CommitSend` and
`CommitAccept` write, under the unique constraints of `friends/models.py`.
Declining, cancelling and removing lock one row and are one step. `count()` drops
`FOR UPDATE`, so that `_friend_count_locked` locks nothing, although its docstring
calls it a locking query: what keeps the limit is `_lock_user_pair` before it.

### RealtimeGateway

`chat` is the membership, the session and the messages; `hooks` the `group_send`
calls that committed transactions have still to make; `link` the connection: its
channel's place in the group and its events, what the consumer remembers
(`_chat_groups`), and the handler it is in between two awaits. `audit` is history.
Channels hands a consumer one message or event at a time, other actors step in
between: `Subscribe`, `CheckAccess`, `JoinGroup` are `_handle_chat_subscribe`;
`HandlePush`, `CheckPush`, `RefusePush`, `SendPush` a push; `HandleKick`
`chat_kicked_push`; `GroupSend` a hook that reaches the group late, or not at all,
or finds the channel full. A member who is removed between `CheckAccess` and
`JoinGroup` does join the group; the check before every push is what stops the
messages.

### Settlement and SettlementPlan

`Settlement` has one action per service; joining, leaving and closing the trip
are its environment. That a service is one step rests on the row lock of its `Trip`,
which every service takes first (`expenses/services.py`): the model has no
interleaving within a service, `PlanCurrent` is about the order of whole services,
and no property would notice the lock going missing. Money is in minor units. `Split` and `Plan` are constants:
the specification holds for every split and every plan, and `MCSettlement` gives
them the operators of `SettlementPlan`, which follow `split_amount_evenly` and
`build_settlement_transfers`. Three conversions are abstracted. The users of a
trip are numbered and the remainder of a split goes to the first of them; the
code orders by `joined_at` when it creates and by row order when it splits again,
and no property depends on which participant gets the odd unit. Among plans with
equally many groups the model takes any, the code the least by signature.
`MaxAmount` is the bound of `NUMERIC(14, 2)`, above which `finalize_settlement`
fails in its INSERT. The loop of `_build_group_transfers` and the recursion of
`_max_zero_sum_partition` are recursive functions, from the balances left and from
the people left. A debtor who has paid all has the balance 0, so that the indices of
the code are the first who still owes and the first who is still owed.

### MobileSession, PrivateMedia and MobileApp

`MobileSession`: `auth` is the credential lifecycle (phase, owner, ticket, active
and latest pair, activities, the close in progress), `store` and `queue` the
SecureStore with its serialized operations, `flights` the refreshes under way,
`rotation` a password change, `waiter` the API requests that meet a 401, `signin`
and `restore` the two ways in, `live` and `minted` the server's tokens. A pair of
tokens is one number. Actions follow the functions: `SendRequest`,
`Unauthorized`, `Answered` (`client.ts`); `ReadToken`, `PostRefresh`,
`RefreshAnswered`, `RefreshFailed`, `RefreshWritten` (`refresh.ts`);
`RestoreMe`, `Login`, `OpenSignIn`, `SignInWritten`, `SignOut`, `ChangePassword`,
`ChangeAnswered`, `RotationWritten` (`session.tsx`); `CloseDrained`,
`NetworkIdle`, `Revoke`, `ClearTokens`, `Cleared` (the close workflow);
`Restart` kills the process anywhere. A SecureStore operation may reject. The server's
half is in the repository too: `ServerRefresh` follows the rotation of
`accounts/serializers.py`, `ServerChange` the password change of
`accounts/services.py`, and `Login` the sign-in screen; which answers get lost is the
network's choice.

`PrivateMedia`: `gate` (open, session, foreground, epoch), the appended purges and
per namespace those that have run, `openers` (who waits to open the gate), tracked
operations with their leases, `files`. `MobileApp` composes the two: a close of
the credentials shuts the gate in its synchronous front half (`FollowClose`),
restore and sign-in open a media session and wait for it (`OpensMedia`,
`AwaitsMedia`), the revoke waits for private operations (`NetworkDrained`), a
restart takes both (`MediaRestart`).

### RealtimeConnection

`env` is what `RealtimeRuntimeController` observes (owner of the credentials,
foreground, network), `rt` the `WebSocketManager` with its tickets, sockets and
timers. The counter `connectRequestId` is compared for equality only, so that a
ticket or socket is `fresh` or not. Every notification, timer and socket event is
an action.

### ChatFeed, ChatSubscription and ChatTranscript

`ChatFeed` is the contract between the two halves of `useTripChat`: events come
only while the feed is live, and it does not become live without a catch-up that
begins afterwards. `ChatSubscription` (focus, access, epochs, the subscribe
command with acknowledgement, timer and retries, the server's replies in order)
implements it: `Feed == INSTANCE ChatFeed WITH …`, `FeedIsKept`.
`ChatTranscript` EXTENDS it: the reducer's rows `t`, the reads and cursors `h`,
the events and requests on the `wire`, the server `srv`. Messages are numbered; a
row carries the count of its last change, of its last change of content and of
its reactions, which is what the reducer and the user tell apart. The server follows
`chat/services.py`: mutations under the trip's change sequence, and the pages of
history, gap-fill and changes. It publishes after commit, so that events overtake
each other, and may be lost while the feed is off. The replies of `ChatSubscription`
(`ServerHandles`, `Reply`) follow `realtime/consumers.py`.

### UploadSession

`up` is the whole session: per photo its state, the file prepared for it and the
source that is owned, the batch, the candidate being adopted, what is in flight
and what the server has stored, the user's intent, and `pc`, which says what is
being awaited. `slow` tells whether deleting a file takes effect at once.

### NotificationInbox

`notes` are the server's rows, `pushes` the events under way, `inbox` the
provider's state (list, badge, cursor, versions, overrides, overlays), `calls` the
requests. A request is sent, served and answered in three steps, so that an answer
shows the server of an earlier moment. `Notify`, `ServeRead`, `ServeReadAll`,
`OtherDevice` are the server; `Deliver` and `Lose` the events (`realtimeReducer`);
`LoadAll`, `Refresh`, `LoadMore`, `StartRead`, `StartReadAll`, `StartAnswer` and
the `…Returns` the provider.

### WebSession

`jar` holds the two cookies, `tabs` what each tab shows and the access token it
keeps in memory, `reqs` the requests with everything their route handlers
remember, `inFlight` the map of `refreshWithSingleFlight`, `account` the tokens
the backend accepts. `Bootstrap`, `Ask`, `GiveUp`, `LoadPage`, `HearLogout`,
`BrowserReceives` are the tabs; `GatewayTakes`, `UpstreamAnswers`,
`FlightResolves`, `RetryAnswers` the handlers between awaits; `RefreshServed` and
`Accepted` the backend. An access token is the version of the password it was
issued under and may expire at any time; cookies are read when a request is sent
and written when its answer comes.

### The MC modules

`MCSettlement`, `MCBackend`, `MCMemoryRender` and `MCMobileClient` are sums:
parts that share no state, one chosen at the start, so that one run checks
several small systems. `MCMobileClient` has the phone's session, connection,
subscription, transcript, upload and inbox, and the browser's session;
`MCBackend` interactions, drafts, friends and the gateway; `MCSettlement` two instances of
`Settlement` and, with `MCSettlementPlan`, the arithmetic; `MCMemoryRender` one
video under every fault and two videos side by side.

## 3. Runs

| Run | What it asks | Instance |
| --- | --- | --- |
| `render_faults` | claims, files, final states, public view under every fault | 1 video, clock to 4, ambiguous publication, dying publishers; 2 videos of 2 members, clock to 3; 2 workers |
| `render_live` | no double rendering; every video settles | 1 video, 2 workers, clock to 5, deaths up to instant 3 |
| `backend` | one answer, one active prompt, one worker, drafts attached; a draft is executed as reviewed, never confirmed blindly, and its card settles; the friend limit, idle requests, no circle of waiting; what a removed member still gets | 2 prompts, 2 workers, clock to 3; a draft with 2 payloads, 1 move of the trip, 1 event under way; 3 users, 2 requests, 3 servers, limit 1; 2 messages, 3 removals and admissions, a channel of 2 |
| `ai_overlap` | every prompt is answered although two tasks overlap | 1 prompt, hard limit 3 over a lease of 2, clock to 5, 2 faults |
| `settlement` | plan current, funding, ledger, nobody stranded; plan and split against a reference | 3 users, 1 expense, 2 settlements; 2 users, 2 expenses, 1 settlement; 5 people with balances −3..3, optimal up to 4 people |
| `app` | the gate opens clean, the revoke is quiet, opening and closing end | 1 sign-in, 1 download, 1 upload, 1 restart, 1 move to the background |
| `client` | the safety of every client part, and the refinement of ChatFeed | see below |
| `render_late` | **violated**: a published row loses its files | `LateException` |
| `ai_recovery` | **violated**: recovery fails a prompt that is claimed anew | 1 prompt, out of attempts |
| `chat_content` | **violated**: a reaction that overtakes a change hides it for good | 1 message, 3 changes |
| `realtime_notice` | **violated**: the notice of an authentication failure disappears | 1 owner |
| `web_refresh` | **violated**: a page load loses the session to one failed request | 1 tab, 1 page load |

`client`, part by part: 2 sign-ins, 2 API requests, 4 pairs of tokens, 1 restart,
1 failed write; 2 owners of credentials and 1 reconnect; 2 subscribe attempts on
2 sockets with 3 messages each way; 2 messages and 2 changes with pages of 1; 4
photos, the second unreadable, batches of 2; an inbox with 1 old and 1 new
notification, one of the two an invitation, pages of 1 and 3 moves; 2 tabs with 2
page loads, 1 further request and 1 that is given up, 2 requests at a time.

**Bounds and why they are enough.** `MaxTime` bounds the clock: 3 to 5 ticks with
a threshold of 1 or 2 let a claim be made, go stale at the boundary and past it,
be taken over, and the loser act after the winner. Two workers are the two
parties of every race on a row; a third would repeat the part of one of them, and
the theorems hold for any number. Friends has three
servers, so that a circle of three could form, and three users, so that two
acceptances share one of them at the limit. `MaxRetries`, `MaxRecoveries`, `MaxAttempts`,
`MaxBusyRetries` and the budgets are 0 or 1, so that both the last allowed and
the first refused attempt occur. `LastCrash`, `LastFault` and `MaxFaults` bound
faults; liveness needs them to stop, safety runs let them happen until nearly the
end. Two prompts are enough for a conflict between prompts. In the settlements
two or three users and amounts from {0, 1, 3} give missing money, exact funding
and a surplus; two settlements let marks of the first meet the second. Five users
and a limit of four for the optimal search reach both branches of
`build_settlement_transfers`; the shipped limit is 16. On the phone every race is
between the present and the last session, epoch, page or request: two of each,
and a third token pair or socket for what comes after them. Two tabs share a
cookie; a third would repeat one of them. Larger instances were run by hand: the
browser with 2 further requests (5.5 million states), the inbox with 2
invitations and 3 moves (8 million), the draft with 3 payloads.
`CHECK_DEADLOCK FALSE` stands where the bounded clock or the finished input lets
the system stop. Symmetry is used for safety only, on model values that occur in
quantifiers and as indices.

**Fairness.** Backend: weak fairness on the hooks, on delivery, on the steps of
tasks, on the recovery and on the clock. A hook runs in its process right after
COMMIT, the broker hands messages to waiting workers, a task that is not killed
goes on, and the scheduler service runs the recovery commands in an endless loop
(`podman-compose.yml:121`, restarted unless stopped). No fairness is assumed of
members, of deaths or of exceptions. A process that dies between COMMIT and its
hook leaves a QUEUED video nobody sends again, since the sweep looks at RENDERING
rows only; `EventuallySettled` is checked without this fault. Phone
(`AppFairness`): requests are answered or time out, SecureStore calls and purges
settle, promises resume, the app comes to the foreground; nothing is assumed of
the user, the server or callers.

**What the violations say.**

1. `memory_video_services.py:813`: the handler that removes an attempt's files
   covers the transaction that publishes them. An exception after its COMMIT, such
   as the soft time limit, removes the files of a READY row, and the UPDATE to
   FAILED no longer matches.
2. `ai/services.py:189`: the recovery decides to give up under locks and fails the
   interaction after releasing them. A message claimed in between is failed while
   its task works with a fresh lock; the command's help speaks of interactions
   "whose worker lock expired". The prompt still gets one answer (`OneAnswer`),
   but an error where the task was about to succeed.
3. `transcriptReducer.ts:307`: a reaction event raises the `change_sequence` of
   the row it patches without having its content. An earlier full row that comes
   later, live or by a catch-up, is then old and dropped: the old text stays.
   `TranscriptConverges` shows what does converge.
4. `WebSocketManager.ts:257`: the diagnostics of an authentication failure are kept
   only while `currentOwner` is set, and the first transition clears it; a second
   one (offline in the background) removes the notice while the manager goes on
   refusing the credentials.
5. `app/api/auth/me/route.ts:53`: the new refresh token is set only after the
   request for the user has succeeded. When that fails transiently, the browser
   keeps a token the backend has revoked, and the retries of `bootstrap()` end in
   a sign-out. The other protected calls set the token first.

**Exceptions that the properties state.** They are behaviours of the code that a
reader should know of.

- `ReadyIsFinal`, `PublicStays`: the UPDATE after a failed `apply_async` has no
  condition, so that a READY video may become FAILED when a requeue cannot be sent
  and an older message has been rendered meanwhile.
- `ReadIsEarned`, `ReadStays` (in `ClientSteady`): a `read_all` event names no rows, so that a late one
  marks newer rows as read (`swept`) until a page corrects it.
- `AnswersHold`: a row re-added from a `created` event comes without overrides, so
  that an answered invitation may be offered again until the next reload. The property
  exempts an invitation whose `created` envelope arrived. In the run's instance the
  one invitation is the old notification, so that this exemption is not used there;
  the theorem covers any set of invitations. A badge
  may stay withheld (`Unknown`) until the next count.
- `StopIsTerminal`: a stop that comes while a pause awaits its discards is
  overwritten by the pause if deletion is not immediate (`slow`).
- `CookieIsNewest`: the cookie may be an older token when a request was given up
  (its handler rotates, nobody receives), when the answer of a rotation was lost on
  its way to the server, when an older answer comes after a newer one, and in case
  5 above (`history.lapses`). `SignOutIsShared` excludes a session the backend
  ended, of which other tabs are not told.
- Not claimed, as the code does not do it: a sign-out whose access token has expired
  refreshes first and then revokes the old refresh token only; a bootstrap answered
  after a sign-out was heard signs the tab in again.

## 4. Theorems

Each proof module EXTENDS its specification and proves an inductive invariant,
which the runs' instances satisfy; TLC is used first to find out whether it holds.
Every theorem holds for all values of the constants that their assumptions allow.

**MemoryRenderProofs.** From `ConstantsAssumption` alone:
`TypeCorrect`, `ClaimsDistinct`, `LosersSpareWinners`, `RowsHaveTheirFiles`
(without `LateException`), `QuotaAlways`, `FailedStaysFailed`, `OneTaskRenders`,
`ReadyStaysReady`, `PublicStaysPublic` (without `LateException`). Distinct claims are
not inductive: `ClaimInv` adds that a task's claim is not later than the row's
present claim, and earlier than the clock once the row is queued again; a new
claim then differs from all of that row's because a row is claimed again only
after it went stale, which takes at least one tick. For the files `FileInv` says
who may know an attempt key: one task, then one row, then one deletion, and only a
task that has published shares it with the row. The quota needs only that rows in
progress are finite and that the sweep moves a row within them. That one task
renders at a time is `TimeInv`: a task ends by its hard limit, and when no claim
goes stale before that, a row with a task is never queued again. The two action
properties need no further induction: `ClaimInv` tells a late task that the row is
no longer its own, and `FileInv` that what it deletes is not the row's.

**BackendProofs: AIInteraction.** `TypeCorrect`, `OneAnswerEach` and `AnswersStay` hold for
every lease and limit: the test of `response_message` under the lock is enough.
`LeaseIsExclusive`, `WorkersAreAlone` and `NoDraftIsLeftBehind` assume
`HardLimit <= LockTTL` in their statement. `LeaseInv` says that no task
outlives its hard limit, that until it releases its row a task has the lease it
took (the row is RUNNING and its lock is the task's start plus the lease), unless
the prompt has been answered, and that no two such tasks have one prompt; with the
recovery's decisions at an instant not later than now, that is inductive.

**BackendProofs: ActionDraft.** `DraftTypeCorrect`, `DraftExecutesAsReviewed`,
`DraftNeverConfirmsBlind`, `CardAlwaysSettles`. `DraftInv` follows a payload from the screen to the
row: a confirmation that was sent after its preflight names a payload the user was
shown; only a draft that is still editable changes its payload, and one that the
preflight found ready never again; a confirmation whose answer is missing leaves
`doubt` standing through every mount, lock and overlay until a status check has
shown its outcome; a draft at rest without doubt has nothing outstanding. The
second conjunct, that a late confirmation executes what was reviewed, is what the
first alone does not imply. `SettleInv` orders what the phone has seen of the row
by version and by how final it is: the copy, what is under way and what is owed
come in the order of their changes and the last of them is the newest, an overlay
covers only what is not newer than itself, and the card's draft is not older than
the message it was rendered from. So once nothing is under way nothing but the
newest version can be shown.

**BackendProofs: Friends.** `FriendsTypesHold`, `FriendsStaySound`,
`NobodyWaitsInACircle`. `LockInv` says which rows
a transaction holds at each statement, that no row has two holders, and that a
request whose row is held stays pending. Transactions past the lock of their pair
therefore share no user, so that what one has read of its users' friends and
requests (`ChecksHold`) is still true when it commits: only a commit adds to them,
refusals and removals take away. At a commit the counts are those the checks saw.
Nobody waits in a circle because whoever holds a first user asks for one with a
greater key: along a circle the servers that are ahead would become fewer and
fewer, which the strict subsets of a finite set do not allow. That is why
`Servers` is assumed to be finite.

**BackendProofs: RealtimeGateway.** `GatewayStaysSound`. `GatewayInv` says that only what has
been posted is under way, that a member may read all there is and a push past its
check what it carries, and that a channel is in the group without the consumer
knowing only if the layer failed. A subscription that was granted during a removal
does not break it: whoever is found removed has just been taken out, and joins
again only after an admission.

**SettlementProofs: Settlement.** For every `Split` and `Plan` of the assumed types:
`TypeCorrect`, `PlanStaysCurrent`, `LocksFollowSettlement`,
`CollectorsParticipate`, `LedgerIsComplete`. The plan stays current because
balances depend on live expenses only and those are locked while a settlement is
in force (`LockedWhileFinal` is half of the induction); the ledger needs that
marks are made on transfers in force and that settlement numbers grow.
`FundedStaysBalanced` takes one hypothesis more, that a split adds up to what it
splits (`SplitsAddUp`; lemma `EvenSplitsAddUp`: the split of the code does). The
invariant beside `Inv` is that the shares of an expense add up to its total
(`SharesAddUp`): then the surplus of a funded expense, which its collector holds, is
what its participants' own balances add up to, and sums by expense are swapped with
sums by user. `SettlementSettles` joins the two modules: if the plan is the one of
`build_settlement_transfers`, the transfers in force settle the balances of this
moment, since only level balances are finalized and nothing moves them until a reopen.
`SettlementIsShortest` adds that up to `MaxOptimal` people no set of transfers
whatever settles them with fewer: from any such set a grouping is built that has at
least as many groups as people less transfers (`SettlingGroups`: a transfer joins two
groups at most), people without a balance can be left out of it (`LeaveAll`), and the
partition of the code has as many groups as any.

**SettlementProofs: SettlementPlan.** `SplitStaysFair` and `TransfersStayPlanned`, for
any finite set of numbered people, any balances and any `MaxOptimal`. A split and a
plan are computed in one step, so that the invariant (`PlanInv`) only says what was
computed from what; the work is in what the recursive functions compute. The
library's induction theorems take an operator and cannot be used, but what
holds of a subset once it holds of all smaller ones can be stated of a set of
subsets: `SubsetsInduction` follows from the well-foundedness of strict subsets. The
sums, the matching (each transfer leaves fewer people with a balance,
`MatchInduction`) and the partition are unfolded and described by it. That the plan
settles (`MatchedSettles`) is an induction over transfers, which leave balances level;
at the end nobody owes, or nobody is owed, hence neither. That it has the fewest transfers is in
three parts: a group no part of which settles on its own takes one transfer less than
it has people (`MatchedCount`: a transfer that settled both people before the last would cut off
such a part); the partition found is a largest one (`BestIsGreatest`), whose groups
are of that kind (`GreatestIsMinimal`); and the largest of all assignments of people to
groups has as many groups (`GreatestCount`). That debts meet credits in order
(`MatchedMeet`) is that the first transfer is what the first two intervals have in
common and leaves every other overlap as it was (`LapsKept`).

**MobileSessionProofs.** `SessionTyped`, `SignOutRevokesAll`, `KeychainAgrees`,
`RefreshIsFresh`, `ReplaysAreOwn`, all from `SessionInvariant`; the one assumption
is that at least one token exists (`MaxTokens > 0`). None of the properties is inductive,
as each depends on who else may be under way. `SessionInv` says so part by part:
`Lifecycle`, what a phase knows of its pairs and that a pair published is not
ahead of the newest; `InForce`, that one ticket is in force (a close keeps the one
it closes), that flights, a password change and a sign-in run for it and exclude
each other, and that each has registered the activity a close waits for;
`QueueInOrder`, that the queue of SecureStore holds the writes of those who wait for one,
in the order of their tokens; `StoreFollows`, that the last write is of the newest
token; `TokensApart`, that a token has one owner; `LiveAccounted`, that every token the
server accepts is held by somebody, or its answer was lost. They take the
lifecycle as a parameter, since one step of the code often changes it and the
rest, and half of the lemmas are about the first change alone.

**ClientProofs: RealtimeConnection.** `RealtimeTyped`, `ConnectionStaysSound`,
from `RealtimeInvariant`. `RealtimeInv` says that the owner served is the one of
this moment (`Present`), that only what belongs to the present attempt is alive (`Ours`), that the
attempt is one ticket, one socket or one timer (`Single`), that a try is drawn from
the budget before it is made (`Drawn`), and that what waits is watched (`Watched`). It is stated of a
manager that is passed on from function to function, because a callback runs
through several of them before it returns.

**ClientProofs: ChatSubscription.** `SubscriptionTyped`. `SubscriptionImplementsFeed`: the
subscription refines `ChatFeed` (initial states map to initial states, every step
to a step or a stutter). It needs `RoomInv`: epochs recorded anywhere are not ahead
of the connection's, a run and a request belong to an acknowledged epoch, an
acknowledgement clears what was rejected (`EpochsStayInOrder`). `RoomStaysAttended`
adds who owns the timer: on an open, connected screen that is neither live nor
refused, the timer of this epoch is set. `SubscriptionStaysSound` adds the server:
by `ServerInv` an answer "subscribed" is under way only if the server has the room
or has taken it back behind that answer, so that an answer that is believed is
true or about to be corrected; and an open screen that says "subscribed" asks
anew as soon as a new socket opens.

**ClientProofs: UploadSession.** `UploadTyped`, `UploadStaysSound`, for any
selection and any size of a batch. `UploadInv` says that the photos the server may
have come, in the order of the selection, before all that may still be sent
(`InOrder`), which is why releasing a batch can move the cursor back without
offering one of them again; where every prepared file is and when (`FilesHeld`);
which deletions of sources are awaited (`SourcesHeld`); whose turn it is (`Turns`);
and what a terminal phase and a pause have given up (`Ends`). The session is
mapped from one state to the next by operators that call one another, so the lemmas
are about these: each keeps the invariant from a session in which nothing is
awaited, and an action is shown to leave such a session to the operator it calls.
`LeastExists`, that a finite set of numbers has a least element, is proved from the
strict subsets of a finite set, as induction is not to be had; the slot that a
browser's request takes needs it too.

**ClientProofs: WebSession.** `WebStaysTyped`, `WebStaysSound`, from
`WebInvariant`, for any number of tabs, loads, further requests and give-ups and
any finite set of slots. None of the four parts of `WebSound` is inductive. That a token is not
under way twice follows from `FlightsLed`: a request in flight waits for the slot
that the map has for its token, and that slot leads. That the jar holds the last
token follows from `TokensArrive`: while nothing has happened to an answer, the
last token issued has come or is in a request that is open, and what came last is
in the jar unless that was emptied. That an end is true is part of `RequestSound`,
what a request knows in each phase: a token whose refresh was answered is refused
for good, since the backend only adds tokens with a new number. That a sign-out is
shared is `EmptyIsTold`: whoever empties the jar has told the tabs at that moment,
and only an answer that fills the jar signs a tab in. A flight that resolves moves every
request that waits for it at once, which is why the lemma about it (`FlightMoves`) is
stated of all slots, and the others of one request.

**MobileAppProofs.** `GateStaysClean`: `GateInv` says that purges run never exceed
those appended, that a file that is not of the present epoch is doomed by a purge
that has not run, that an upload's file stays only under its lease, and that a gate
that is open is at rest. `RevokeStaysQuiet`: `Wired` ties the two modules, so that
a session that closes has shut the gate and no operation starts while it is shut.
`AppKeepsSession`: the composed app implements `MobileSession`, so that its theorems
hold of the app.

**NotificationInboxProofs.** `InboxTyped`, `InboxStaysSound` and `ReadsStay`, from
`InboxInvariant`, for any number of notifications, any size of a page and any
number of moves. Nothing of this is inductive by itself, since a page that was asked
long ago decides what is shown next. `InboxInv` therefore says of all that may still
reach the list (rows that came, marks, pages and counts under way, events) that it
claims no read that was not made (`Heard`); of the first page under way that it
leaves read what is shown as read, because the page itself, a mark of a later
version or the row that came later says so, and of a page that still offers an
answered invitation that a later mark closes it (`Shown`); and of the badge that it
is right unless something that will correct it is still to come (`Counted`: an event,
another count, or the answer of one asked at this version). The operators of the
reducer are told by one relation (`Told`): what a step of it may add to the list, to
the marks and to the overrides, so that each event and each answer is described once
and every part of the invariant is shown of that description.

**ChatTranscriptProofs.** `TranscriptTyped`, `TranscriptAlwaysConverges` and
`TranscriptStaysSteady`, from `TranscriptInvariant`, for any number of messages and
changes, any size of a page and any number of pages in a run. That a quiet
transcript has all of the room says nothing of the states before it is quiet, so
that `TranscriptInv` follows every message on its way. `Copies` says that no copy of a
row, on the wire, in a page, in a patch, on the screen or in a call, is ahead of the
server's, and that copies of one change agree; `Screen`, which rows are hidden and which
are pending, so that there is one bubble for a message; `Hook`, that reads take turns,
what each phase of a run knows, and where its floor may be; `Pages`, what a page that was
answered still holds of the room as it is now, although the room has changed since;
`Floor`, that every message up to the base of the next run is known and every change
up to it taken; and `Promised`, the heart of it: unless a catch-up is owed, every
message is known, announced or about to be found by the run under way, and so is its
last change. Each way a row comes in is one operator of the reducer, about which
there is one lemma; that the highest sequence taken only grows is why a floor once
passed stays passed.

**Only model-checked.** Liveness (`EventuallySettled`, `EveryPromptAnswered`,
`SessionSettles`) and `NobodyIsStranded`, which uses ENABLED, are out of the
prover's reach. `ClientTypeOK` and
`ClientSteady` join properties of parts that run side by side and share no state; each
part is proved by itself (the `Typed` theorems, `TranscriptStaysSteady`, `ReadsStay`).
**Only proved**, in no run: the type invariants of the
backend modules, `AnsweredIsFinal`, `LockedWhileFinal`, `CollectorParticipates`,
`FailedIsFinal`, `QuotaHolds`, `DueSettles`, `DueIsShortest`.

## 5. Not modelled

Reads without effect, titles, currencies, wording, choice of photos and music,
ffmpeg, prompts and provider of the AI, layout: nothing above depends on them. The
mobile and web sources are largely screens, forms, styles and API mappings without
a protocol, which is why the models cover a small share of their lines. Photos,
location search and media have no protocol beyond one request; the protected asset
store is decided by the gate that is modelled. What remains worth modelling:

1. **Locks across services.** `NoWaitCycle` speaks of the friend services among
   themselves. The reminder dispatch (`trips/services.py:1066`) locks every table
   of its join, and notifications and members take a share of the user rows they
   refer to when they commit; such a transaction may meet one that locks the same
   rows in another order, and PostgreSQL then aborts one of the two. Which rows of
   a join are locked first is up to the query plan, and nothing in the code
   promises that it does not happen.
2. **The rest of the gateway.** One-use tickets and the limit of subscriptions per
   connection (`realtime/consumers.py:165`), which the client's side in
   `ChatSubscription` already meets as an error. Invitations and the lifecycle of a
   trip are one transaction each under the trip's row lock.
3. **A lost push to a live feed.** `push_chat_message` swallows a failing
   `group_send` (`chat/services.py:421`), and the feed stays live: the transcript then
   lacks the change until the next catch-up. `ChatTranscript` loses events only while
   the feed is off, so that `TranscriptConverges` does not speak of this loss.
4. **The statements of a settlement service.** They are one step under the lock of the
   `Trip`. A model statement by statement would show nothing more as long as each
   takes that lock first, and the lock going missing is left to review and tests.
5. **Web chat, notifications and `ws-manager`.** The web counterparts of
   `ChatTranscript`, `ChatSubscription`, `NotificationInbox` and
   `RealtimeConnection`, written independently of them.
