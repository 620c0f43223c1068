--------------------------- MODULE MCMobileClient ---------------------------
(***************************************************************************)
(* Model checking of the parts of the clients that share no state, six of  *)
(* the phone and the browser's session: one of them is chosen at the start *)
(* and runs, the others stay as they are at their start.                   *)
(***************************************************************************)
EXTENDS MobileSession, RealtimeConnection, ChatSubscription, ChatTranscript, UploadSession,
        NotificationInbox, WebSession, TLC

VARIABLE part   \* the part that runs

clientVars == <<part, vars, rtVars, chatVars, transcriptVars, up, inboxVars, webVars>>

Parts == {"session", "realtime", "subscription", "transcript", "upload", "inbox", "browser"}

ClientInit ==
  /\ part \in Parts
  /\ Init /\ RealtimeInit /\ SubscriptionInit /\ TranscriptInit /\ UploadInit
  /\ InboxInit /\ WebInit
  /\ part # "session" => store = None /\ live = {}
  /\ part # "realtime" => env.urlValid
  /\ part # "upload" => ~up.slow
  /\ part # "browser" => jar.tok = 0

ClientNext ==
  /\ UNCHANGED part
  /\ \/ part = "session" /\ Next /\ UNCHANGED <<rtVars, chatVars, transcriptVars, up, inboxVars, webVars>>
     \/ part = "realtime" /\ RealtimeNext /\ UNCHANGED <<vars, chatVars, transcriptVars, up, inboxVars, webVars>>
     \/ part = "subscription" /\ SubscriptionNext /\ UNCHANGED <<vars, rtVars, transcriptVars, up, inboxVars, webVars>>
     \/ part = "transcript" /\ TranscriptNext /\ UNCHANGED <<vars, rtVars, chatVars, up, inboxVars, webVars>>
     \/ part = "upload" /\ UploadNext /\ UNCHANGED <<vars, rtVars, chatVars, transcriptVars, inboxVars, webVars>>
     \/ part = "inbox" /\ InboxNext /\ UNCHANGED <<vars, rtVars, chatVars, transcriptVars, up, webVars>>
     \/ part = "browser" /\ WebNext /\ UNCHANGED <<vars, rtVars, chatVars, transcriptVars, up, inboxVars>>

ClientSpec == ClientInit /\ [][ClientNext]_clientVars

\* The configuration gives Tabs the values of Callers, which no part uses together.
Symmetry == Permutations(Callers)

\* The type invariant of the part that runs.
ClientTypeOK ==
  CASE part = "session" -> TypeOK
    [] part = "realtime" -> RealtimeTypeOK
    [] part = "subscription" -> SubscriptionTypeOK
    [] part = "transcript" -> TranscriptTypeOK
    [] part = "upload" -> UploadTypeOK
    [] part = "inbox" -> InboxTypeOK
    [] part = "browser" -> WebTypeOK

\* What the phone has once shown is not taken back by an answer that is older: no
\* row of the transcript goes back to an earlier change, and no notification that
\* the user has read turns unread.
ClientSteady == TranscriptSteady /\ ReadStays
=============================================================================
