----------------------------- MODULE MobileApp -----------------------------
(***************************************************************************)
(* The session and the private-media gate together, as session.tsx wires   *)
(* them: a close shuts the gate in its synchronous front half and revokes  *)
(* only when no private operation runs; restore and sign-in open a media   *)
(* session and go on when that has drained the purges of the last one.     *)
(***************************************************************************)
EXTENDS MobileSession, PrivateMedia

appVars == <<vars, mediaVars>>

\* onClosing runs in the step that leaves a usable phase.
Closes == Usable(auth) /\ auth'.phase = "closing"

FollowClose == IF Closes THEN BeginShutdown ELSE UNCHANGED mediaVars

Returned(owner) == \A w \in openers : w.owner # owner

OpensMedia ==
  \/ BeginRestore /\ StartSession("restore", gate.fg)
  \/ \E s \in SignIns, ok \in BOOLEAN :
       /\ SignInWritten(s, ok)
       /\ IF SignInGoesOn(s, ok) THEN StartSession(s, gate.fg) ELSE FollowClose

AwaitsMedia ==
  \/ Returned("restore") /\ RestoreMedia(gate.open) /\ FollowClose
  \/ \E ok \in BOOLEAN : RestoreMe(ok /\ gate.open) /\ FollowClose
  \/ \E s \in SignIns : Returned(s) /\ SignInMedia(s, gate.open) /\ FollowClose

\* Mutant: the revoke does not wait for the network.
RevokeAtOnce == NetworkIdle /\ UNCHANGED mediaVars

\* The activity registry is empty: the revoke may go.
NetworkDrained ==
  NetworkIdle /\ (\A o \in Operations : op[o].pc = "idle") /\ UNCHANGED mediaVars

AppInit == Init /\ MediaInit

AppNext ==
  \/ CredentialNext /\ FollowClose
  \/ OpensMedia
  \/ AwaitsMedia
  \/ NetworkDrained
  \/ Restart /\ MediaRestart
  \/ MediaNext /\ UNCHANGED vars

AppSpec == AppInit /\ [][AppNext]_appVars

AppFairness ==
  /\ WF_appVars(FlightMoves /\ FollowClose)
  /\ WF_appVars((ChangeFailed \/ ChangeAnswered) /\ FollowClose)
  /\ WF_appVars(RotationWritten(TRUE) /\ FollowClose)
  /\ WF_appVars(\E s \in SignIns : OpenSignIn(s) /\ FollowClose)
  /\ WF_appVars(OpensMedia) /\ WF_appVars(AwaitsMedia) /\ WF_appVars(NetworkDrained)
  /\ WF_appVars((CloseDrained \/ Revoke \/ ClearTokens \/ Cleared(TRUE)) /\ FollowClose)
  /\ WF_appVars(Foreground /\ UNCHANGED vars)
  /\ \A n \in Namespaces : WF_appVars(Purge(n) /\ UNCHANGED vars)
  /\ WF_appVars(\E w \in openers : FlushReturns(w) /\ UNCHANGED vars)
  /\ WF_appVars(\E w \in openers : Decide(w) /\ UNCHANGED vars)
  /\ \A o \in Operations : WF_appVars((Commit(o) \/ Settle(o, TRUE)) /\ UNCHANGED vars)

AppFairSpec == AppSpec /\ AppFairness

-----------------------------------------------------------------------------
\* The access token is revoked, and the durable one deleted, only when no
\* request of the session is under way that could still use or renew it, and
\* the gate is open only while the session is usable.
RevokeIsQuiet ==
  /\ auth.close \in {"revoke", "clear"} => \A o \in Operations : op[o].pc = "idle"
  /\ gate.open => Usable(auth)

\* Opening and closing end: a sign-in waits for purges, purges for leases,
\* leases for requests, a close for activities and requests, and none of them
\* for each other.
SessionSettles ==
  auth.phase \in {"opening", "closing"} ~> auth.phase \in {"active", "signedOut"}

=============================================================================
