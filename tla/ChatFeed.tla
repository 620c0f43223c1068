------------------------------ MODULE ChatFeed ------------------------------
(***************************************************************************)
(* What the transcript of a chat room may rely on, whatever the connection *)
(* and the subscription go through: live events come only while the feed   *)
(* is live, and the feed never becomes live, after a time when events were *)
(* lost, without a catch-up read that begins afterwards.                   *)
(***************************************************************************)

VARIABLES
  feed,     \* off, live, or shut for good
  wanted,   \* a catch-up is owed
  running   \* a catch-up is reading

feedVars == <<feed, wanted, running>>

GoLive ==
  /\ feed = "off" /\ feed' = "live"
  /\ wanted' \in BOOLEAN /\ running' \in BOOLEAN
  /\ wanted' \/ running'

GoOff ==
  /\ feed = "live" /\ feed' = "off"
  /\ wanted' = FALSE /\ running' = FALSE

\* A read that is owed is given up by starting it, or not at all.
StayLive ==
  /\ feed = "live" /\ feed' = "live"
  /\ wanted' \in BOOLEAN /\ running' \in BOOLEAN
  /\ wanted /\ ~wanted' => running'

Shut ==
  /\ feed # "shut" /\ feed' = "shut"
  /\ wanted' = FALSE /\ running' = FALSE

FeedInit == feed = "off" /\ wanted = FALSE /\ running = FALSE

FeedNext == GoLive \/ GoOff \/ StayLive \/ Shut

FeedSpec == FeedInit /\ [][FeedNext]_feedVars

=============================================================================
