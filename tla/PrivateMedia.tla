---------------------------- MODULE PrivateMedia ----------------------------
(***************************************************************************)
(* The private-media gate of the mobile app: one acquisition gate, an      *)
(* epoch that every boundary moves, tracked operations, transfer leases    *)
(* and the two purge queues that have to run dry before a gate opens.      *)
(*                                                                         *)
(* A queue is a number of purges appended (the same for both) and, per     *)
(* namespace, the number that have run.  Files are the committed ones:     *)
(* what a stream still writes is discarded by the operation that owns it.  *)
(***************************************************************************)
EXTENDS Naturals, FiniteSets

CONSTANTS
  Downloads,  \* protected operations: asset loads, list and delete requests
  Uploads,    \* transfer runs, each holding a lease on its temporary files
  MaxToggles  \* bound: moves of the app to the background

ASSUME MediaBounds == MaxToggles \in Nat /\ Downloads \cap Uploads = {}

VARIABLES
  gate,     \* module state of privateMediaLifecycle.ts
  purged,   \* purges that have run, per namespace
  openers,  \* continuations of openAfterStablePurge
  op,       \* the tracked operations
  leases,   \* uploads that hold a transfer lease
  files,    \* committed private files
  toggles   \* times the app went to the background

mediaVars == <<gate, purged, openers, op, leases, files, toggles>>

Operations == Downloads \cup Uploads

Namespaces == {"protected", "upload"}

AtRest == [pc |-> "idle", epoch |-> 0]

\* Every purge that was appended has run.
Drained == \A n \in Namespaces : purged[n] = gate.purges

-----------------------------------------------------------------------------
(* Boundaries.                                                             *)

\* runInvalidationFrontHalf: close, move the epoch, abort, append a purge.
Invalidate(g, aborted) ==
  /\ gate' = [g EXCEPT !.open = FALSE, !.epoch = @ + 1, !.purges = @ + 1]
  /\ op' = [o \in Operations |->
       IF o \in aborted /\ op[o].pc = "running" THEN [op[o] EXCEPT !.pc = "aborted"] ELSE op[o]]
  /\ UNCHANGED <<purged, openers, leases, files>>

\* Sign-out: a session boundary that also aborts transfers.
BeginShutdown ==
  /\ Invalidate([gate EXCEPT !.act = @ + 1, !.session = FALSE], Operations)
  /\ UNCHANGED toggles

\* startPrivateMediaSession up to its first await.
StartSession(owner, foreground) ==
  /\ gate' = [gate EXCEPT !.act = @ + 1, !.session = TRUE, !.open = FALSE,
                          !.fg = foreground, !.purges = @ + 1]
  /\ openers' = openers \cup
       {[owner |-> owner, act |-> gate.act + 1, rev |-> gate.purges + 1, pc |-> "draining"]}
  /\ UNCHANGED <<purged, op, leases, files, toggles>>

\* The app goes to the background: transfers that run may settle.
Suspend ==
  /\ toggles < MaxToggles /\ gate.fg /\ toggles' = toggles + 1
  /\ LET g == [gate EXCEPT !.fg = FALSE, !.act = @ + 1] IN
     IF gate.session /\ gate.open THEN Invalidate(g, Downloads)
     ELSE /\ gate' = g
          /\ UNCHANGED <<purged, openers, op, leases, files>>

\* The app comes back.
Foreground ==
  /\ ~gate.fg
  /\ IF ~gate.session \/ gate.open
     THEN gate' = [gate EXCEPT !.fg = TRUE] /\ UNCHANGED openers
     ELSE /\ gate' = [gate EXCEPT !.fg = TRUE, !.act = @ + 1]
          /\ openers' = openers \cup
               {[owner |-> "resume", act |-> gate.act + 1, rev |-> gate.purges, pc |-> "draining"]}
  /\ UNCHANGED <<purged, op, leases, files, toggles>>

-----------------------------------------------------------------------------
(* Purges and the opening of the gate.                                     *)

\* Mutant: upload files are purged under the transfers that use them.
PurgeAtOnce(n) ==
  /\ purged[n] < gate.purges
  /\ purged' = [purged EXCEPT ![n] = @ + 1]
  /\ files' = {f \in files : f.ns # n}
  /\ UNCHANGED <<gate, openers, op, leases, toggles>>

\* The next purge of n runs; upload files wait until no lease is held.
Purge(n) ==
  /\ purged[n] < gate.purges
  /\ n = "upload" => leases = {}
  /\ purged' = [purged EXCEPT ![n] = @ + 1]
  /\ files' = {f \in files : f.ns # n}
  /\ UNCHANGED <<gate, openers, op, leases, toggles>>

\* flushPrivateMediaPurge returns to opener w.
FlushReturns(w) ==
  /\ w.pc = "draining" /\ Drained
  /\ openers' = (openers \ {w}) \cup {[w EXCEPT !.pc = "drained"]}
  /\ UNCHANGED <<gate, purged, op, leases, files, toggles>>

\* The continuation: stale, overtaken by another purge, or the gate opens.
Decide(w) ==
  /\ w.pc = "drained"
  /\ \/ /\ gate.act # w.act \/ ~gate.session \/ ~gate.fg
        /\ openers' = openers \ {w}
        /\ UNCHANGED gate
     \/ /\ gate.act = w.act /\ gate.session /\ gate.fg
        /\ IF w.rev # gate.purges
           THEN /\ openers' = (openers \ {w}) \cup {[w EXCEPT !.pc = "draining", !.rev = gate.purges]}
                /\ UNCHANGED gate
           ELSE /\ openers' = openers \ {w}
                /\ gate' = [gate EXCEPT !.open = TRUE]
  /\ UNCHANGED <<purged, op, leases, files, toggles>>

-----------------------------------------------------------------------------
(* Tracked operations.                                                     *)

StartOperation(o) ==
  /\ op[o].pc = "idle" /\ gate.open
  /\ op' = [op EXCEPT ![o] = [pc |-> "running", epoch |-> gate.epoch]]
  /\ leases' = IF o \in Uploads THEN leases \cup {o} ELSE leases
  /\ UNCHANGED <<gate, purged, openers, files, toggles>>

\* An upload run adopts an encoded photo into its namespace.
AdoptTemp(o) ==
  /\ o \in Uploads /\ op[o].pc = "running"
  /\ files' = files \cup {[ns |-> "upload", epoch |-> op[o].epoch]}
  /\ UNCHANGED <<gate, purged, openers, op, leases, toggles>>

\* A download passes its commit barrier and registers the staged file.
Commit(o) ==
  /\ o \in Downloads /\ op[o].pc = "running"
  /\ gate.open /\ op[o].epoch = gate.epoch
  /\ op' = [op EXCEPT ![o] = AtRest]
  /\ files' = files \cup {[ns |-> "protected", epoch |-> op[o].epoch]}
  /\ UNCHANGED <<gate, purged, openers, leases, toggles>>

\* Mutant: an aborted transfer does not give its lease back.
SettleKeepingLease(o, kept) ==
  /\ op[o].pc # "idle"
  /\ op' = [op EXCEPT ![o] = AtRest]
  /\ leases' = IF op[o].pc = "aborted" THEN leases ELSE leases \ {o}
  /\ UNCHANGED <<gate, purged, openers, files, toggles>>

\* Any other end.  An upload discards its files, or keeps a throttled batch.
Settle(o, kept) ==
  /\ op[o].pc # "idle"
  /\ o \in Downloads => kept
  /\ op' = [op EXCEPT ![o] = AtRest]
  /\ leases' = leases \ {o}
  /\ files' = IF kept THEN files ELSE {f \in files : f.ns # "upload"}
  /\ UNCHANGED <<gate, purged, openers, toggles>>

-----------------------------------------------------------------------------
InitGate == [session |-> FALSE, open |-> FALSE, fg |-> TRUE, act |-> 0,
             epoch |-> 0, purges |-> 0]

\* A cold start may find the files of an earlier process.
MediaInit ==
  /\ gate = [InitGate EXCEPT !.epoch = 1] /\ purged = [n \in Namespaces |-> 0]
  /\ openers = {} /\ op = [o \in Operations |-> AtRest] /\ leases = {}
  /\ files \in {{}, {[ns |-> n, epoch |-> 0] : n \in Namespaces}}
  /\ toggles = 0

\* The process dies and starts again: files stay, all else is new.
MediaRestart ==
  /\ gate' = [InitGate EXCEPT !.epoch = gate.epoch + 1]
  /\ purged' = [n \in Namespaces |-> 0]
  /\ openers' = {} /\ op' = [o \in Operations |-> AtRest] /\ leases' = {}
  /\ UNCHANGED <<files, toggles>>

MediaNext ==
  \/ Suspend \/ Foreground
  \/ \E n \in Namespaces : Purge(n)
  \/ \E w \in openers : FlushReturns(w) \/ Decide(w)
  \/ \E o \in Operations :
       \/ StartOperation(o) \/ AdoptTemp(o) \/ Commit(o)
       \/ \E kept \in BOOLEAN : Settle(o, kept)

-----------------------------------------------------------------------------
\* Type invariant; owners are those who may wait for the gate to open.
MediaTypeOK(owners) ==
  /\ gate \in [session : BOOLEAN, open : BOOLEAN, fg : BOOLEAN, act : Nat,
               epoch : Nat, purges : Nat]
  /\ purged \in [Namespaces -> Nat]
  /\ openers \subseteq
       [owner : owners, act : Nat, rev : Nat, pc : {"draining", "drained"}]
  /\ op \in [Operations -> [pc : {"idle", "running", "aborted"}, epoch : Nat]]
  /\ leases \subseteq Uploads
  /\ files \subseteq [ns : Namespaces, epoch : Nat]
  /\ toggles \in 0..MaxToggles

\* The gate is open only for the session and the foreground it was opened
\* for, with both purge queues dry and no private file of an earlier session
\* or of an earlier foreground left: no purge can delete what is staged from
\* now on, and nothing older can be shown.
GateIsClean ==
  gate.open =>
    /\ gate.session /\ gate.fg /\ Drained
    /\ \A f \in files : f.epoch = gate.epoch

=============================================================================
