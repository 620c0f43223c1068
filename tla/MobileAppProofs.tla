-------------------------- MODULE MobileAppProofs --------------------------
(***************************************************************************)
(* The private-media gate of the app is clean whenever it is open, for any *)
(* number of sign-ins, requests, transfers, restarts and moves to the      *)
(* background.  The gate opens on a count of purges; the inductive         *)
(* invariant says why that count can be trusted: an upload that began      *)
(* before the last boundary still holds back a purge of its namespace, and *)
(* so does every file of an earlier boundary, from the moment it is left   *)
(* over until the purge that deletes it.                                   *)
(***************************************************************************)
EXTENDS MobileApp, TLAPS

Gates == [session : BOOLEAN, open : BOOLEAN, fg : BOOLEAN, act : Nat, epoch : Nat, purges : Nat]

Owners == SignIns \cup {"restore", "resume"}

\* The counts of purges.
Counted ==
  /\ \A n \in Namespaces : purged[n] <= gate.purges
  /\ gate.session => gate.purges > 0
  /\ \A w \in openers :
       /\ w.rev <= gate.purges
       /\ w.pc = "drained" => \A n \in Namespaces : w.rev <= purged[n]

\* An upload of an earlier epoch holds its lease, so its purge is to come.
UploadsHeld ==
  \A o \in Uploads : op[o].pc # "idle" =>
    /\ o \in leases
    /\ op[o].epoch # gate.epoch => purged["upload"] < gate.purges

\* A file of an earlier epoch is to be purged; before the first session
\* nothing has been asked for yet.
FilesDoomed ==
  \A f \in files : f.epoch # gate.epoch => purged[f.ns] < gate.purges \/ gate.purges = 0

OpenAtRest == gate.open => gate.session /\ gate.fg /\ Drained

GateInv == MediaTypeOK(Owners) /\ Counted /\ UploadsHeld /\ FilesDoomed /\ OpenAtRest

-----------------------------------------------------------------------------
\* What the two counters of the gate do to its type.
LEMMA GateShape ==
  ASSUME NEW g \in Gates, NEW b \in BOOLEAN, NEW c \in BOOLEAN
  PROVE  /\ [g EXCEPT !.open = FALSE, !.epoch = @ + 1, !.purges = @ + 1] \in Gates
         /\ [g EXCEPT !.act = @ + 1, !.session = FALSE] \in Gates
         /\ [g EXCEPT !.fg = b, !.act = @ + 1] \in Gates
         /\ [g EXCEPT !.act = @ + 1, !.session = TRUE, !.open = FALSE,
                      !.fg = b, !.purges = @ + 1] \in Gates
<1>1. /\ g.act \in Nat /\ g.epoch \in Nat /\ g.purges \in Nat
  BY DEF Gates
<1>2. PICK a \in Nat : a = g.act + 1
  BY <1>1
<1>3. PICK e \in Nat : e = g.epoch + 1
  BY <1>1
<1>4. PICK n \in Nat : n = g.purges + 1
  BY <1>1
<1>5. [g EXCEPT !.open = FALSE, !.epoch = e, !.purges = n] \in Gates
  BY DEF Gates
<1>6. [g EXCEPT !.act = a, !.session = FALSE] \in Gates
  BY DEF Gates
<1>7. [g EXCEPT !.fg = b, !.act = a] \in Gates
  BY DEF Gates
<1>8. [g EXCEPT !.act = a, !.session = TRUE, !.open = FALSE, !.fg = b, !.purges = n] \in Gates
  BY DEF Gates
<1> QED BY <1>2, <1>3, <1>4, <1>5, <1>6, <1>7, <1>8

LEMMA GateInvInit == AppInit => GateInv
<1> SUFFICES ASSUME MediaInit PROVE GateInv
  BY DEF AppInit
<1>1. /\ gate = [session |-> FALSE, open |-> FALSE, fg |-> TRUE, act |-> 0,
                 epoch |-> 1, purges |-> 0]
  BY DEF MediaInit, InitGate
<1>2. /\ gate \in Gates /\ ~gate.session /\ ~gate.open /\ gate.purges = 0
  BY <1>1 DEF Gates
<1>3. /\ purged \in [Namespaces -> Nat] /\ \A n \in Namespaces : purged[n] = 0
      /\ openers = {} /\ leases = {} /\ toggles = 0
  BY DEF MediaInit
<1>4. /\ op \in [Operations -> [pc : {"idle", "running", "aborted"}, epoch : Nat]]
      /\ \A o \in Operations : op[o].pc = "idle"
  BY DEF MediaInit, AtRest
<1>5. files \subseteq [ns : Namespaces, epoch : Nat]
  BY DEF MediaInit
<1>6. MediaTypeOK(Owners)
  BY <1>2, <1>3, <1>4, <1>5, MediaBounds DEF MediaTypeOK, Gates
<1>7. Counted /\ UploadsHeld /\ FilesDoomed /\ OpenAtRest
  BY <1>2, <1>3, <1>4 DEF Counted, UploadsHeld, FilesDoomed, OpenAtRest, Operations
<1> QED BY <1>6, <1>7 DEF GateInv

\* A boundary moves the epoch and the count of purges together.
LEMMA InvalidateInv ==
  ASSUME GateInv, NEW g, NEW aborted,
         g \in Gates,
         g.epoch = gate.epoch, g.purges = gate.purges,
         Invalidate(g, aborted), toggles' \in 0..MaxToggles
  PROVE  GateInv'
<1>1. /\ gate' \in Gates
      /\ gate'.open = FALSE /\ gate'.purges = gate.purges + 1
      /\ gate'.session = g.session
      /\ purged' = purged /\ openers' = openers /\ leases' = leases /\ files' = files
  <2>1. gate' = [g EXCEPT !.open = FALSE, !.epoch = @ + 1, !.purges = @ + 1]
    BY DEF Invalidate
  <2>2. gate' \in Gates
    BY <2>1, GateShape
  <2> QED BY <2>1, <2>2 DEF Invalidate, Gates
<1>2. /\ op' \in [Operations -> [pc : {"idle", "running", "aborted"}, epoch : Nat]]
      /\ \A o \in Operations : op'[o].pc # "idle" => op[o].pc # "idle"
  BY DEF Invalidate, GateInv, MediaTypeOK
<1>3. gate.purges \in Nat /\ \A n \in Namespaces : purged[n] \in Nat
  BY DEF GateInv, MediaTypeOK
<1>4. MediaTypeOK(Owners)'
  BY <1>1, <1>2 DEF GateInv, MediaTypeOK, Gates
<1>5. Counted'
  BY <1>1, <1>3 DEF GateInv, Counted, MediaTypeOK
<1>6. \A n \in Namespaces : purged'[n] < gate'.purges
  BY <1>1, <1>3 DEF GateInv, Counted
<1>7. UploadsHeld'
  BY <1>1, <1>2, <1>6 DEF GateInv, UploadsHeld, Operations, Namespaces
<1>8. FilesDoomed'
  BY <1>1, <1>6 DEF GateInv, FilesDoomed, MediaTypeOK
<1>9. OpenAtRest'
  BY <1>1 DEF OpenAtRest
<1> QED BY <1>4, <1>5, <1>7, <1>8, <1>9 DEF GateInv

LEMMA ShutdownInv ==
  ASSUME GateInv, BeginShutdown
  PROVE  GateInv'
<1> DEFINE g == [gate EXCEPT !.act = @ + 1, !.session = FALSE]
<1>1. /\ g \in Gates
      /\ g.epoch = gate.epoch /\ g.purges = gate.purges
  <2>1. gate \in Gates
    BY DEF GateInv, MediaTypeOK, Gates
  <2> QED BY <2>1, GateShape DEF Gates
<1>2. Invalidate(g, Operations) /\ toggles' \in 0..MaxToggles
  BY DEF BeginShutdown, GateInv, MediaTypeOK
<1> QED BY <1>1, <1>2, InvalidateInv

\* A session asks for one more purge and waits for it.
LEMMA StartSessionInv ==
  ASSUME GateInv, NEW owner \in Owners, StartSession(owner, gate.fg)
  PROVE  GateInv'
<1>1. /\ gate' \in Gates
      /\ gate'.open = FALSE /\ gate'.purges = gate.purges + 1 /\ gate'.epoch = gate.epoch
      /\ purged' = purged /\ op' = op /\ leases' = leases /\ files' = files
      /\ toggles' = toggles
  <2>1. gate \in Gates /\ gate.fg \in BOOLEAN
    BY DEF GateInv, MediaTypeOK, Gates
  <2>2. gate' = [gate EXCEPT !.act = @ + 1, !.session = TRUE, !.open = FALSE,
                             !.fg = gate.fg, !.purges = @ + 1]
    BY DEF StartSession
  <2>3. gate' \in Gates
    BY <2>1, <2>2, GateShape
  <2> QED BY <2>1, <2>2, <2>3 DEF StartSession, Gates
<1>2. gate.purges \in Nat /\ gate.act \in Nat /\ \A n \in Namespaces : purged[n] \in Nat
  BY DEF GateInv, MediaTypeOK
<1> DEFINE w0 == [owner |-> owner, act |-> gate.act + 1, rev |-> gate.purges + 1,
                  pc |-> "draining"]
<1>3. openers' = openers \cup {w0}
  BY DEF StartSession
<1>4. /\ w0 \in [owner : Owners, act : Nat, rev : Nat, pc : {"draining", "drained"}]
      /\ w0.rev = gate.purges + 1 /\ w0.pc = "draining"
  BY <1>2
<1> HIDE DEF w0
<1>5. MediaTypeOK(Owners)'
  BY <1>1, <1>3, <1>4 DEF GateInv, MediaTypeOK, Gates
<1>6. Counted'
  <2>1. \A n \in Namespaces : purged'[n] <= gate'.purges
    BY <1>1, <1>2 DEF GateInv, Counted
  <2>2. \A w \in openers' :
          /\ w.rev <= gate'.purges
          /\ w.pc = "drained" => \A n \in Namespaces : w.rev <= purged'[n]
    BY <1>1, <1>2, <1>3, <1>4 DEF GateInv, Counted, MediaTypeOK
  <2> QED BY <1>1, <1>2, <2>1, <2>2 DEF Counted
<1>7. \A n \in Namespaces : purged'[n] < gate'.purges
  BY <1>1, <1>2 DEF GateInv, Counted
<1>8. UploadsHeld'
  BY <1>1, <1>7 DEF GateInv, UploadsHeld, Namespaces
<1>9. FilesDoomed'
  BY <1>1, <1>7 DEF GateInv, FilesDoomed, MediaTypeOK
<1>10. OpenAtRest'
  BY <1>1 DEF OpenAtRest
<1> QED BY <1>5, <1>6, <1>8, <1>9, <1>10 DEF GateInv

LEMMA SuspendInv ==
  ASSUME GateInv, Suspend
  PROVE  GateInv'
<1> DEFINE g == [gate EXCEPT !.fg = FALSE, !.act = @ + 1]
<1>1. /\ g \in Gates
      /\ g.epoch = gate.epoch /\ g.purges = gate.purges /\ g.open = gate.open
      /\ g.session = gate.session
      /\ toggles' \in 0..MaxToggles
  <2>1. gate \in Gates
    BY DEF GateInv, MediaTypeOK, Gates
  <2>2. toggles' \in 0..MaxToggles
    BY MediaBounds DEF Suspend, GateInv, MediaTypeOK
  <2> QED BY <2>1, <2>2, GateShape DEF Gates
<1>2. CASE gate.session /\ gate.open
  <2>1. Invalidate(g, Downloads)
    BY <1>2 DEF Suspend
  <2> QED BY <1>1, <2>1, InvalidateInv
<1>3. CASE ~(gate.session /\ gate.open)
  <2>1. /\ gate' = g /\ purged' = purged /\ openers' = openers /\ op' = op
        /\ leases' = leases /\ files' = files
    BY <1>3 DEF Suspend
  <2>2. gate'.open = FALSE
    BY <1>1, <1>3, <2>1 DEF GateInv, OpenAtRest
  <2> HIDE DEF g
  <2>3. MediaTypeOK(Owners)' /\ Counted' /\ UploadsHeld' /\ FilesDoomed'
    BY <1>1, <2>1 DEF GateInv, MediaTypeOK, Gates, Counted, UploadsHeld, FilesDoomed
  <2> QED BY <2>2, <2>3 DEF GateInv, OpenAtRest
<1> QED BY <1>2, <1>3

\* A gate that is not open waits for the purges asked for so far.
LEMMA ForegroundInv ==
  ASSUME GateInv, Foreground
  PROVE  GateInv'
<1>1. gate \in Gates /\ gate.open = FALSE
  BY DEF Foreground, GateInv, MediaTypeOK, Gates, OpenAtRest
<1>2. /\ purged' = purged /\ op' = op /\ leases' = leases /\ files' = files
      /\ toggles' = toggles
  BY DEF Foreground
<1>3. /\ gate' \in Gates /\ gate'.open = FALSE /\ gate'.epoch = gate.epoch
      /\ gate'.purges = gate.purges /\ gate'.session = gate.session
  <2>1. CASE gate' = [gate EXCEPT !.fg = TRUE]
    BY <1>1, <2>1 DEF Gates
  <2>2. CASE gate' = [gate EXCEPT !.fg = TRUE, !.act = @ + 1]
    <3>1. gate' \in Gates
      BY <1>1, <2>2, GateShape
    <3> QED BY <1>1, <2>2, <3>1 DEF Gates
  <2> QED BY <2>1, <2>2 DEF Foreground
<1> DEFINE w0 == [owner |-> "resume", act |-> gate.act + 1, rev |-> gate.purges,
                  pc |-> "draining"]
<1>4. openers' \subseteq openers \cup {w0}
  BY DEF Foreground
<1>5. /\ w0 \in [owner : Owners, act : Nat, rev : Nat, pc : {"draining", "drained"}]
      /\ w0.rev = gate.purges /\ w0.pc = "draining"
  BY <1>1 DEF Gates, Owners
<1> HIDE DEF w0
<1>6. MediaTypeOK(Owners)'
  BY <1>2, <1>3, <1>4, <1>5 DEF GateInv, MediaTypeOK, Gates
<1>7. Counted'
  <2>1. \A w \in openers' :
          /\ w.rev <= gate'.purges
          /\ w.pc = "drained" => \A n \in Namespaces : w.rev <= purged'[n]
    BY <1>1, <1>2, <1>3, <1>4, <1>5 DEF GateInv, Counted, Gates
  <2> QED BY <1>2, <1>3, <2>1 DEF GateInv, Counted
<1>8. UploadsHeld' /\ FilesDoomed' /\ OpenAtRest'
  BY <1>2, <1>3 DEF GateInv, UploadsHeld, FilesDoomed, OpenAtRest
<1> QED BY <1>6, <1>7, <1>8 DEF GateInv

\* A purge deletes the files of its namespace, and one of the upload
\* namespace finds no transfer under way.
LEMMA PurgeInv ==
  ASSUME GateInv, NEW n \in Namespaces, Purge(n)
  PROVE  GateInv'
<1>1. /\ gate' = gate /\ openers' = openers /\ op' = op /\ leases' = leases
      /\ toggles' = toggles /\ files' = {f \in files : f.ns # n}
      /\ purged[n] < gate.purges /\ (n = "upload" => leases = {})
      /\ purged' = [purged EXCEPT ![n] = @ + 1]
  BY DEF Purge
<1>2. /\ purged \in [Namespaces -> Nat] /\ gate.purges \in Nat
      /\ \A w \in openers : w.rev \in Nat
  BY DEF GateInv, MediaTypeOK
<1>3. /\ purged' \in [Namespaces -> Nat] /\ purged'[n] = purged[n] + 1
      /\ \A m \in Namespaces : m # n => purged'[m] = purged[m]
  BY <1>1, <1>2
<1>4. gate.open = FALSE
  BY <1>1, <1>2 DEF GateInv, MediaTypeOK, OpenAtRest, Drained
<1>5. MediaTypeOK(Owners)'
  BY <1>1, <1>3 DEF GateInv, MediaTypeOK
<1>6. Counted'
  <2>1. \A m \in Namespaces : purged[m] <= purged'[m] /\ purged'[m] <= gate.purges
    BY <1>1, <1>2, <1>3 DEF GateInv, Counted
  <2>2. \A w \in openers, m \in Namespaces : w.pc = "drained" => w.rev <= purged'[m]
    BY <1>2, <1>3, <2>1 DEF GateInv, Counted
  <2> QED BY <1>1, <2>1, <2>2 DEF GateInv, Counted
<1>7. UploadsHeld'
  <2>1. CASE n = "upload"
    BY <1>1, <2>1 DEF GateInv, UploadsHeld
  <2>2. CASE n # "upload"
    BY <1>1, <1>3, <2>2 DEF GateInv, UploadsHeld, Namespaces
  <2> QED BY <2>1, <2>2
<1>8. FilesDoomed'
  <2>1. \A f \in files' : f \in files /\ f.ns # n /\ f.ns \in Namespaces
    BY <1>1 DEF GateInv, MediaTypeOK
  <2> QED BY <1>1, <1>3, <2>1 DEF GateInv, FilesDoomed
<1>9. OpenAtRest'
  BY <1>1, <1>4 DEF OpenAtRest
<1> QED BY <1>5, <1>6, <1>7, <1>8, <1>9 DEF GateInv

LEMMA FlushReturnsInv ==
  ASSUME GateInv, NEW w \in openers, FlushReturns(w)
  PROVE  GateInv'
<1> DEFINE v == [w EXCEPT !.pc = "drained"]
<1>1. /\ gate' = gate /\ purged' = purged /\ op' = op /\ leases' = leases
      /\ toggles' = toggles /\ files' = files /\ Drained
      /\ openers' = (openers \ {w}) \cup {v}
  BY DEF FlushReturns
<1>2. /\ w \in [owner : Owners, act : Nat, rev : Nat, pc : {"draining", "drained"}]
      /\ w.rev <= gate.purges
  BY DEF GateInv, MediaTypeOK, Counted
<1>3. /\ v \in [owner : Owners, act : Nat, rev : Nat, pc : {"draining", "drained"}]
      /\ v.rev = w.rev
  BY <1>2
<1> HIDE DEF v
<1>4. MediaTypeOK(Owners)'
  BY <1>1, <1>3 DEF GateInv, MediaTypeOK
<1>5. Counted'
  BY <1>1, <1>2, <1>3 DEF GateInv, Counted, Drained
<1>6. UploadsHeld' /\ FilesDoomed' /\ OpenAtRest'
  BY <1>1 DEF GateInv, UploadsHeld, FilesDoomed, OpenAtRest, Drained
<1> QED BY <1>4, <1>5, <1>6 DEF GateInv

\* The gate opens for a count that was reached after it was read, and that
\* no boundary has moved since.
LEMMA DecideInv ==
  ASSUME GateInv, NEW w \in openers, Decide(w)
  PROVE  GateInv'
<1>1. /\ purged' = purged /\ op' = op /\ leases' = leases
      /\ toggles' = toggles /\ files' = files /\ w.pc = "drained"
  BY DEF Decide
<1>2. /\ w \in [owner : Owners, act : Nat, rev : Nat, pc : {"draining", "drained"}]
      /\ gate \in Gates /\ purged \in [Namespaces -> Nat]
      /\ \A n \in Namespaces : w.rev <= purged[n] /\ purged[n] <= gate.purges
  BY <1>1 DEF GateInv, MediaTypeOK, Counted, Gates
<1> DEFINE v == [w EXCEPT !.pc = "draining", !.rev = gate.purges]
<1>3. \/ openers' = openers \ {w} /\ gate' = gate
      \/ openers' = (openers \ {w}) \cup {v} /\ gate' = gate
      \/ /\ openers' = openers \ {w} /\ gate' = [gate EXCEPT !.open = TRUE]
         /\ gate.session /\ gate.fg /\ w.rev = gate.purges
  BY DEF Decide
<1>4. /\ v \in [owner : Owners, act : Nat, rev : Nat, pc : {"draining", "drained"}]
      /\ v.rev = gate.purges /\ v.pc = "draining"
  BY <1>2 DEF Gates
<1> HIDE DEF v
<1>5. /\ gate' \in Gates /\ gate'.purges = gate.purges /\ gate'.epoch = gate.epoch
      /\ gate'.session = gate.session /\ gate'.fg = gate.fg
  BY <1>2, <1>3 DEF Gates
<1>6. openers' \subseteq openers \cup {v}
  BY <1>3
<1>7. MediaTypeOK(Owners)'
  BY <1>1, <1>4, <1>5, <1>6 DEF GateInv, MediaTypeOK, Gates
<1>8. Counted'
  <2>1. \A x \in openers' :
          /\ x.rev <= gate'.purges
          /\ x.pc = "drained" => \A n \in Namespaces : x.rev <= purged'[n]
    BY <1>1, <1>2, <1>4, <1>5, <1>6 DEF GateInv, Counted, Gates
  <2> QED BY <1>1, <1>5, <2>1 DEF GateInv, Counted
<1>9. UploadsHeld' /\ FilesDoomed'
  BY <1>1, <1>5 DEF GateInv, UploadsHeld, FilesDoomed
<1>10. OpenAtRest'
  <2>1. CASE gate' = gate
    BY <1>1, <2>1 DEF GateInv, OpenAtRest, Drained
  <2>2. CASE gate.session /\ gate.fg /\ w.rev = gate.purges
    <3>1. \A n \in Namespaces : purged[n] = gate.purges
      BY <1>2, <2>2 DEF Gates
    <3> QED BY <1>1, <1>5, <2>2, <3>1 DEF OpenAtRest, Drained
  <2> QED BY <1>3, <2>1, <2>2
<1> QED BY <1>7, <1>8, <1>9, <1>10 DEF GateInv

\* What operations do leaves the gate and its counts alone.
LEMMA OperationInv ==
  ASSUME GateInv, NEW o \in Operations,
         \/ StartOperation(o) \/ AdoptTemp(o) \/ Commit(o)
         \/ \E kept \in BOOLEAN : Settle(o, kept)
  PROVE  GateInv'
<1>1. /\ gate' = gate /\ purged' = purged /\ openers' = openers /\ toggles' = toggles
  BY DEF StartOperation, AdoptTemp, Commit, Settle
<1>2. /\ op \in [Operations -> [pc : {"idle", "running", "aborted"}, epoch : Nat]]
      /\ leases \subseteq Uploads /\ files \subseteq [ns : Namespaces, epoch : Nat]
      /\ gate.epoch \in Nat
  BY DEF GateInv, MediaTypeOK
<1>3. Counted' /\ OpenAtRest'
  BY <1>1 DEF GateInv, Counted, OpenAtRest, Drained
<1>4. CASE StartOperation(o)
  <2>1. /\ op' = [op EXCEPT ![o] = [pc |-> "running", epoch |-> gate.epoch]]
        /\ leases' = (IF o \in Uploads THEN leases \cup {o} ELSE leases) /\ files' = files
    BY <1>4 DEF StartOperation
  <2>2. MediaTypeOK(Owners)'
    BY <1>1, <1>2, <2>1 DEF GateInv, MediaTypeOK
  <2>3. UploadsHeld'
    BY <1>1, <1>2, <2>1 DEF GateInv, UploadsHeld, Operations
  <2>4. FilesDoomed'
    BY <1>1, <2>1 DEF GateInv, FilesDoomed
  <2> QED BY <1>3, <2>2, <2>3, <2>4 DEF GateInv
<1>5. CASE AdoptTemp(o)
  <2> DEFINE f0 == [ns |-> "upload", epoch |-> op[o].epoch]
  <2>1. /\ op' = op /\ leases' = leases /\ files' = files \cup {f0}
        /\ o \in Uploads /\ op[o].pc # "idle"
    BY <1>5 DEF AdoptTemp
  <2>2. f0 \in [ns : Namespaces, epoch : Nat] /\ f0.ns = "upload" /\ f0.epoch = op[o].epoch
    BY <1>2 DEF Namespaces
  <2> HIDE DEF f0
  <2>3. MediaTypeOK(Owners)'
    BY <1>1, <2>1, <2>2 DEF GateInv, MediaTypeOK
  <2>4. UploadsHeld' /\ FilesDoomed'
    BY <1>1, <2>1, <2>2 DEF GateInv, UploadsHeld, FilesDoomed
  <2> QED BY <1>3, <2>3, <2>4 DEF GateInv
<1>6. CASE Commit(o)
  <2> DEFINE f0 == [ns |-> "protected", epoch |-> op[o].epoch]
  <2>1. /\ op' = [op EXCEPT ![o] = AtRest] /\ leases' = leases /\ files' = files \cup {f0}
        /\ op[o].epoch = gate.epoch
    BY <1>6 DEF Commit
  <2>2. f0 \in [ns : Namespaces, epoch : Nat] /\ f0.epoch = gate.epoch
    BY <1>2, <2>1 DEF Namespaces
  <2> HIDE DEF f0
  <2>3. MediaTypeOK(Owners)'
    BY <1>1, <1>2, <2>1, <2>2 DEF GateInv, MediaTypeOK, AtRest
  <2>4. UploadsHeld'
    BY <1>1, <1>2, <2>1 DEF GateInv, UploadsHeld, AtRest, Operations
  <2>5. FilesDoomed'
    BY <1>1, <2>1, <2>2 DEF GateInv, FilesDoomed
  <2> QED BY <1>3, <2>3, <2>4, <2>5 DEF GateInv
<1>7. CASE \E kept \in BOOLEAN : Settle(o, kept)
  <2>1. /\ op' = [op EXCEPT ![o] = AtRest] /\ leases' = leases \ {o} /\ files' \subseteq files
    BY <1>7 DEF Settle
  <2>2. MediaTypeOK(Owners)'
    BY <1>1, <1>2, <2>1 DEF GateInv, MediaTypeOK, AtRest
  <2>3. UploadsHeld'
    BY <1>1, <1>2, <2>1 DEF GateInv, UploadsHeld, AtRest, Operations
  <2>4. FilesDoomed'
    BY <1>1, <2>1 DEF GateInv, FilesDoomed
  <2> QED BY <1>3, <2>2, <2>3, <2>4 DEF GateInv
<1> QED BY <1>4, <1>5, <1>6, <1>7

\* A new process trusts nothing: files stay, and no session has begun.
LEMMA RestartInv ==
  ASSUME GateInv, MediaRestart
  PROVE  GateInv'
<1>1. gate.epoch \in Nat /\ files \subseteq [ns : Namespaces, epoch : Nat] /\ toggles \in 0..MaxToggles
  BY DEF GateInv, MediaTypeOK
<1>2. PICK e \in Nat : e = gate.epoch + 1
  BY <1>1
<1>3. gate' = [session |-> FALSE, open |-> FALSE, fg |-> TRUE, act |-> 0,
               epoch |-> e, purges |-> 0]
  BY <1>2 DEF MediaRestart, InitGate
<1>4. gate' \in Gates /\ ~gate'.session /\ ~gate'.open /\ gate'.purges = 0
  BY <1>3 DEF Gates
<1>5. /\ purged' \in [Namespaces -> Nat] /\ \A n \in Namespaces : purged'[n] = 0
      /\ openers' = {} /\ leases' = {} /\ toggles' = toggles /\ files' = files
  BY DEF MediaRestart
<1>6. /\ op' \in [Operations -> [pc : {"idle", "running", "aborted"}, epoch : Nat]]
      /\ \A o \in Operations : op'[o].pc = "idle"
  BY DEF MediaRestart, AtRest
<1>7. MediaTypeOK(Owners)'
  BY <1>1, <1>4, <1>5, <1>6 DEF MediaTypeOK, Gates
<1>8. Counted' /\ UploadsHeld' /\ FilesDoomed' /\ OpenAtRest'
  BY <1>4, <1>5, <1>6 DEF Counted, UploadsHeld, FilesDoomed, OpenAtRest, Operations
<1> QED BY <1>7, <1>8 DEF GateInv

-----------------------------------------------------------------------------
\* What the session makes of the gate is a step of the gate.
LEMMA GateInvStep == GateInv /\ [AppNext]_appVars => GateInv'
<1> SUFFICES ASSUME GateInv, [AppNext]_appVars PROVE GateInv'
  OBVIOUS
<1>1. CASE UNCHANGED mediaVars
  BY <1>1 DEF mediaVars, GateInv, MediaTypeOK, Counted, UploadsHeld, FilesDoomed, OpenAtRest,
              Drained
<1>2. CASE FollowClose
  BY <1>1, <1>2, ShutdownInv DEF FollowClose
<1>3. CASE OpensMedia
  <2>1. \/ FollowClose
        \/ \E owner \in Owners : StartSession(owner, gate.fg)
    BY <1>3, Zenon DEF OpensMedia, Owners
  <2> QED BY <1>2, <2>1, StartSessionInv
<1>4. CASE AwaitsMedia
  BY <1>2, <1>4, Zenon DEF AwaitsMedia
<1>5. CASE MediaNext
  <2>1. CASE Suspend \/ Foreground
    BY <2>1, SuspendInv, ForegroundInv
  <2>2. CASE \E n \in Namespaces : Purge(n)
    BY <2>2, PurgeInv
  <2>3. CASE \E w \in openers : FlushReturns(w) \/ Decide(w)
    BY <2>3, FlushReturnsInv, DecideInv
  <2>4. CASE \E o \in Operations :
               \/ StartOperation(o) \/ AdoptTemp(o) \/ Commit(o)
               \/ \E kept \in BOOLEAN : Settle(o, kept)
    BY <2>4, OperationInv
  <2> QED BY <1>5, <2>1, <2>2, <2>3, <2>4 DEF MediaNext
<1>6. CASE Restart /\ MediaRestart
  BY <1>6, RestartInv
<1>7. CASE NetworkDrained
  BY <1>1, <1>7, Zenon DEF NetworkDrained
<1>8. CASE UNCHANGED appVars
  BY <1>1, <1>8, Zenon DEF appVars
<1> QED BY <1>2, <1>3, <1>4, <1>5, <1>6, <1>7, <1>8, Zenon DEF AppNext

\* The gate is open only for a session in the foreground, with both purge
\* queues dry and no private file of an earlier session or foreground left
\* (privateMediaLifecycle.ts: openAfterStablePurge, runInvalidationFrontHalf,
\* enqueuePurge, the transfer leases).
THEOREM GateStaysClean == AppSpec => []GateIsClean
<1>1. GateInv => GateIsClean
  <2> SUFFICES ASSUME GateInv, gate.open PROVE GateIsClean
    BY DEF GateIsClean
  <2>1. /\ gate.session /\ gate.fg /\ Drained /\ gate.purges > 0 /\ gate.purges \in Nat
        /\ purged \in [Namespaces -> Nat]
    BY DEF GateInv, OpenAtRest, Counted, MediaTypeOK
  <2>2. \A f \in files : f.epoch = gate.epoch
    BY <2>1 DEF GateInv, FilesDoomed, Drained, MediaTypeOK
  <2> QED BY <2>1, <2>2 DEF GateIsClean
<1> QED BY <1>1, GateInvInit, GateInvStep, PTL DEF AppSpec

-----------------------------------------------------------------------------
(* The revoke is quiet.  The invariant relates the two sides of the        *)
(* wiring: a media session exists only under a usable credential session,  *)
(* a close that has begun leaves the closing phase by finishing only, and  *)
(* between its drain of private requests and its end none can begin.       *)

AuthFields == DOMAIN InitAuth

\* What a block of the session does to phase and close, but for the drain of
\* the private requests.
AuthStep(a, b) ==
  /\ DOMAIN b = AuthFields
  /\ \/ b.phase = a.phase /\ b.close = a.close
     \/ Usable(a) /\ b.phase = "closing" /\ b.close = "drain"
     \/ a.phase = "opening" /\ b.phase = "active" /\ b.close = a.close
     \/ a.phase = "signedOut" /\ b.phase = "opening" /\ b.close = a.close
     \/ b.phase = a.phase /\ a.close = "drain" /\ b.close = "network"
     \/ b.phase = a.phase /\ a.close = "revoke" /\ b.close = "clear"
     \/ a.close = "clear" /\ b.phase = "signedOut" /\ b.close = "none"

\* b has the phase and the close of a.
Alike(a, b) == DOMAIN b = AuthFields /\ b.phase = a.phase /\ b.close = a.close

LEMMA InitFields ==
  /\ {"phase", "close"} \subseteq AuthFields
  /\ {"gen", "rev", "access", "published", "active", "latest", "source", "handoff",
      "seq", "ui"} \subseteq AuthFields
  /\ InitAuth.phase = "signedOut" /\ InitAuth.close = "none"
BY DEF AuthFields, InitAuth

LEMMA RecordAlike ==
  ASSUME NEW a, DOMAIN a = AuthFields, NEW k, NEW t
  PROVE  Alike(a, RecordCandidate(a, k, t))
BY InitFields DEF Alike, RecordCandidate

LEMMA PublishAlike ==
  ASSUME NEW a, DOMAIN a = AuthFields, NEW k, NEW t
  PROVE  Alike(a, PublishPair(a, k, t))
BY InitFields DEF Alike, PublishPair

LEMMA RotationAlike ==
  ASSUME NEW a, DOMAIN a = AuthFields, NEW k, NEW t
  PROVE  Alike(a, BeginRotation(a, k, t))
<1> DEFINE r == [gen |-> k.gen, rev |-> a.rev + 1]
           b == [a EXCEPT !.rev = @ + 1, !.source = IF a.phase = "closing" THEN r ELSE @]
<1>1. Alike(a, b)
  BY InitFields DEF Alike
<1>2. BeginRotation(a, k, t) = a \/ BeginRotation(a, k, t) = RecordCandidate(b, r, t)
  BY DEF BeginRotation
<1> HIDE DEF b, r
<1> QED BY <1>1, <1>2, RecordAlike DEF Alike

LEMMA CloseShape ==
  ASSUME NEW a, DOMAIN a = AuthFields
  PROVE  /\ DOMAIN BeginClose(a) = AuthFields
         /\ ~Usable(a) => BeginClose(a) = a
         /\ Usable(a) => BeginClose(a).phase = "closing" /\ BeginClose(a).close = "drain"
BY InitFields DEF BeginClose, Usable

\* A close is one step, however often it is asked for.
LEMMA CloseStep ==
  ASSUME NEW a, DOMAIN a = AuthFields, NEW b, Alike(a, b)
  PROVE  /\ AuthStep(a, b) /\ AuthStep(a, BeginClose(b))
         /\ AuthStep(a, BeginClose(BeginClose(b)))
<1>1. ~Usable(BeginClose(b)) /\ DOMAIN BeginClose(b) = AuthFields
  BY CloseShape DEF Usable, Alike
<1>2. BeginClose(BeginClose(b)) = BeginClose(b)
  BY <1>1, CloseShape
<1>3. AuthStep(a, b)
  BY DEF AuthStep, Alike
<1>4. AuthStep(a, BeginClose(b))
  <2>1. CASE Usable(b)
    BY <2>1, CloseShape DEF AuthStep, Alike, Usable
  <2>2. CASE ~Usable(b)
    BY <2>2, <1>3, CloseShape DEF Alike
  <2> QED BY <2>1, <2>2
<1> QED BY <1>2, <1>3, <1>4

LEMMA EndFlightStep ==
  ASSUME DOMAIN auth = AuthFields, NEW a, Alike(auth, a), NEW rot, NEW f, NEW v,
         NEW hard \in BOOLEAN, EndFlight(a, rot, f, v, hard)
  PROVE  AuthStep(auth, auth')
<1>1. auth' \in {a, BeginClose(a), BeginClose(BeginClose(a))}
  BY DEF EndFlight
<1> QED BY <1>1, CloseStep

LEMMA EndSupersededStep ==
  ASSUME DOMAIN auth = AuthFields, NEW f, EndSuperseded(auth, f)
  PROVE  AuthStep(auth, auth')
<1>1. Alike(auth, auth)
  BY DEF Alike
<1>2. CASE auth' = auth
  BY <1>1, <1>2, CloseStep
<1>3. CASE EndFlight(auth, rotation, f, AccessNow(auth, f.ticket), FALSE)
  BY <1>1, <1>3, EndFlightStep
<1> QED BY <1>2, <1>3 DEF EndSuperseded

LEMMA FlightStep ==
  ASSUME DOMAIN auth = AuthFields, NEW f \in flights,
         \/ ReadToken(f) \/ PostRefresh(f) \/ ServerRefresh(f)
         \/ RefreshAnswered(f) \/ RefreshFailed(f)
         \/ \E ok \in BOOLEAN : RefreshWritten(f, ok)
  PROVE  AuthStep(auth, auth')
<1>1. Alike(auth, auth) /\ AuthStep(auth, auth)
  BY DEF Alike, AuthStep
<1>2. CASE ReadToken(f) \/ ServerRefresh(f)
  <2>1. auth' = auth
    BY <1>2, Zenon DEF ReadToken, ServerRefresh
  <2> QED BY <1>1, <2>1
<1>3. CASE PostRefresh(f)
  <2>1. \/ EndSuperseded(auth, f) \/ EndFlight(auth, rotation, f, None, FALSE) \/ auth' = auth
    BY <1>3, Zenon DEF PostRefresh
  <2> QED BY <1>1, <2>1, EndSupersededStep, EndFlightStep
<1>4. CASE RefreshAnswered(f)
  <2> DEFINE a == RecordCandidate(auth, f.ticket, f.tok)
  <2>1. \/ EndSuperseded(auth, f) \/ EndFlight(a, rotation, f, None, FALSE) \/ auth' = a
    BY <1>4, Zenon DEF RefreshAnswered
  <2>2. Alike(auth, a)
    BY RecordAlike
  <2> HIDE DEF a
  <2> QED BY <2>1, <2>2, EndSupersededStep, EndFlightStep, CloseStep
<1>5. CASE RefreshFailed(f)
  <2>1. EndFlight(auth, rotation, f, None, TRUE) \/ EndSuperseded(auth, f)
    BY <1>5, Zenon DEF RefreshFailed
  <2> QED BY <1>1, <2>1, EndSupersededStep, EndFlightStep
<1>6. CASE \E ok \in BOOLEAN : RefreshWritten(f, ok)
  <2> DEFINE a == PublishPair(auth, f.ticket, f.tok)
             v == IF IsAuthTicketCurrent(auth, f.ticket) THEN f.tok ELSE None
  <2>1. \/ EndFlight(a, rotation, f, v, FALSE)
        \/ EndFlight(auth, rotation, f, None, TRUE) \/ EndSuperseded(auth, f)
    BY <1>6, Zenon DEF RefreshWritten
  <2>2. Alike(auth, a)
    BY PublishAlike
  <2> HIDE DEF a, v
  <2> QED BY <1>1, <2>1, <2>2, EndSupersededStep, EndFlightStep
<1> QED BY <1>2, <1>3, <1>4, <1>5, <1>6

LEMMA ChangeStep ==
  ASSUME DOMAIN auth = AuthFields,
         \/ ChangePassword \/ ServerChange \/ ChangeFailed \/ ChangeAnswered
         \/ \E ok \in BOOLEAN : RotationWritten(ok)
  PROVE  AuthStep(auth, auth')
<1>1. Alike(auth, auth) /\ AuthStep(auth, auth)
  BY DEF Alike, AuthStep
<1>2. CASE ChangePassword \/ ServerChange \/ ChangeFailed
  <2>1. auth' = auth
    BY <1>2, Zenon DEF ChangePassword, ServerChange, ChangeFailed
  <2> QED BY <1>1, <2>1
<1>3. CASE ChangeAnswered
  <2> DEFINE a == RecordCandidate(auth, change.source, change.tok)
             b == BeginRotation(a, change.source, change.tok)
  <2>1. auth' = b
    BY <1>3, Zenon DEF ChangeAnswered
  <2>2. Alike(auth, a)
    BY RecordAlike
  <2> HIDE DEF a
  <2>3. Alike(a, b)
    BY <2>2, RotationAlike DEF Alike
  <2> HIDE DEF b
  <2> QED BY <2>1, <2>2, <2>3, CloseStep DEF Alike
<1>4. CASE \E ok \in BOOLEAN : RotationWritten(ok)
  <2> DEFINE p == PublishPair(auth, rotation, change.tok)
  <2>1. auth' = p \/ auth' = BeginClose(auth)
    BY <1>4 DEF RotationWritten
  <2>2. Alike(auth, p)
    BY PublishAlike
  <2> HIDE DEF p
  <2> QED BY <1>1, <2>1, <2>2, CloseStep
<1> QED BY <1>2, <1>3, <1>4

\* Also the continuations that wait for the gate.
LEMMA OpeningStep ==
  ASSUME DOMAIN auth = AuthFields, NEW ok \in BOOLEAN,
         \/ BeginRestore \/ RestoreMedia(ok) \/ RestoreMe(ok)
         \/ \E s \in SignIns :
              Login(s) \/ OpenSignIn(s) \/ SignInWritten(s, ok) \/ SignInMedia(s, ok)
  PROVE  AuthStep(auth, auth')
<1>1. Alike(auth, auth) /\ AuthStep(auth, auth)
  BY DEF Alike, AuthStep
<1> DEFINE o == BeginOpening(auth)
           v == Activate(auth)
<1>2. DOMAIN o = AuthFields /\ o.phase = "opening" /\ o.close = auth.close
  BY InitFields DEF BeginOpening
<1>3. DOMAIN v = AuthFields /\ v.phase = "active" /\ v.close = auth.close
  BY InitFields DEF Activate
<1>4. \A k : CanActivate(auth, k) => auth.phase = "opening"
  BY DEF CanActivate
<1>5. \A k : CanActivate(auth, k) => AuthStep(auth, v)
  BY <1>3, <1>4 DEF AuthStep
<1>6. AuthStep(auth, BeginClose(auth))
  BY <1>1, CloseStep
<1> HIDE DEF o, v
<1>7. CASE BeginRestore
  BY <1>2, <1>7 DEF BeginRestore, AuthStep, o
<1>8. CASE RestoreMedia(ok)
  BY <1>1, <1>6, <1>8, Zenon DEF RestoreMedia
<1>9. CASE RestoreMe(ok)
  <2>1. \/ auth' = auth \/ auth' = BeginClose(auth)
        \/ CanActivate(auth, restore.ticket) /\ auth' = v
    BY <1>9, Zenon DEF RestoreMe, v
  <2> QED BY <1>1, <1>5, <1>6, <2>1
<1>10. CASE \E s \in SignIns : Login(s)
  <2>1. auth' = auth
    BY <1>10, Zenon DEF Login
  <2> QED BY <1>1, <2>1
<1>11. CASE \E s \in SignIns : OpenSignIn(s)
  <2>1. PICK s \in SignIns : auth.phase = "signedOut"
                             /\ auth' = RecordCandidate(o, Ticket(o), signin[s].tok)
    BY <1>11, Zenon DEF OpenSignIn, o
  <2>2. Alike(o, auth')
    BY <1>2, <2>1, RecordAlike
  <2> QED BY <1>2, <2>1, <2>2 DEF Alike, AuthStep
<1>12. CASE \E s \in SignIns : SignInWritten(s, ok)
  <2>1. PICK s \in SignIns : \/ auth' = PublishPair(auth, signin[s].ticket, signin[s].tok)
                             \/ auth' = BeginClose(auth)
    BY <1>12, Zenon DEF SignInWritten
  <2>2. Alike(auth, PublishPair(auth, signin[s].ticket, signin[s].tok))
    BY PublishAlike
  <2> QED BY <1>6, <2>1, <2>2, CloseStep
<1>13. CASE \E s \in SignIns : SignInMedia(s, ok)
  <2>1. PICK s \in SignIns : \/ auth' = auth \/ auth' = BeginClose(auth)
                             \/ CanActivate(auth, signin[s].ticket) /\ auth' = v
    BY <1>13, Zenon DEF SignInMedia, v
  <2> QED BY <1>1, <1>5, <1>6, <2>1
<1> QED BY <1>7, <1>8, <1>9, <1>10, <1>11, <1>12, <1>13

LEMMA ClosingStep ==
  ASSUME DOMAIN auth = AuthFields,
         \/ SignOut \/ CloseDrained \/ Revoke \/ ClearTokens
         \/ \E ok \in BOOLEAN : Cleared(ok)
  PROVE  AuthStep(auth, auth')
<1>1. Alike(auth, auth) /\ AuthStep(auth, auth)
  BY DEF Alike, AuthStep
<1>2. CASE SignOut
  <2>1. auth' = BeginClose(auth)
    BY <1>2 DEF SignOut
  <2> QED BY <1>1, <2>1, CloseStep
<1>3. CASE CloseDrained
  BY <1>3, InitFields DEF CloseDrained, AuthStep
<1>4. CASE Revoke
  BY <1>4, InitFields DEF Revoke, AuthStep
<1>5. CASE ClearTokens
  BY <1>1, <1>5, Zenon DEF ClearTokens
<1>6. CASE \E ok \in BOOLEAN : Cleared(ok)
  BY <1>1, <1>6, InitFields DEF Cleared, AuthStep
<1> QED BY <1>2, <1>3, <1>4, <1>5, <1>6

LEMMA CredentialStep ==
  ASSUME DOMAIN auth = AuthFields, CredentialNext
  PROVE  AuthStep(auth, auth')
<1>1. AuthStep(auth, auth)
  BY DEF AuthStep
<1>2. CASE \E c \in Callers : SendRequest(c) \/ Unauthorized(c) \/ Answered(c)
  <2>1. auth' = auth
    BY <1>2, Zenon DEF SendRequest, Unauthorized, Answered
  <2> QED BY <1>1, <2>1
<1>3. CASE \E f \in flights :
             \/ ReadToken(f) \/ PostRefresh(f) \/ ServerRefresh(f)
             \/ RefreshAnswered(f) \/ RefreshFailed(f)
             \/ \E ok \in BOOLEAN : RefreshWritten(f, ok)
  BY <1>3, FlightStep
<1>4. CASE \E s \in SignIns : Login(s) \/ OpenSignIn(s)
  BY <1>4, OpeningStep
<1>5. CASE \/ ChangePassword \/ ServerChange \/ ChangeFailed \/ ChangeAnswered
           \/ \E ok \in BOOLEAN : RotationWritten(ok)
  BY <1>5, ChangeStep
<1>6. CASE \/ SignOut \/ CloseDrained \/ Revoke \/ ClearTokens
           \/ \E ok \in BOOLEAN : Cleared(ok)
  BY <1>6, ClosingStep
<1> QED BY <1>2, <1>3, <1>4, <1>5, <1>6, Zenon DEF CredentialNext

-----------------------------------------------------------------------------
AtPeace == \A o \in Operations : op[o].pc = "idle"

Wired ==
  /\ DOMAIN auth = AuthFields
  /\ auth.close # "none" => auth.phase = "closing"
  /\ gate.session => Usable(auth)
  /\ auth.close \in {"revoke", "clear"} => AtPeace

LEMMA WiredInit == AppInit => Wired
BY InitFields DEF AppInit, Init, MediaInit, InitGate, Wired, AuthFields, AtPeace

\* A close takes the media session with it.
LEMMA FollowsWired ==
  ASSUME GateInv, Wired, AuthStep(auth, auth'), FollowClose
  PROVE  Wired'
<1>1. CASE Closes
  <2>1. auth'.phase = "closing" /\ auth'.close = "drain"
    BY <1>1 DEF Closes, AuthStep, Usable
  <2>2. gate'.session = FALSE
    BY <1>1 DEF FollowClose, BeginShutdown, Invalidate, GateInv, MediaTypeOK
  <2> QED BY <2>1, <2>2 DEF Wired, AuthStep
<1>2. CASE ~Closes
  <2>1. gate' = gate /\ op' = op
    BY <1>2 DEF FollowClose, mediaVars
  <2>2. gate.session => Usable(auth')
    BY <1>2 DEF Closes, AuthStep, Wired, Usable
  <2>3. /\ auth'.close # "none" => auth'.phase = "closing"
        /\ auth'.close \in {"revoke", "clear"} => AtPeace
    BY <1>2 DEF Closes, AuthStep, Wired, Usable
  <2> QED BY <2>1, <2>2, <2>3 DEF Wired, AuthStep, AtPeace
<1> QED BY <1>1, <1>2

\* A media session starts when the credential session is usable.
LEMMA OpensWired ==
  ASSUME GateInv, Wired, OpensMedia
  PROVE  Wired'
<1>1. CASE BeginRestore /\ StartSession("restore", gate.fg)
  <2>1. AuthStep(auth, auth') /\ op' = op /\ auth.phase = "signedOut"
    BY <1>1, OpeningStep DEF Wired, StartSession, BeginRestore
  <2>2. auth'.phase = "opening" /\ auth'.close = auth.close /\ auth.close = "none"
    BY <1>1, <2>1, InitFields DEF BeginRestore, BeginOpening, Wired
  <2> QED BY <2>1, <2>2 DEF Wired, AuthStep, Usable
<1>2. CASE \E s \in SignIns, ok \in BOOLEAN :
             /\ SignInWritten(s, ok)
             /\ IF SignInGoesOn(s, ok) THEN StartSession(s, gate.fg) ELSE FollowClose
  <2>1. PICK s \in SignIns, ok \in BOOLEAN :
             /\ SignInWritten(s, ok)
             /\ IF SignInGoesOn(s, ok) THEN StartSession(s, gate.fg) ELSE FollowClose
    BY <1>2
  <2>2. AuthStep(auth, auth')
    BY <2>1, OpeningStep DEF Wired
  <2>3. CASE SignInGoesOn(s, ok)
    <3>1. op' = op /\ Usable(auth)
      BY <2>1, <2>3 DEF StartSession, SignInGoesOn, IsAuthTicketCurrent
    <3>2. Alike(auth, auth')
      BY <2>1, <2>3, PublishAlike DEF SignInWritten, SignInGoesOn, Wired
    <3>3. auth.close = "none"
      BY <3>1 DEF Wired, Usable
    <3> QED BY <3>1, <3>2, <3>3 DEF Wired, Alike, Usable
  <2>4. CASE ~SignInGoesOn(s, ok)
    BY <2>1, <2>2, <2>4, FollowsWired
  <2> QED BY <2>3, <2>4
<1> QED BY <1>1, <1>2 DEF OpensMedia

\* The gate moves alone: nothing begins once a close has drained.
LEMMA MediaWired ==
  ASSUME GateInv, Wired, MediaNext, UNCHANGED vars
  PROVE  Wired'
<1>1. auth' = auth
  BY DEF vars
<1>2. gate \in Gates /\ gate.act \in Nat
  BY DEF GateInv, MediaTypeOK, Gates
<1>3. gate'.session = gate.session
  <2>1. CASE Suspend
    BY <1>2, <2>1 DEF Suspend, Invalidate, Gates
  <2>2. CASE Foreground
    BY <1>2, <2>2 DEF Foreground, Gates
  <2>3. CASE \E n \in Namespaces : Purge(n)
    BY <2>3 DEF Purge
  <2>4. CASE \E w \in openers : FlushReturns(w) \/ Decide(w)
    BY <1>2, <2>4 DEF FlushReturns, Decide, Gates
  <2>5. CASE \E o \in Operations :
               \/ StartOperation(o) \/ AdoptTemp(o) \/ Commit(o)
               \/ \E kept \in BOOLEAN : Settle(o, kept)
    BY <2>5 DEF StartOperation, AdoptTemp, Commit, Settle
  <2> QED BY <2>1, <2>2, <2>3, <2>4, <2>5 DEF MediaNext
<1>4. CASE auth.close \in {"revoke", "clear"}
  <2>1. AtPeace /\ ~gate.open
    BY <1>4 DEF Wired, Usable, GateInv, OpenAtRest
  <2>2. AtPeace'
    <3>1. CASE Suspend
      BY <2>1, <3>1 DEF Suspend, AtPeace
    <3>2. CASE Foreground
      BY <2>1, <3>2 DEF Foreground, AtPeace
    <3>3. CASE \E n \in Namespaces : Purge(n)
      BY <2>1, <3>3 DEF Purge, AtPeace
    <3>4. CASE \E w \in openers : FlushReturns(w) \/ Decide(w)
      BY <2>1, <3>4 DEF FlushReturns, Decide, AtPeace
    <3>5. CASE \E o \in Operations :
                 \/ StartOperation(o) \/ AdoptTemp(o) \/ Commit(o)
                 \/ \E kept \in BOOLEAN : Settle(o, kept)
      BY <2>1, <3>5 DEF StartOperation, AdoptTemp, Commit, Settle, AtPeace
    <3> QED BY <3>1, <3>2, <3>3, <3>4, <3>5 DEF MediaNext
  <2> QED BY <1>1, <1>3, <2>2 DEF Wired
<1>5. CASE auth.close \notin {"revoke", "clear"}
  BY <1>1, <1>3, <1>5 DEF Wired
<1> QED BY <1>4, <1>5

LEMMA WiredStep == GateInv /\ Wired /\ [AppNext]_appVars => Wired'
<1> SUFFICES ASSUME GateInv, Wired, [AppNext]_appVars PROVE Wired'
  OBVIOUS
<1>1. CASE CredentialNext /\ FollowClose
  BY <1>1, CredentialStep, FollowsWired DEF Wired
<1>2. CASE OpensMedia
  BY <1>2, OpensWired
<1>3. CASE AwaitsMedia
  <2>1. FollowClose
    BY <1>3, Zenon DEF AwaitsMedia
  <2>2. PICK open \in BOOLEAN :
          \/ RestoreMedia(open) \/ RestoreMe(open)
          \/ \E s \in SignIns : SignInMedia(s, open)
    <3>1. gate.open \in BOOLEAN
      BY DEF GateInv, MediaTypeOK
    <3>2. \A ok \in BOOLEAN : (ok /\ gate.open) \in BOOLEAN
      BY <3>1
    <3> QED BY <1>3, <3>1, <3>2, Zenon DEF AwaitsMedia
  <2>3. AuthStep(auth, auth')
    BY <2>2, OpeningStep DEF Wired
  <2> QED BY <2>1, <2>3, FollowsWired
<1>4. CASE NetworkDrained
  <2>1. /\ auth' = [auth EXCEPT !.close = "revoke"] /\ AtPeace /\ auth.close = "network"
        /\ gate' = gate /\ op' = op
    BY <1>4 DEF NetworkDrained, NetworkIdle, AtPeace, mediaVars
  <2>2. DOMAIN auth' = AuthFields /\ auth'.phase = auth.phase
    BY <2>1, InitFields DEF Wired
  <2> QED BY <2>1, <2>2 DEF Wired, Usable, AtPeace
<1>5. CASE Restart /\ MediaRestart
  <2>1. auth' = [InitAuth EXCEPT !.gen = auth.gen]
    BY <1>5, Zenon DEF Restart
  <2>2. DOMAIN auth' = AuthFields /\ auth'.close = "none"
    BY <2>1, InitFields DEF AuthFields
  <2>3. gate'.session = FALSE
    BY <1>5 DEF MediaRestart, InitGate
  <2> QED BY <2>2, <2>3 DEF Wired
<1>6. CASE MediaNext /\ UNCHANGED vars
  BY <1>6, MediaWired
<1>7. CASE UNCHANGED appVars
  <2>1. auth' = auth /\ gate' = gate /\ op' = op
    BY <1>7 DEF appVars, vars, mediaVars
  <2> QED BY <2>1 DEF Wired, AtPeace
<1> QED BY <1>1, <1>2, <1>3, <1>4, <1>5, <1>6, <1>7, Zenon DEF AppNext

\* The token is revoked and deleted with no private request under way, and
\* the gate is open only under a usable session (requestAuthSessionClose,
\* waitForPrivateNetworkIdle and the wiring in session.tsx).
THEOREM RevokeStaysQuiet == AppSpec => []RevokeIsQuiet
<1>1. GateInv /\ Wired => RevokeIsQuiet
  BY DEF GateInv, OpenAtRest, Wired, AtPeace, RevokeIsQuiet
<1> QED BY <1>1, GateInvInit, GateInvStep, WiredInit, WiredStep, PTL DEF AppSpec

-----------------------------------------------------------------------------
\* The gate only narrows what the session may do: every step of the app is a
\* step of the session or leaves it alone, so that whatever the credential
\* session promises holds of the app (session.tsx wires the two together).
THEOREM AppKeepsSession == AppSpec => Spec
<1>1. AppInit => Init
  BY DEF AppInit
<1>2. ASSUME GateInv, [AppNext]_appVars PROVE [Next]_vars
  <2>1. CASE CredentialNext /\ FollowClose
    BY <2>1 DEF Next
  <2>2. CASE OpensMedia
    BY <2>2 DEF OpensMedia, Next
  <2>3. CASE AwaitsMedia
    <3>1. gate.open \in BOOLEAN /\ \A ok \in BOOLEAN : (ok /\ gate.open) \in BOOLEAN
      BY <1>2 DEF GateInv, MediaTypeOK
    <3>2. \/ \E open \in BOOLEAN : RestoreMedia(open) \/ RestoreMe(open)
          \/ \E s \in SignIns, open \in BOOLEAN : SignInMedia(s, open)
      BY <2>3, <3>1, Zenon DEF AwaitsMedia
    <3> QED BY <3>2 DEF Next
  <2>4. CASE NetworkDrained
    BY <2>4 DEF NetworkDrained, Next
  <2>5. CASE Restart /\ MediaRestart
    BY <2>5 DEF Next
  <2>6. CASE UNCHANGED vars
    BY <2>6
  <2>7. CASE UNCHANGED appVars
    BY <2>7 DEF appVars
  <2> QED BY <1>2, <2>1, <2>2, <2>3, <2>4, <2>5, <2>6, <2>7, Zenon DEF AppNext
<1> QED BY <1>1, <1>2, GateInvInit, GateInvStep, PTL DEF AppSpec, Spec

=============================================================================
