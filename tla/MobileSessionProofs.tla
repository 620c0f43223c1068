------------------------ MODULE MobileSessionProofs ------------------------
(***************************************************************************)
(* For any number of sign-ins, requests, tokens, restarts and failed       *)
(* writes: a close hands over every token the server still accepts, the    *)
(* keychain agrees with the session, a refresh presents the newest token   *)
(* and a replay stays in its session.                                      *)
(***************************************************************************)
EXTENDS MobileSession, SequenceTheorems, TLAPS

\* The ticket in force: a close keeps the one it closes.
Now(a) == IF a.phase = "closing" THEN a.source ELSE Ticket(a)

\* The newest token the lifecycle knows of.
Held(a) == IF a.phase = "closing" THEN a.handoff.tok ELSE a.latest.tok

\* Credential activities may still be under way.
Running(a) == Usable(a) \/ a.close = "drain"

\* Pair c was replaced by d, is d, or there was none.
Behind(c, d) ==
  \/ c = NoPair \/ c = d
  \/ d.tok # None /\ (c.rev < d.rev \/ (c.rev = d.rev /\ c.seq < d.seq))

\* The lifecycle by itself.
Lifecycle(a) ==
  /\ Usable(a) => /\ a.gen > 0 /\ a.close = "none"
                  /\ a.access # None => a.active.tok # None
                  /\ a.phase = "active" => a.active.tok # None
                  /\ Behind(a.active, a.latest)
  /\ a.phase = "signedOut" => a.close = "none"
  /\ a.phase = "closing" => /\ a.close # "none" /\ a.source.gen < a.gen
                            /\ a.source.gen > 0 /\ a.source.rev = a.rev
                            /\ a.handoff.seq <= a.seq /\ a.handoff.rev <= a.rev
  /\ a.latest.seq <= a.seq /\ a.latest.rev <= a.rev

\* Who may run, and for which ticket.
FlightsInForce(a) ==
  /\ \A f, g \in flights : f.ticket = g.ticket => f = g
  /\ \A f \in flights :
       /\ Running(a) /\ f.ticket.gen = Now(a).gen /\ f.ticket.rev <= Now(a).rev
       /\ [kind |-> "refresh", gen |-> f.ticket.gen, rev |-> f.ticket.rev] \in activities
       /\ f.pc \in {"answered", "writing"} => f.tok # None
       /\ f.pc = "writing" /\ Usable(a) /\ f.ticket # Now(a) => change.pc = "writing"

ChangeInForce(a) ==
  /\ change.pc # "idle" => Running(a) /\ (Usable(a) => a.phase = "active")
  /\ change.pc \in {"sent", "answered"} => change.source = Now(a) /\ PasswordActivity \in activities
  /\ change.pc = "writing" => /\ rotation = Now(a) /\ RotateActivity(rotation) \in activities
                              /\ \A f \in flights : f.ticket # rotation
  /\ change.pc # "writing" => rotation = NoTicket
  /\ change.pc \in {"answered", "writing"} => change.tok # None

SignInsInForce(a) ==
  /\ \A s, r \in SignIns : Pending(s) /\ Pending(r) => s = r
  /\ \A s \in SignIns :
       /\ signin[s].pc \in {"login", "write"} => signin[s].tok # None
       /\ signin[s].pc \in {"write", "media"} =>
            restore.ticket.gen < signin[s].ticket.gen /\ signin[s].ticket.gen <= a.gen
       /\ signin[s].pc = "write" =>
            /\ Running(a) /\ signin[s].ticket = Now(a)
            /\ [kind |-> "signin", gen |-> signin[s].ticket.gen, rev |-> 0] \in activities
            /\ flights = {} /\ change.pc = "idle" /\ (Usable(a) => a.active.tok = None)

RestoreInForce(a) ==
  /\ restore.ticket.gen <= a.gen /\ restore.ticket.rev = 0
  /\ restore.pc = "start" => /\ a.phase = "signedOut" /\ a.ui = "restoring"
                             /\ \A s \in SignIns : ~Pending(s)
  /\ restore.pc = "media" /\ IsAuthTicketCurrent(a, restore.ticket) =>
       flights = {} /\ change.pc = "idle" /\ a.latest.tok = None
  /\ \A c \in Callers :
       /\ waiter[c].ticket.gen <= a.gen
       /\ waiter[c].pc = "sent" /\ IsAuthTicketCurrent(a, waiter[c].ticket) => a.active.tok # None

\* The queue holds the writes of those who wait for one.
Writing == {f \in flights : f.pc = "writing"}
SigningIn == {s \in SignIns : signin[s].pc = "write"}

QueueInOrder(a) ==
  \/ queue = <<>> /\ Writing = {} /\ change.pc # "writing" /\ SigningIn = {}
  \/ \E f \in flights :
       /\ Writing = {f} /\ SigningIn = {}
       /\ \/ /\ change.pc # "writing"
             /\ queue = <<[kind |-> "refresh", tok |-> f.tok]>>
          \/ /\ change.pc = "writing"
             /\ queue = <<[kind |-> "refresh", tok |-> f.tok], [kind |-> "rotate", tok |-> change.tok]>>
  \/ /\ Writing = {} /\ change.pc = "writing" /\ SigningIn = {}
     /\ queue = <<[kind |-> "rotate", tok |-> change.tok]>>
  \/ \E s \in SignIns :
       /\ Writing = {} /\ change.pc # "writing" /\ SigningIn = {s}
       /\ queue = <<[kind |-> "signin", tok |-> signin[s].tok]>>
  \/ /\ Writing = {} /\ change.pc # "writing" /\ SigningIn = {} /\ a.close = "clear"
     /\ queue = <<[kind |-> "clear", tok |-> None]>>

\* The last write is of the newest token.
StoreFollows(a) ==
  /\ Usable(a) =>
       /\ a.latest.tok = None => queue = <<>> /\ a.active.tok = None
       /\ a.latest.tok # None /\ queue = <<>> => store = a.latest.tok /\ a.active.tok = a.latest.tok
       /\ queue # <<>> => queue[Len(queue)].tok = a.latest.tok
       /\ \A f \in flights : f.ticket = Now(a) /\ f.pc \in {"reading", "read", "sent"} =>
            queue = <<>> /\ (f.pc # "reading" => f.tok = store)
  /\ a.phase = "signedOut" => queue = <<>> /\ (restore.pc # "start" => store = None)

Logins == {signin[s].tok : s \in {r \in SignIns : signin[r].pc = "login"}}

\* Tokens are handed out in order, and by one way only.
TokensApart ==
  /\ store <= minted /\ \A t \in live : t <= minted
  /\ \A f \in flights : f.tok <= minted
  /\ change.tok <= minted /\ \A s \in SignIns : signin[s].tok <= minted
  /\ change.pc = "answered" => change.tok # store /\ \A f \in flights : f.tok # change.tok
  /\ \A s \in SignIns : signin[s].pc = "login" =>
       /\ signin[s].tok # store /\ \A f \in flights : f.tok # signin[s].tok
       /\ change.tok # signin[s].tok

\* Every token the server accepts has a holder.
LiveAccounted(a) ==
  /\ change.pc = "answered" => live \subseteq {change.tok} \cup Logins
  /\ change.pc # "answered" =>
       \A f \in flights : f.ticket = Now(a) /\ f.pc \in {"sent", "answered"} =>
          live \subseteq orphans \cup Logins \cup {f.tok}
  /\ \A f \in flights : f.ticket # Now(a) /\ f.pc \in {"sent", "answered"} => f.tok \notin live
  /\ /\ a.phase # "signedOut" /\ a.close # "clear" /\ change.pc # "answered"
     /\ \A f \in flights : f.ticket = Now(a) => f.pc # "answered"
     => /\ Held(a) # None => live \subseteq orphans \cup Logins \cup {Held(a)}
        /\ Held(a) = None /\ Usable(a) => live \subseteq orphans \cup Logins \cup {store}
  /\ a.close = "clear" \/ (a.phase = "signedOut" /\ restore.pc # "start") =>
       live \subseteq orphans \cup Logins
  /\ restore.pc = "start" => live \subseteq orphans \cup {store}

InForce(a) ==
  FlightsInForce(a) /\ ChangeInForce(a) /\ SignInsInForce(a) /\ RestoreInForce(a)

Rest(a) ==
  /\ InForce(a) /\ QueueInOrder(a) /\ StoreFollows(a) /\ TokensApart /\ LiveAccounted(a)

SessionInv == TypeOK /\ Lifecycle(auth) /\ Rest(auth)

Auths ==
  [phase : {"signedOut", "opening", "active", "closing"},
   gen : Nat, rev : Nat, access : Tokens, published : Nat,
   active : PairType, latest : PairType, source : TicketType,
   handoff : PairType, seq : Nat,
   close : {"none", "drain", "network", "revoke", "clear"},
   ui : {"restoring", "signedIn", "signedOut"}]

-----------------------------------------------------------------------------
(* The lifecycle by itself.                                                *)

LEMMA ZeroPairs ==
  /\ NoPair \in PairType /\ NoTicket \in TicketType /\ 0 \in Tokens
  /\ NoPair.tok = None /\ NoPair.seq = 0 /\ NoPair.rev = 0 /\ NoTicket.gen = 0 /\ None = 0
BY SessionBounds DEF NoPair, NoTicket, PairType, TicketType, Tokens, None

LEMMA TicketInForce ==
  ASSUME NEW a \in Auths
  PROVE  /\ Ticket(a) \in TicketType /\ Now(a) \in TicketType
         /\ \A k : SourceTicketIsCurrent(a, k) <=> a.phase # "signedOut" /\ k = Now(a)
         /\ \A k : IsAuthTicketCurrent(a, k) <=> Usable(a) /\ k = Now(a)
         /\ Usable(a) => Now(a) = Ticket(a) /\ Held(a) = a.latest.tok
         /\ Ticket(a).gen = a.gen /\ Ticket(a).rev = a.rev
BY DEF Auths, TicketType, Ticket, Now, Held, SourceTicketIsCurrent, IsAuthTicketCurrent, Usable

\* A close keeps the ticket in force and the newest token.
Closed(a, b) ==
  /\ b \in Auths /\ Lifecycle(b) /\ Now(b) = Now(a) /\ Held(b) = Held(a) /\ ~Usable(b)
  /\ b.phase = a.phase \/ b.phase = "closing"
  /\ ~Usable(a) => b = a
  /\ Usable(a) => b.phase = "closing" /\ b.close = "drain"
  /\ a.gen <= b.gen

LEMMA CloseEffect ==
  ASSUME NEW a \in Auths, Lifecycle(a)
  PROVE  Closed(a, BeginClose(a))
<1>1. CASE ~Usable(a)
  BY <1>1 DEF Closed, BeginClose, Auths
<1>2. CASE Usable(a)
  <2>1. PICK n \in Nat : n = a.gen + 1
    BY DEF Auths
  <2>2. PICK p \in PairType : p = NewerCandidate(a.active, a.latest)
    BY DEF NewerCandidate, Auths
  <2>3. BeginClose(a) = [a EXCEPT !.source = Ticket(a), !.phase = "closing", !.gen = n,
                                  !.handoff = p, !.access = None, !.published = 0,
                                  !.close = "drain", !.ui = "signedOut"]
    BY <1>2, <2>1, <2>2 DEF BeginClose
  <2> DEFINE b == [a EXCEPT !.source = Ticket(a), !.phase = "closing", !.gen = n,
                            !.handoff = p, !.access = None, !.published = 0,
                            !.close = "drain", !.ui = "signedOut"]
  <2>4. /\ b \in Auths /\ b.source = Ticket(a) /\ b.phase = "closing" /\ b.gen = n
        /\ b.handoff = p /\ b.close = "drain" /\ b.latest = a.latest
        /\ b.seq = a.seq /\ b.rev = a.rev
    BY <2>1, <2>2, ZeroPairs, TicketInForce DEF Auths
  <2> HIDE DEF b
  <2>5. /\ a.active \in PairType /\ a.latest \in PairType /\ a.seq \in Nat /\ a.rev \in Nat
        /\ a.gen \in Nat
    BY DEF Auths
  <2>6. p.tok = a.latest.tok /\ p.seq <= a.seq /\ p.rev <= a.rev
    <3>1. CASE a.active = NoPair
      <4>1. p = a.active \/ p = a.latest
        BY <2>2 DEF NewerCandidate
      <4>2. p.tok = a.latest.tok
        BY <2>2, <3>1, ZeroPairs DEF NewerCandidate
      <4> QED BY <2>5, <3>1, <4>1, <4>2, ZeroPairs DEF Lifecycle
    <3>2. CASE a.active = a.latest
      BY <2>2, <3>2 DEF NewerCandidate, Lifecycle
    <3>3. CASE /\ a.latest.tok # None
               /\ \/ a.active.rev < a.latest.rev
                  \/ a.active.rev = a.latest.rev /\ a.active.seq < a.latest.seq
      <4>1. /\ a.active.rev \in Nat /\ a.latest.rev \in Nat
            /\ a.active.seq \in Nat /\ a.latest.seq \in Nat
        BY <2>5 DEF PairType
      <4>2. p = a.latest
        BY <2>2, <3>3, <4>1 DEF NewerCandidate
      <4> QED BY <4>2 DEF Lifecycle
    <3> QED BY <1>2, <3>1, <3>2, <3>3 DEF Lifecycle, Behind
  <2>7. Lifecycle(b)
    BY <1>2, <2>1, <2>4, <2>5, <2>6, TicketInForce DEF Lifecycle, Usable
  <2>8. Now(b) = Now(a) /\ Held(b) = Held(a)
    BY <1>2, <2>4, <2>6, TicketInForce DEF Now, Held, Usable
  <2> QED BY <1>2, <2>1, <2>3, <2>4, <2>5, <2>7, <2>8 DEF b, Closed, Usable
<1> QED BY <1>1, <1>2

\* A pair that arrives is the newest, if its ticket is in force.
Same(a, b) ==
  /\ b.phase = a.phase /\ b.close = a.close /\ b.gen = a.gen /\ b.ui = a.ui
  /\ b.source.gen = a.source.gen

LEMMA CandidateNewer ==
  ASSUME NEW p \in PairType, NEW c \in PairType, c.tok # None,
         p.rev < c.rev \/ (p.rev = c.rev /\ p.seq < c.seq)
  PROVE  NewerCandidate(p, c) = c /\ Behind(p, c)
BY DEF NewerCandidate, Behind, PairType

LEMMA RecordEffect ==
  ASSUME NEW a \in Auths, Lifecycle(a), NEW k \in TicketType, NEW t \in Tokens, t # None,
         a.phase # "signedOut", k = Now(a)
  PROVE  LET b == RecordCandidate(a, k, t)
         IN /\ b \in Auths /\ Lifecycle(b) /\ Same(a, b) /\ Now(b) = Now(a) /\ b.source = a.source
            /\ Held(b) = t /\ b.latest.tok = t /\ b.active = a.active
<1>1. /\ a.seq \in Nat /\ a.rev \in Nat /\ a.gen \in Nat /\ a.latest \in PairType
      /\ a.handoff \in PairType /\ a.active \in PairType /\ k.rev = a.rev
  BY DEF Auths, Lifecycle, Now, Ticket
<1>2. PICK n \in Nat : n = a.seq + 1
  BY <1>1
<1>3. PICK c \in PairType : c = Candidate(a, k, t) /\ c.tok = t /\ c.seq = n /\ c.rev = a.rev
  <2>1. Candidate(a, k, t) = [tok |-> t, gen |-> k.gen, rev |-> k.rev, seq |-> n]
    BY <1>2 DEF Candidate
  <2>2. [tok |-> t, gen |-> k.gen, rev |-> k.rev, seq |-> n] \in PairType
    BY DEF PairType, TicketType
  <2> QED BY <1>1, <2>1, <2>2
<1>4. NewerCandidate(a.latest, c) = c /\ Behind(a.latest, c)
  <2>1. \/ a.latest.rev < c.rev \/ (a.latest.rev = c.rev /\ a.latest.seq < c.seq)
    BY <1>1, <1>2, <1>3 DEF Lifecycle, PairType
  <2> QED BY <1>1, <1>3, <2>1, CandidateNewer
<1>5. PICK h \in PairType : h = IF a.phase = "closing" THEN NewerCandidate(a.handoff, c) ELSE a.handoff
  BY <1>1, <1>3 DEF NewerCandidate
<1>6. a.phase = "closing" => h = c
  <2> SUFFICES ASSUME a.phase = "closing" PROVE h = c
    OBVIOUS
  <2>1. \/ a.handoff.rev < c.rev \/ (a.handoff.rev = c.rev /\ a.handoff.seq < c.seq)
    BY <1>1, <1>2, <1>3 DEF Lifecycle, PairType
  <2> QED BY <1>1, <1>3, <1>5, <2>1, CandidateNewer
<1> DEFINE b == [a EXCEPT !.seq = n, !.latest = c, !.handoff = h]
<1>7. RecordCandidate(a, k, t) = b
  BY <1>2, <1>3, <1>4, <1>5, TicketInForce DEF RecordCandidate
<1>8. /\ b \in Auths /\ b.seq = n /\ b.latest = c /\ b.handoff = h /\ b.active = a.active
      /\ b.phase = a.phase /\ b.close = a.close /\ b.gen = a.gen /\ b.rev = a.rev
      /\ b.ui = a.ui /\ b.source = a.source /\ b.access = a.access
  BY DEF Auths
<1> HIDE DEF b
<1>9. Behind(a.active, a.latest) => Behind(a.active, c)
  BY <1>1, <1>2, <1>3 DEF Lifecycle, Behind, PairType
<1>10. Lifecycle(b)
  <2>1. Usable(b) <=> Usable(a)
    BY <1>8 DEF Usable
  <2> QED BY <1>1, <1>2, <1>3, <1>6, <1>8, <1>9, <2>1 DEF Lifecycle
<1>11. Now(b) = Now(a) /\ Held(b) = t
  BY <1>3, <1>6, <1>8 DEF Now, Held, Ticket
<1> QED BY <1>3, <1>7, <1>8, <1>10, <1>11 DEF Same

LEMMA PublishEffect ==
  ASSUME NEW a \in Auths, Lifecycle(a), NEW k \in TicketType, NEW t \in Tokens, t # None,
         Usable(a), k = Now(a)
  PROVE  LET b == PublishPair(a, k, t)
         IN /\ b \in Auths /\ Lifecycle(b) /\ Same(a, b) /\ Now(b) = Now(a)
            /\ Held(b) = t /\ b.latest.tok = t /\ b.active.tok = t /\ b.access = t
<1>1. /\ a.seq \in Nat /\ a.rev \in Nat /\ a.gen \in Nat /\ a.latest \in PairType
      /\ k.rev = a.rev /\ k.rev \in Nat /\ a.phase \in {"opening", "active"}
  BY TicketInForce DEF Auths, Usable
<1>2. PICK n \in Nat : n = a.seq + 1
  BY <1>1
<1>3. PICK c \in PairType : c = Candidate(a, k, t) /\ c.tok = t /\ c.seq = n /\ c.rev = a.rev
  <2>1. Candidate(a, k, t) = [tok |-> t, gen |-> k.gen, rev |-> k.rev, seq |-> n]
    BY <1>2 DEF Candidate
  <2>2. [tok |-> t, gen |-> k.gen, rev |-> k.rev, seq |-> n] \in PairType
    BY DEF PairType, TicketType
  <2> QED BY <1>1, <2>1, <2>2
<1>4. NewerCandidate(a.latest, c) = c
  <2>1. \/ a.latest.rev < c.rev \/ (a.latest.rev = c.rev /\ a.latest.seq < c.seq)
    BY <1>1, <1>2, <1>3 DEF Lifecycle, PairType
  <2> QED BY <1>1, <1>3, <2>1, CandidateNewer
<1> DEFINE b == [a EXCEPT !.seq = n, !.active = c, !.access = t, !.published = k.rev, !.latest = c]
<1>5. PublishPair(a, k, t) = b
  BY <1>2, <1>3, <1>4, TicketInForce DEF PublishPair
<1>6. /\ b \in Auths /\ b.seq = n /\ b.latest = c /\ b.active = c /\ b.access = t
      /\ b.phase = a.phase /\ b.close = a.close /\ b.gen = a.gen /\ b.rev = a.rev
      /\ b.ui = a.ui /\ b.source = a.source
  BY <1>1 DEF Auths
<1> HIDE DEF b
<1>7. Lifecycle(b)
  BY <1>1, <1>2, <1>3, <1>6 DEF Lifecycle, Usable, Behind
<1>8. Now(b) = Now(a) /\ Held(b) = t
  BY <1>1, <1>3, <1>6 DEF Now, Held, Ticket
<1> QED BY <1>3, <1>5, <1>6, <1>7, <1>8 DEF Same

\* A password change moves the session to a ticket of its own.
LEMMA RotateEffect ==
  ASSUME NEW a \in Auths, Lifecycle(a), NEW k \in TicketType, NEW t \in Tokens, t # None,
         a.phase # "signedOut", k = Now(a)
  PROVE  LET b == BeginRotation(a, k, t)
         IN /\ b \in Auths /\ Lifecycle(b) /\ Same(a, b)
            /\ Now(b) = [gen |-> k.gen, rev |-> a.rev + 1]
            /\ Held(b) = t /\ b.latest.tok = t /\ b.active = a.active
<1>1. /\ a.rev \in Nat /\ a.gen \in Nat /\ k.gen \in Nat
  BY DEF Auths, TicketType
<1>2. PICK n \in Nat : n = a.rev + 1
  BY <1>1
<1>3. PICK r \in TicketType : r = [gen |-> k.gen, rev |-> n]
  BY <1>1 DEF TicketType
<1>4. PICK x \in TicketType : x = IF a.phase = "closing" THEN r ELSE a.source
  BY DEF Auths
<1> DEFINE c == [a EXCEPT !.rev = n, !.source = x]
<1>5. BeginRotation(a, k, t) = RecordCandidate(c, r, t)
  BY <1>2, <1>3, <1>4, TicketInForce DEF BeginRotation
<1>6. /\ c \in Auths /\ c.rev = n /\ c.source = x /\ c.seq = a.seq /\ c.latest = a.latest
      /\ c.handoff = a.handoff /\ c.active = a.active /\ c.phase = a.phase /\ c.close = a.close
      /\ c.gen = a.gen /\ c.ui = a.ui /\ c.access = a.access
  BY DEF Auths
<1> HIDE DEF c
<1>7. r.gen = k.gen /\ r.rev = n /\ (a.phase = "closing" => k = a.source)
      /\ (a.phase # "closing" => k.gen = a.gen)
  BY <1>3 DEF Now, Ticket
<1>8. x.gen = a.source.gen
  BY <1>4, <1>7
<1>9. Now(c) = r
  BY <1>3, <1>4, <1>6, <1>7 DEF Now, Ticket
<1>10. Lifecycle(c)
  <2>1. Usable(c) <=> Usable(a)
    BY <1>6 DEF Usable
  <2>2. /\ a.latest \in PairType /\ a.handoff \in PairType /\ a.latest.rev \in Nat /\ a.handoff.rev \in Nat
    BY DEF Auths, PairType
  <2>3. a.phase = "closing" => x.rev = n
    BY <1>4, <1>7
  <2> QED BY <1>1, <1>2, <1>6, <1>8, <2>1, <2>2, <2>3 DEF Lifecycle
<1>11. LET b == RecordCandidate(c, r, t)
       IN /\ b \in Auths /\ Lifecycle(b) /\ Same(c, b) /\ Now(b) = Now(c)
          /\ Held(b) = t /\ b.latest.tok = t /\ b.active = c.active
  BY <1>6, <1>9, <1>10, RecordEffect
<1> QED BY <1>2, <1>3, <1>5, <1>6, <1>8, <1>9, <1>11 DEF Same

\* An opening starts with no token, in a generation of its own.
LEMMA OpenEffect ==
  ASSUME NEW a \in Auths, Lifecycle(a), a.phase = "signedOut"
  PROVE  LET b == BeginOpening(a)
         IN /\ b \in Auths /\ Lifecycle(b) /\ b.phase = "opening" /\ b.close = "none"
            /\ b.gen = a.gen + 1 /\ b.rev = 0 /\ b.active = NoPair /\ b.latest = NoPair
            /\ b.ui = a.ui
<1>1. PICK n \in Nat : n = a.gen + 1
  BY DEF Auths
<1> DEFINE b == [a EXCEPT !.gen = n, !.rev = 0, !.phase = "opening",
                          !.access = None, !.published = 0, !.seq = 0,
                          !.active = NoPair, !.latest = NoPair,
                          !.handoff = NoPair, !.source = NoTicket]
<1>2. BeginOpening(a) = b
  BY <1>1 DEF BeginOpening
<1>3. /\ b \in Auths /\ b.phase = "opening" /\ b.close = a.close /\ b.gen = n /\ b.rev = 0
      /\ b.active = NoPair /\ b.latest = NoPair /\ b.ui = a.ui /\ b.seq = 0 /\ b.access = None
  BY ZeroPairs DEF Auths
<1> HIDE DEF b
<1>4. a.gen \in Nat
  BY DEF Auths
<1>5. Lifecycle(b)
  BY <1>1, <1>3, <1>4, ZeroPairs DEF Lifecycle, Usable, Behind
<1> QED BY <1>1, <1>2, <1>3, <1>5 DEF Lifecycle

\* Nothing but the phase and the screen changes when a session is activated.
LEMMA ActivateEffect ==
  ASSUME NEW a \in Auths, Lifecycle(a), NEW k, CanActivate(a, k)
  PROVE  LET b == Activate(a)
         IN /\ b \in Auths /\ Lifecycle(b) /\ b.phase = "active" /\ b.close = a.close
            /\ b.gen = a.gen /\ b.active = a.active /\ b.latest = a.latest
            /\ Now(b) = Now(a) /\ Held(b) = Held(a) /\ a.phase = "opening" /\ b.ui = "signedIn"
<1> DEFINE b == [a EXCEPT !.phase = "active", !.ui = "signedIn"]
<1>1. /\ b \in Auths /\ b.phase = "active" /\ b.close = a.close /\ b.gen = a.gen /\ b.rev = a.rev
      /\ b.active = a.active /\ b.latest = a.latest /\ b.access = a.access /\ b.seq = a.seq
      /\ b.ui = "signedIn"
  BY DEF Auths
<1>2. a.phase = "opening" /\ a.active.tok # None
  BY DEF CanActivate
<1> HIDE DEF b
<1>3. Lifecycle(b)
  BY <1>1, <1>2 DEF Lifecycle, Usable
<1>4. Now(b) = Now(a) /\ Held(b) = Held(a)
  BY <1>1, <1>2 DEF Now, Held, Ticket
<1> QED BY <1>1, <1>2, <1>3, <1>4 DEF b, Activate

-----------------------------------------------------------------------------
(* A close leaves everything else in order.                                *)

Flights ==
  [ticket : TicketType, tok : Tokens,
   pc : {"reading", "read", "sent", "answered", "refused", "writing", "rotating"}]

Waiters ==
  [pc : {"idle", "sent", "joined", "rotating", "replayed"}, ticket : TicketType, tok : Tokens]

Restores == [pc : {"start", "media", "refresh", "me", "done"}, ticket : TicketType]

LEMMA Typed ==
  ASSUME TypeOK
  PROVE  /\ auth \in Auths /\ flights \subseteq Flights /\ waiter \in [Callers -> Waiters]
         /\ restore \in Restores /\ restore.ticket \in TicketType
         /\ change.source \in TicketType /\ change.tok \in Tokens /\ rotation \in TicketType
         /\ \A f \in flights : f.ticket \in TicketType /\ f.tok \in Tokens
         /\ \A s \in SignIns : signin[s].ticket \in TicketType /\ signin[s].tok \in Tokens
         /\ \A c \in Callers : waiter[c].ticket \in TicketType /\ waiter[c].tok \in Tokens
BY DEF TypeOK, Auths, Flights, Waiters, Restores

LEMMA TicketFields ==
  /\ \A k \in TicketType : k.gen \in Nat /\ k.rev \in Nat
  /\ \A k, l \in TicketType : k.gen = l.gen /\ k.rev = l.rev => k = l
BY DEF TicketType

ClosesWell == \A a \in Auths : Lifecycle(a) /\ Rest(a) => Rest(BeginClose(a))

LEMMA CloseKeeps == TypeOK => ClosesWell
<1> SUFFICES ASSUME TypeOK, NEW a \in Auths, Lifecycle(a), Rest(a) PROVE Rest(BeginClose(a))
  BY DEF ClosesWell
<1> DEFINE b == BeginClose(a)
<1>1. Closed(a, b)
  BY CloseEffect
<1> HIDE DEF b
<1>2. CASE ~Usable(a)
  BY <1>1, <1>2 DEF Closed, b
<1>3. CASE Usable(a)
  <2>1. /\ b.phase = "closing" /\ b.close = "drain" /\ Now(b) = Now(a) /\ Held(b) = Held(a)
        /\ ~Usable(b) /\ a.gen <= b.gen /\ a.gen \in Nat /\ b.gen \in Nat
        /\ Running(a) /\ Running(b) /\ a.close = "none" /\ a.phase # "signedOut"
    BY <1>1, <1>3 DEF Closed, Running, Lifecycle, Usable, Auths
  <2>2. FlightsInForce(b) /\ ChangeInForce(b)
    BY <2>1 DEF Rest, InForce, FlightsInForce, ChangeInForce
  <2>3. SignInsInForce(b)
    BY <2>1, Typed, TicketFields DEF Rest, InForce, SignInsInForce
  <2>4. RestoreInForce(b)
    BY <2>1, Typed, TicketFields DEF Rest, InForce, RestoreInForce, IsAuthTicketCurrent
  <2>5. QueueInOrder(b)
    BY <2>1 DEF Rest, InForce, QueueInOrder
  <2>6. StoreFollows(b)
    BY <2>1 DEF StoreFollows
  <2>7. LiveAccounted(b)
    BY <2>1 DEF Rest, InForce, LiveAccounted
  <2> QED BY <2>2, <2>3, <2>4, <2>5, <2>6, <2>7 DEF Rest, InForce, b
<1> QED BY <1>2, <1>3

LEMMA ByClose ==
  ASSUME TypeOK', NEW a \in Auths, Lifecycle(a), Rest(a)', auth' = a \/ auth' = BeginClose(a)
  PROVE  SessionInv'
<1>1. CASE auth' = a
  BY <1>1 DEF SessionInv
<1>2. CASE auth' = BeginClose(a)
  <2>1. ClosesWell'
    BY CloseKeeps, PTL
  <2>3. Rest(BeginClose(a))'
    BY <2>1 DEF ClosesWell
  <2>2. Lifecycle(BeginClose(a))
    BY CloseEffect DEF Closed
  <2> QED BY <1>2, <2>2, <2>3 DEF SessionInv
<1> QED BY <1>1, <1>2

-----------------------------------------------------------------------------
(* A flight ends, or waits for a rotation.                                 *)

RefreshActivity(k) == [kind |-> "refresh", gen |-> k.gen, rev |-> k.rev]

Leaves(f) ==
  \/ /\ flights' = flights \ {f} /\ activities' = activities \ {RefreshActivity(f.ticket)}
  \/ /\ flights' = (flights \ {f}) \cup {[f EXCEPT !.pc = "rotating"]} /\ activities' = activities

WaitersFollow ==
  /\ waiter' \in [Callers -> Waiters]
  /\ \A c \in Callers :
       /\ waiter'[c].ticket \in {waiter[c].ticket, NoTicket}
       /\ waiter'[c].pc = "sent" => waiter'[c] = waiter[c]

Resumed ==
  /\ restore' \in Restores /\ restore'.ticket = restore.ticket
  /\ restore'.pc = restore.pc \/ (restore.pc = "refresh" /\ restore'.pc \in {"me", "done"})
  /\ WaitersFollow

LEMMA ResumeShape ==
  ASSUME NEW a, NEW w \in Waiters, NEW v \in Tokens
  PROVE  /\ Resume(a, w, v) \in Waiters /\ Resume(a, w, v).pc \in {"replayed", "idle"}
         /\ Resume(a, w, v).ticket \in {w.ticket, NoTicket}
BY ZeroPairs DEF Resume, Waiters

LEMMA AccessTyped ==
  ASSUME NEW a \in Auths, NEW k
  PROVE  AccessNow(a, k) \in Tokens
BY ZeroPairs DEF AccessNow, Auths

LEMMA AfterShape ==
  ASSUME NEW a \in Auths, NEW rot, NEW w \in Waiters, NEW v \in Tokens
  PROVE  /\ AfterFlight(a, rot, w, v) \in Waiters
         /\ AfterFlight(a, rot, w, v).pc \in {"replayed", "idle", "rotating"}
         /\ AfterFlight(a, rot, w, v).ticket \in {w.ticket, NoTicket}
<1>1. /\ [w EXCEPT !.pc = "rotating"] \in Waiters /\ [w EXCEPT !.pc = "rotating"].pc = "rotating"
      /\ [w EXCEPT !.pc = "rotating"].ticket = w.ticket
  BY DEF Waiters
<1>2. AccessNow(a, w.ticket) \in Tokens
  BY AccessTyped
<1>3. \/ AfterFlight(a, rot, w, v) = [w EXCEPT !.pc = "rotating"]
      \/ AfterFlight(a, rot, w, v) = Resume(a, w, v)
      \/ AfterFlight(a, rot, w, v) = Resume(a, w, AccessNow(a, w.ticket))
  BY DEF AfterFlight
<1>4. \A x \in Tokens : /\ Resume(a, w, x) \in Waiters /\ Resume(a, w, x).pc \in {"replayed", "idle"}
                        /\ Resume(a, w, x).ticket \in {w.ticket, NoTicket}
  BY ResumeShape
<1> QED BY <1>1, <1>2, <1>3, <1>4

LEMMA EndFlightShape ==
  ASSUME TypeOK, NEW a \in Auths, Lifecycle(a), NEW f \in flights, NEW v \in Tokens,
         NEW hard \in BOOLEAN, EndFlight(a, rotation, f, v, hard)
  PROVE  /\ Leaves(f) /\ Resumed
         /\ auth' = a \/ auth' = BeginClose(a)
<1> DEFINE b == IF hard THEN BeginClose(a) ELSE a
<1>1. b \in Auths /\ (BeginClose(b) = BeginClose(a)) /\ (b = a \/ b = BeginClose(a))
  BY CloseEffect DEF Closed, BeginClose
<1>2. auth' = b \/ auth' = BeginClose(b)
  BY DEF EndFlight
<1>3. waiter' = [c \in Callers |->
         IF waiter[c].pc = "joined" /\ waiter[c].ticket = f.ticket
         THEN AfterFlight(b, rotation, waiter[c], v) ELSE waiter[c]]
  BY DEF EndFlight
<1>4. restore' = restore \/ (restore.pc = "refresh" /\ restore' = RestoreAfter(b, v))
  BY DEF EndFlight
<1>5. Leaves(f)
  BY DEF EndFlight, Leaves, RefreshActivity
<1> HIDE DEF b
<1>6. \A c \in Callers :
        /\ waiter'[c] \in Waiters /\ waiter'[c].ticket \in {waiter[c].ticket, NoTicket}
        /\ waiter'[c].pc = "sent" => waiter'[c] = waiter[c]
  BY <1>1, <1>3, Typed, AfterShape
<1>7. /\ restore' \in Restores /\ restore'.ticket = restore.ticket
      /\ restore'.pc = restore.pc \/ (restore.pc = "refresh" /\ restore'.pc \in {"me", "done"})
  BY <1>4, Typed DEF RestoreAfter, Restores
<1> QED BY <1>1, <1>2, <1>3, <1>5, <1>6, <1>7 DEF Resumed, WaitersFollow

LEMMA SupersededShape ==
  ASSUME TypeOK, NEW a \in Auths, Lifecycle(a), NEW f \in flights, EndSuperseded(a, f)
  PROVE  /\ Leaves(f) /\ Resumed
         /\ auth' = a \/ auth' = BeginClose(a)
<1>1. CASE EndFlight(a, rotation, f, AccessNow(a, f.ticket), FALSE)
  BY <1>1, AccessTyped, EndFlightShape
<1>2. CASE /\ flights' = (flights \ {f}) \cup {[f EXCEPT !.pc = "rotating"]}
           /\ auth' = a
           /\ UNCHANGED <<activities, waiter, restore>>
  BY <1>2, Typed DEF Leaves, Resumed, WaitersFollow
<1> QED BY <1>1, <1>2 DEF EndSuperseded

\* Those who wait for nobody in particular.
serversVars == <<store, queue, rotation, signin, change, live, minted>>

\* Flight f is gone; the others are as they were.
Gone(f) ==
  /\ f \notin flights'
  /\ \A g \in flights : g # f => g \in flights'
  /\ \A g \in flights' : \/ g \in flights /\ g # f
                         \/ g.ticket = f.ticket /\ g.pc = "rotating" /\ g.tok = f.tok
  /\ restore'.pc # "start" /\ \A s \in SignIns : signin[s].pc # "write"

\* A flight can only be there while nothing else may start.
OnlyFlights(a) ==
  /\ Running(a) /\ a.phase # "signedOut" /\ a.close # "clear" /\ restore.pc # "start"
  /\ \A s \in SignIns : signin[s].pc # "write"
  /\ ~(restore.pc = "media" /\ IsAuthTicketCurrent(a, restore.ticket))

LEMMA WithFlights ==
  ASSUME NEW a \in Auths, Lifecycle(a), InForce(a), flights # {}
  PROVE  OnlyFlights(a)
BY DEF Rest, InForce, FlightsInForce, Running, Usable, Lifecycle, SignInsInForce, RestoreInForce, OnlyFlights

LEMMA LeavesForce ==
  ASSUME TypeOK, NEW a \in Auths, Lifecycle(a), InForce(a), NEW f \in flights, f.pc # "rotating",
         Leaves(f), Resumed, UNCHANGED <<rotation, signin, change>>
  PROVE  /\ InForce(a)'
         /\ Gone(f) /\ OnlyFlights(a)
<1>1. UNCHANGED <<rotation, signin, change>>
  OBVIOUS
<1>2. /\ f \notin flights'
      /\ \A g \in flights : g # f =>
            /\ g \in flights'
            /\ RefreshActivity(g.ticket) \in activities => RefreshActivity(g.ticket) \in activities'
      /\ \A g \in flights' : \/ g \in flights /\ g # f
                             \/ /\ g.ticket = f.ticket /\ g.pc = "rotating" /\ g.tok = f.tok
                                /\ activities' = activities
      /\ \A x \in activities : x.kind # "refresh" => x \in activities'
  <2>1. \A g \in flights : g # f => RefreshActivity(g.ticket) # RefreshActivity(f.ticket)
    <3>1. \A g \in flights : g # f => g.ticket # f.ticket
      BY DEF Rest, InForce, FlightsInForce
    <3> QED BY <3>1, Typed, TicketFields DEF RefreshActivity
  <2>2. /\ [f EXCEPT !.pc = "rotating"].ticket = f.ticket /\ [f EXCEPT !.pc = "rotating"].tok = f.tok
        /\ [f EXCEPT !.pc = "rotating"].pc = "rotating"
    BY Typed DEF Flights
  <2>3. RefreshActivity(f.ticket).kind = "refresh"
    BY DEF RefreshActivity
  <2> QED BY <2>1, <2>2, <2>3 DEF Leaves
<1>3. /\ Running(a) /\ a.phase # "signedOut" /\ a.close # "clear" /\ restore.pc # "start"
      /\ \A s \in SignIns : signin[s].pc # "write"
      /\ ~(restore.pc = "media" /\ IsAuthTicketCurrent(a, restore.ticket))
  BY WithFlights DEF OnlyFlights
<1>4. FlightsInForce(a)'
  <2>1. \A g \in flights' : \E h \in flights : /\ g.ticket = h.ticket /\ (g = h \/ g.pc = "rotating")
                                               /\ RefreshActivity(g.ticket) \in activities'
    <3>1. \A h \in flights : RefreshActivity(h.ticket) \in activities
      BY DEF Rest, InForce, FlightsInForce, RefreshActivity
    <3> QED BY <1>2, <3>1
  <2>2. \A g, h \in flights' : g.ticket = h.ticket => g = h
    <3>1. \A g, h \in flights : g.ticket = h.ticket => g = h
      BY DEF Rest, InForce, FlightsInForce
    <3>2. \A g, h \in flights' : g \in flights /\ h \in flights /\ g.ticket = h.ticket => g = h
      BY <3>1
    <3>3. \A g, h \in flights' : g \in flights /\ h \notin flights => g.ticket # h.ticket
      <4> SUFFICES ASSUME NEW g \in flights', NEW h \in flights', g \in flights, h \notin flights
                   PROVE  g.ticket # h.ticket
        OBVIOUS
      <4>1. g # f /\ h.ticket = f.ticket
        BY <1>2
      <4> QED BY <3>1, <4>1
    <3>4. \A g, h \in flights' : g \notin flights /\ h \notin flights => g = h
      BY DEF Leaves
    <3> QED BY <3>2, <3>3, <3>4
  <2>3. \A h \in flights : /\ Running(a) /\ h.ticket.gen = Now(a).gen /\ h.ticket.rev <= Now(a).rev
                           /\ h.pc \in {"answered", "writing"} => h.tok # None
                           /\ h.pc = "writing" /\ Usable(a) /\ h.ticket # Now(a) => change.pc = "writing"
    BY DEF Rest, InForce, FlightsInForce
  <2> QED BY <1>1, <2>1, <2>2, <2>3 DEF FlightsInForce, RefreshActivity
<1>5. ChangeInForce(a)'
  <2>1. PasswordActivity.kind = "password" /\ RotateActivity(rotation).kind = "rotate"
    BY DEF PasswordActivity, RotateActivity
  <2>2. PasswordActivity' = PasswordActivity /\ RotateActivity(rotation)' = RotateActivity(rotation)
    BY <1>1 DEF PasswordActivity, RotateActivity
  <2> QED BY <1>1, <1>2, <2>1, <2>2 DEF Rest, InForce, ChangeInForce
<1>6. SignInsInForce(a)'
  BY <1>1, <1>3 DEF Rest, InForce, SignInsInForce, Pending, Resumed, WaitersFollow
<1>7. RestoreInForce(a)'
  <2>1. restore'.pc # "start" /\ restore'.ticket = restore.ticket
        /\ (restore'.pc = "media" => restore.pc = "media")
    BY <1>3 DEF Resumed, WaitersFollow
  <2>2. \A c \in Callers : /\ waiter'[c].ticket.gen <= a.gen
                           /\ waiter'[c].pc = "sent" /\ IsAuthTicketCurrent(a, waiter'[c].ticket) =>
                                a.active.tok # None
    <3>1. \A c \in Callers : /\ waiter[c].ticket.gen <= a.gen
                             /\ waiter[c].pc = "sent" /\ IsAuthTicketCurrent(a, waiter[c].ticket) =>
                                  a.active.tok # None
      BY DEF Rest, InForce, RestoreInForce
    <3>2. NoTicket.gen <= a.gen
      BY ZeroPairs DEF Auths
    <3> QED BY <3>1, <3>2 DEF Resumed, WaitersFollow
  <2> QED BY <1>3, <2>1, <2>2 DEF Rest, InForce, RestoreInForce
<1>8. Gone(f) /\ OnlyFlights(a)
  BY <1>2, <1>3 DEF Gone, OnlyFlights, Resumed, WaitersFollow
<1> QED BY <1>4, <1>5, <1>6, <1>7, <1>8 DEF InForce

LEMMA LeavesAccounted ==
  ASSUME TypeOK, NEW a \in Auths, Lifecycle(a), FlightsInForce(a), LiveAccounted(a), NEW f \in flights,
         Gone(f), OnlyFlights(a), UNCHANGED <<signin, change, live>>, orphans \subseteq orphans',
         store' = store \/ ~Usable(a) \/ Held(a) # None,
         f.pc = "answered" => f.ticket # Now(a) \/ f.tok \in orphans' \/ Held(a) = f.tok
  PROVE  LiveAccounted(a)'
<1>1. Logins' = Logins
  BY DEF Logins
<1>2. \A g \in flights' : g.pc \in {"sent", "answered"} => g \in flights
  BY DEF Gone
<1>3. change.pc = "answered" => live \subseteq {change.tok} \cup Logins
  BY DEF Rest, InForce, LiveAccounted
<1>4. change.pc # "answered" =>
        \A g \in flights' : g.ticket = Now(a) /\ g.pc \in {"sent", "answered"} =>
           live \subseteq orphans' \cup Logins \cup {g.tok}
  BY <1>2 DEF Rest, InForce, LiveAccounted
<1>5. \A g \in flights' : g.ticket # Now(a) /\ g.pc \in {"sent", "answered"} => g.tok \notin live
  BY <1>2 DEF Rest, InForce, LiveAccounted
<1>6. ASSUME change.pc # "answered", \A g \in flights' : g.ticket = Now(a) => g.pc # "answered"
      PROVE  /\ Held(a) # None => live \subseteq orphans' \cup Logins \cup {Held(a)}
             /\ Held(a) = None /\ Usable(a) => live \subseteq orphans' \cup Logins \cup {store}
  <2>1. CASE f.pc = "answered" /\ f.ticket = Now(a)
    <3>1. live \subseteq orphans \cup Logins \cup {f.tok}
      BY <1>6, <2>1 DEF Rest, InForce, LiveAccounted
    <3>2. f.tok # None
      BY <2>1 DEF Rest, InForce, FlightsInForce
    <3> QED BY <2>1, <3>1, <3>2
  <2>2. CASE ~(f.pc = "answered" /\ f.ticket = Now(a))
    <3>1. \A g \in flights : g.ticket = Now(a) => g.pc # "answered"
      <4> SUFFICES ASSUME NEW g \in flights, g.ticket = Now(a) PROVE g.pc # "answered"
        OBVIOUS
      <4>1. CASE g = f
        BY <2>2, <4>1
      <4>2. CASE g # f
        <5>1. g \in flights'
          BY <4>2 DEF Gone
        <5> QED BY <1>6, <5>1
      <4> QED BY <4>1, <4>2
    <3> QED BY <1>6, <3>1 DEF Rest, InForce, LiveAccounted, OnlyFlights
  <2> QED BY <2>1, <2>2
<1>7. restore'.pc # "start"
  BY DEF Gone
<1>8. Held(a) = None /\ Usable(a) => store' = store
  OBVIOUS
<1> QED BY <1>1, <1>3, <1>4, <1>5, <1>6, <1>7, <1>8 DEF LiveAccounted, OnlyFlights

LEMMA FlightLeaves ==
  ASSUME TypeOK, NEW a \in Auths, Lifecycle(a), Rest(a), NEW f \in flights,
         f.pc \notin {"writing", "rotating"},
         Leaves(f), Resumed, UNCHANGED serversVars, orphans \subseteq orphans',
         f.pc = "answered" => f.ticket # Now(a) \/ f.tok \in orphans' \/ Held(a) = f.tok
  PROVE  Rest(a)'
<1>1. UNCHANGED <<store, queue, rotation, signin, change, live, minted>>
  BY DEF serversVars
<1>2. /\ InForce(a)'
      /\ Gone(f) /\ OnlyFlights(a)
  BY <1>1, LeavesForce DEF Rest
<1>3. QueueInOrder(a)'
  <2>1. Writing' = Writing /\ SigningIn' = SigningIn /\ \A g : Writing = {g} => g \in flights'
    <3>1. \A g : g \in flights /\ g.pc = "writing" <=> g \in flights' /\ g.pc = "writing"
      BY <1>2 DEF Gone
    <3> QED BY <1>1, <3>1 DEF Writing, SigningIn
  <2> QED BY <1>1, <2>1 DEF Rest, InForce, QueueInOrder
<1>4. StoreFollows(a)'
  BY <1>1, <1>2 DEF Rest, InForce, StoreFollows, Gone, OnlyFlights
<1>5. TokensApart'
  <2>1. \A g \in flights' : \E h \in flights : g.tok = h.tok
    BY <1>2 DEF Gone
  <2> QED BY <1>1, <2>1 DEF Rest, InForce, TokensApart
<1>6. LiveAccounted(a)'
  BY <1>1, <1>2, LeavesAccounted DEF Rest, InForce
<1> QED BY <1>2, <1>3, <1>4, <1>5, <1>6 DEF Rest, InForce

othersVars == <<serversVars, restarts, failures>>

LEMMA FlightOver ==
  ASSUME TypeOK, NEW a \in Auths, Lifecycle(a), Rest(a), NEW f \in flights,
         f.pc \notin {"writing", "rotating"},
         \/ EndSuperseded(a, f)
         \/ \E v \in Tokens, hard \in BOOLEAN : EndFlight(a, rotation, f, v, hard),
         UNCHANGED othersVars, orphans \subseteq orphans', orphans' \subseteq Tokens,
         f.pc = "answered" => f.ticket # Now(a) \/ f.tok \in orphans' \/ Held(a) = f.tok
  PROVE  SessionInv'
<1>1. UNCHANGED <<store, queue, rotation, signin, change, live, minted, restarts, failures>>
      /\ UNCHANGED serversVars
  BY DEF othersVars, serversVars
<1>2. Leaves(f) /\ Resumed /\ (auth' = a \/ auth' = BeginClose(a))
  BY EndFlightShape, SupersededShape
<1>3. Rest(a)'
  BY <1>1, <1>2, FlightLeaves
<1>4. auth' \in Auths
  BY <1>2, CloseEffect DEF Closed
<1>5. flights' \subseteq Flights
  <2>1. [f EXCEPT !.pc = "rotating"] \in Flights
    BY Typed DEF Flights
  <2> QED BY <1>2, <2>1, Typed DEF Leaves
<1>6. TypeOK'
  BY <1>1, <1>2, <1>4, <1>5 DEF TypeOK, Auths, Flights, Leaves, Resumed, WaitersFollow, Restores, Waiters
<1> QED BY <1>2, <1>3, <1>6, ByClose

-----------------------------------------------------------------------------
(* A flight goes on.                                                       *)

Turns(f, g) ==
  /\ g.ticket = f.ticket /\ flights' = (flights \ {f}) \cup {g}
  /\ UNCHANGED <<activities, rotation, signin, change, restore, waiter, restarts>>

LEMMA FlightTurns ==
  ASSUME TypeOK, NEW a \in Auths, Lifecycle(a), InForce(a), NEW f \in flights, NEW g \in Flights,
         Turns(f, g), f.pc # "writing", g.pc \in {"answered", "writing"} => g.tok # None,
         g.pc = "writing" /\ Usable(a) => g.ticket = Now(a)
  PROVE  /\ InForce(a)'
         /\ OnlyFlights(a)
         /\ \A h \in flights : h.ticket = f.ticket => h = f
         /\ QueueInOrder(a) /\ g.pc # "writing" /\ queue' = queue => QueueInOrder(a)'
<1>1. /\ g.ticket = f.ticket /\ flights' = (flights \ {f}) \cup {g}
      /\ UNCHANGED <<activities, rotation, signin, change, restore, waiter>>
  BY DEF Turns
<1>2. /\ Running(a) /\ a.phase # "signedOut" /\ a.close # "clear" /\ restore.pc # "start"
      /\ \A s \in SignIns : signin[s].pc # "write"
      /\ ~(restore.pc = "media" /\ IsAuthTicketCurrent(a, restore.ticket))
  BY WithFlights DEF OnlyFlights
<1>3. \A h, i \in flights : h.ticket = i.ticket => h = i
  BY DEF Rest, InForce, FlightsInForce
<1>4. FlightsInForce(a)'
  <2>1. \A h, i \in flights' : h.ticket = i.ticket => h = i
    BY <1>1, <1>3
  <2>2. \A h \in flights : /\ h.ticket.gen = Now(a).gen /\ h.ticket.rev <= Now(a).rev
                           /\ [kind |-> "refresh", gen |-> h.ticket.gen, rev |-> h.ticket.rev]
                                 \in activities
                           /\ h.pc \in {"answered", "writing"} => h.tok # None
                           /\ h.pc = "writing" /\ Usable(a) /\ h.ticket # Now(a) =>
                                change.pc = "writing"
    BY DEF Rest, InForce, FlightsInForce
  <2> QED BY <1>1, <1>2, <2>1, <2>2 DEF FlightsInForce
<1>5. ChangeInForce(a)'
  <2>1. PasswordActivity' = PasswordActivity /\ RotateActivity(rotation)' = RotateActivity(rotation)
    BY <1>1 DEF PasswordActivity, RotateActivity
  <2> QED BY <1>1, <2>1 DEF Rest, InForce, ChangeInForce
<1>6. SignInsInForce(a)'
  BY <1>1, <1>2 DEF Rest, InForce, SignInsInForce, Pending
<1>7. RestoreInForce(a)'
  BY <1>1, <1>2 DEF Rest, InForce, RestoreInForce
<1>8. ASSUME QueueInOrder(a), g.pc # "writing", queue' = queue PROVE QueueInOrder(a)'
  <2>1. \A h : h \in flights /\ h.pc = "writing" <=> h \in flights' /\ h.pc = "writing"
    BY <1>1, <1>8
  <2>2. Writing' = Writing /\ SigningIn' = SigningIn /\ \A h : Writing = {h} => h \in flights'
    BY <1>1, <2>1 DEF Writing, SigningIn
  <2> QED BY <1>1, <1>8, <2>2 DEF Rest, InForce, QueueInOrder
<1> QED BY <1>1, <1>3, <1>4, <1>5, <1>6, <1>7, <1>8, WithFlights DEF InForce

LEMMA TurnsTyped ==
  ASSUME TypeOK, NEW f \in flights, NEW g \in Flights, Turns(f, g), auth' \in Auths,
         store' \in Tokens, live' \subseteq Tokens, minted' \in Tokens, failures' \in Nat,
         orphans' \subseteq Tokens,
         queue' \in Seq([kind : {"refresh", "signin", "rotate", "clear"}, tok : Tokens])
  PROVE  TypeOK'
BY DEF TypeOK, Auths, Flights, Turns

LEMMA ReadTokenInv ==
  ASSUME SessionInv, NEW f \in flights, ReadToken(f)
  PROVE  SessionInv'
<1> DEFINE g == [f EXCEPT !.pc = "read", !.tok = store]
<1>1. TypeOK /\ Lifecycle(auth) /\ Rest(auth) /\ auth \in Auths /\ store \in Tokens
  BY Typed DEF SessionInv, TypeOK
<1>2. g \in Flights /\ g.ticket = f.ticket /\ g.pc = "read" /\ g.tok = store
  BY <1>1, Typed DEF Flights
<1>3. flights' = (flights \ {f}) \cup {g}
  BY DEF ReadToken
<1> HIDE DEF g
<1>4. /\ f.pc = "reading" /\ Turns(f, g)
      /\ UNCHANGED <<auth, store, queue, signin, change, live, minted, orphans, failures, restore>>
  BY <1>2, <1>3 DEF ReadToken, Turns
<1>5. /\ InForce(auth)'
      /\ QueueInOrder(auth)'
  BY <1>1, <1>2, <1>4, FlightTurns DEF Rest
<1>6. StoreFollows(auth)'
  BY <1>1, <1>2, <1>3, <1>4 DEF Rest, InForce, StoreFollows
<1>7. TokensApart'
  BY <1>1, <1>2, <1>3, <1>4 DEF Rest, InForce, TokensApart
<1>8. LiveAccounted(auth)'
  <2>1. Logins' = Logins
    BY <1>4 DEF Logins
  <2> QED BY <1>1, <1>2, <1>3, <1>4, <2>1 DEF Rest, InForce, LiveAccounted
<1>9. TypeOK'
  BY <1>1, <1>2, <1>4, TurnsTyped DEF TypeOK
<1> QED BY <1>1, <1>4, <1>5, <1>6, <1>7, <1>8, <1>9 DEF SessionInv, Rest

LEMMA HeldAccounted ==
  ASSUME NEW a, LiveAccounted(a), a.phase # "signedOut", a.close # "clear", change.pc # "answered",
         \A f \in flights : f.ticket = Now(a) => f.pc # "answered"
  PROVE  /\ Held(a) # None => live \subseteq orphans \cup Logins \cup {Held(a)}
         /\ Held(a) = None /\ Usable(a) => live \subseteq orphans \cup Logins \cup {store}
BY DEF LiveAccounted

LEMMA PostRefreshInv ==
  ASSUME SessionInv, NEW f \in flights, PostRefresh(f)
  PROVE  SessionInv'
<1>1. TypeOK /\ Lifecycle(auth) /\ Rest(auth) /\ auth \in Auths /\ orphans \subseteq Tokens
  BY Typed DEF SessionInv, TypeOK
<1>2. /\ f.pc = "read" /\ UNCHANGED othersVars
      /\ UNCHANGED <<store, queue, rotation, signin, change, live, minted, orphans, restarts, failures>>
  BY DEF PostRefresh, othersVars, serversVars
<1>3. ASSUME EndSuperseded(auth, f) \/ EndFlight(auth, rotation, f, None, FALSE)
      PROVE  SessionInv'
  <2>1. None \in Tokens /\ orphans' = orphans
    BY <1>2, ZeroPairs
  <2> QED BY <1>1, <1>2, <1>3, <2>1, FlightOver
<1> DEFINE g == [f EXCEPT !.pc = "sent"]
<1>4. ASSUME IsAuthTicketCurrent(auth, f.ticket), flights' = (flights \ {f}) \cup {g}, UNCHANGED <<auth, activities, waiter, restore>>
      PROVE  SessionInv'
  <2>1. g \in Flights /\ g.ticket = f.ticket /\ g.pc = "sent" /\ g.tok = f.tok
    BY <1>1, Typed DEF Flights
  <2> HIDE DEF g
  <2>2. Turns(f, g)
    BY <1>2, <1>4, <2>1 DEF Turns
  <2>3. /\ InForce(auth)' /\ QueueInOrder(auth)' /\ OnlyFlights(auth)
        /\ \A h \in flights : h.ticket = f.ticket => h = f
    BY <1>1, <1>2, <1>4, <2>1, <2>2, FlightTurns DEF Rest
  <2>4. StoreFollows(auth)'
    BY <1>1, <1>2, <1>4, <2>1 DEF Rest, StoreFollows
  <2>5. TokensApart'
    BY <1>1, <1>2, <1>4, <2>1 DEF Rest, TokensApart
  <2>6. LiveAccounted(auth)'
    <3>1. Logins' = Logins
      BY <1>2 DEF Logins
    <3>2. ASSUME f.ticket = Now(auth), change.pc # "answered"
          PROVE  live \subseteq orphans \cup Logins \cup {f.tok}
      <4>1. \A h \in flights : h.ticket = Now(auth) => h.pc # "answered"
        BY <1>2, <2>3, <3>2
      <4>2. /\ Held(auth) # None => live \subseteq orphans \cup Logins \cup {Held(auth)}
            /\ Held(auth) = None /\ Usable(auth) => live \subseteq orphans \cup Logins \cup {store}
        BY <1>1, <2>3, <3>2, <4>1, HeldAccounted DEF Rest, OnlyFlights
      <4>3. Usable(auth) /\ Held(auth) = auth.latest.tok
        BY <1>1, <1>4, TicketInForce
      <4>4. queue = <<>> /\ f.tok = store
        BY <1>1, <1>2, <3>2, <4>3 DEF Rest, StoreFollows
      <4>5. auth.latest.tok # None => auth.latest.tok = f.tok
        BY <1>1, <4>3, <4>4 DEF Rest, StoreFollows
      <4>6. CASE Held(auth) = None
        BY <4>2, <4>3, <4>4, <4>6
      <4>7. CASE Held(auth) # None
        BY <4>2, <4>3, <4>5, <4>7
      <4> QED BY <4>6, <4>7
    <3>3. f.ticket = Now(auth)
      BY <1>1, <1>4, TicketInForce
    <3> QED BY <1>1, <1>2, <1>4, <2>1, <2>3, <3>1, <3>2, <3>3 DEF Rest, LiveAccounted
  <2>7. TypeOK'
    BY <1>1, <1>2, <1>4, <2>1, <2>2, TurnsTyped DEF TypeOK
  <2> QED BY <1>1, <1>4, <2>3, <2>4, <2>5, <2>6, <2>7 DEF SessionInv, Rest
<1> QED BY <1>3, <1>4 DEF PostRefresh

\* The answer holds a pair nobody else has, and takes the old one out.
LEMMA ServerRefreshInv ==
  ASSUME SessionInv, NEW f \in flights, ServerRefresh(f)
  PROVE  SessionInv'
<1>1. TypeOK /\ Lifecycle(auth) /\ Rest(auth) /\ auth \in Auths
  BY Typed DEF SessionInv
<1>2. /\ f.pc = "sent"
      /\ UNCHANGED <<auth, activities, store, queue, rotation, restore, signin,
                     change, waiter, orphans, restarts, failures>>
  BY DEF ServerRefresh
<1>3. /\ OnlyFlights(auth) /\ f.ticket \in TicketType /\ f.tok \in Tokens /\ f \in Flights
      /\ minted \in Nat /\ MaxTokens \in Nat
  BY <1>1, WithFlights, Typed, SessionBounds DEF Rest, TypeOK, Tokens
<1>4. Logins' = Logins
  BY <1>2 DEF Logins
<1>5. CASE /\ f.tok \in live /\ minted < MaxTokens
           /\ minted' = minted + 1
           /\ live' = (live \ {f.tok}) \cup {minted + 1}
           /\ flights' = (flights \ {f}) \cup {[f EXCEPT !.pc = "answered", !.tok = minted + 1]}
  <2>1. PICK n \in Tokens : n = minted + 1 /\ n # None /\ minted < n /\ n \in Nat
    BY <1>3, <1>5 DEF Tokens, None
  <2> DEFINE g == [f EXCEPT !.pc = "answered", !.tok = n]
  <2>2. flights' = (flights \ {f}) \cup {g} /\ live' = (live \ {f.tok}) \cup {n} /\ minted' = n
    BY <1>5, <2>1
  <2>3. g \in Flights /\ g.ticket = f.ticket /\ g.pc = "answered" /\ g.tok = n
    BY <1>3 DEF Flights
  <2> HIDE DEF g
  <2>4. Turns(f, g)
    BY <1>2, <2>2, <2>3 DEF Turns
  <2>5. /\ InForce(auth)' /\ QueueInOrder(auth)'
        /\ \A h \in flights : h.ticket = f.ticket => h = f
    BY <1>1, <1>2, <2>1, <2>2, <2>3, <2>4, FlightTurns DEF Rest
  <2>6. f.ticket = Now(auth)
    BY <1>1, <1>2, <1>5 DEF Rest, LiveAccounted
  <2>7. change.pc # "answered"
    BY <1>1, <1>5 DEF Rest, LiveAccounted, TokensApart, Logins
  <2>8. live \subseteq orphans \cup Logins \cup {f.tok}
    BY <1>1, <1>2, <2>6, <2>7 DEF Rest, LiveAccounted
  <2>9. StoreFollows(auth)'
    BY <1>1, <1>2, <2>2, <2>3 DEF Rest, StoreFollows
  <2>10. TokensApart'
    <3>1. /\ store <= minted /\ (\A t \in live : t <= minted) /\ (\A h \in flights : h.tok <= minted)
          /\ change.tok <= minted /\ \A s \in SignIns : signin[s].tok <= minted
      BY <1>1 DEF Rest, TokensApart
    <3>2. /\ store \in Nat /\ live \subseteq Nat /\ change.tok \in Nat
          /\ (\A h \in flights : h.tok \in Nat) /\ \A s \in SignIns : signin[s].tok \in Nat
      BY <1>1, Typed DEF TypeOK, Tokens
    <3>3. \A x \in Nat : x <= minted => x <= n /\ x # n
      BY <1>3, <2>1
    <3>4. /\ store <= n /\ (\A t \in live' : t <= n) /\ (\A h \in flights' : h.tok <= n)
          /\ change.tok <= n /\ \A s \in SignIns : signin[s].tok <= n /\ signin[s].tok # n
      <4>1. n <= n
        BY <2>1
      <4>2. \A t \in live' : t \in live \/ t = n
        BY <2>2
      <4>3. \A h \in flights' : h \in flights \/ h.tok = n
        BY <2>2, <2>3
      <4> QED BY <3>1, <3>2, <3>3, <4>1, <4>2, <4>3
    <3> QED BY <1>1, <1>2, <2>2, <2>3, <2>7, <3>4 DEF Rest, TokensApart
  <2>11. LiveAccounted(auth)'
    <3>1. \A h \in flights' : h.ticket = Now(auth) => h = g
      BY <2>2, <2>5, <2>6
    <3>2. \A h \in flights' : h.ticket # Now(auth) /\ h.pc \in {"sent", "answered"} => h.tok \notin live'
      <4> SUFFICES ASSUME NEW h \in flights', h.ticket # Now(auth), h.pc \in {"sent", "answered"}
                   PROVE  h.tok \notin live'
        OBVIOUS
      <4>1. h \in flights
        BY <2>2, <2>3, <2>6
      <4>2. h.tok \notin live
        BY <1>1, <4>1 DEF Rest, LiveAccounted
      <4>3. h.tok # n
        <5>1. h.tok <= minted /\ h.tok \in Nat
          BY <1>1, <4>1, Typed DEF Rest, TokensApart, Tokens
        <5> QED BY <1>3, <2>1, <5>1
      <4> QED BY <2>2, <4>2, <4>3
    <3>3. live' \subseteq orphans \cup Logins \cup {n}
      BY <2>2, <2>8
    <3>4. g \in flights' /\ g.ticket = Now(auth)
      BY <2>2, <2>3, <2>6
    <3> QED BY <1>2, <1>3, <1>4, <2>3, <2>7, <3>1, <3>2, <3>3, <3>4 DEF LiveAccounted, OnlyFlights
  <2>12. TypeOK'
    <3>1. live' \subseteq Tokens /\ minted' \in Tokens
      BY <1>1, <2>1, <2>2 DEF TypeOK
    <3> QED BY <1>1, <1>2, <2>3, <2>4, <3>1, TurnsTyped DEF TypeOK
  <2> QED BY <1>1, <1>2, <2>5, <2>9, <2>10, <2>11, <2>12 DEF SessionInv, Rest
<1>6. CASE /\ f.tok \notin live
           /\ flights' = (flights \ {f}) \cup {[f EXCEPT !.pc = "refused"]}
           /\ UNCHANGED <<live, minted>>
  <2> DEFINE g == [f EXCEPT !.pc = "refused"]
  <2>1. flights' = (flights \ {f}) \cup {g}
    BY <1>6
  <2>2. g \in Flights /\ g.ticket = f.ticket /\ g.pc = "refused" /\ g.tok = f.tok
    BY <1>3 DEF Flights
  <2> HIDE DEF g
  <2>3. Turns(f, g)
    BY <1>2, <2>1, <2>2 DEF Turns
  <2>4. /\ InForce(auth)' /\ QueueInOrder(auth)'
        /\ \A h \in flights : h.ticket = f.ticket => h = f
    BY <1>1, <1>2, <2>1, <2>2, <2>3, FlightTurns DEF Rest
  <2>5. StoreFollows(auth)'
    BY <1>1, <1>2, <2>1, <2>2 DEF Rest, StoreFollows
  <2>6. TokensApart'
    BY <1>1, <1>2, <1>6, <2>1, <2>2 DEF Rest, TokensApart
  <2>7. LiveAccounted(auth)'
    BY <1>1, <1>2, <1>4, <1>6, <2>1, <2>2 DEF Rest, LiveAccounted
  <2>8. TypeOK'
    BY <1>1, <1>2, <1>6, <2>2, <2>3, TurnsTyped DEF TypeOK
  <2> QED BY <1>1, <1>2, <2>4, <2>5, <2>6, <2>7, <2>8 DEF SessionInv, Rest
<1> QED BY <1>5, <1>6 DEF ServerRefresh

\* A lifecycle that learns of a pair keeps everybody's place.
LEMMA SameForce ==
  ASSUME NEW a \in Auths, NEW b \in Auths, Same(a, b), Now(b) = Now(a), InForce(a), OnlyFlights(a),
         b.active.tok = a.active.tok \/ b.active.tok # None
  PROVE  InForce(b) /\ (QueueInOrder(a) => QueueInOrder(b))
<1>1. /\ b.phase = a.phase /\ b.close = a.close /\ b.gen = a.gen /\ b.ui = a.ui
      /\ (Usable(b) <=> Usable(a)) /\ (Running(b) <=> Running(a))
      /\ \A k : IsAuthTicketCurrent(b, k) <=> IsAuthTicketCurrent(a, k)
  BY TicketInForce DEF Same, Usable, Running
<1>2. FlightsInForce(b) /\ ChangeInForce(b)
  BY <1>1 DEF InForce, FlightsInForce, ChangeInForce
<1>3. SignInsInForce(b)
  BY <1>1 DEF InForce, SignInsInForce, OnlyFlights
<1>4. RestoreInForce(b)
  BY <1>1 DEF InForce, RestoreInForce, OnlyFlights
<1>5. QueueInOrder(a) => QueueInOrder(b)
  BY <1>1 DEF QueueInOrder
<1> QED BY <1>2, <1>3, <1>4, <1>5 DEF InForce

\* The current ticket has no write under way while its refresh is.
LEMMA NothingQueued ==
  ASSUME NEW a \in Auths, Lifecycle(a), InForce(a), QueueInOrder(a), Usable(a),
         NEW f \in flights, f.ticket = Now(a), f.pc # "writing"
  PROVE  queue = <<>> /\ Writing = {} /\ SigningIn = {} /\ change.pc # "writing"
<1>1. change.pc # "writing"
  BY DEF InForce, ChangeInForce
<1>2. Writing = {}
  BY <1>1 DEF InForce, FlightsInForce, Writing
<1>3. SigningIn = {}
  BY DEF InForce, SignInsInForce, SigningIn
<1>4. a.close # "clear"
  BY DEF Lifecycle
<1> QED BY <1>1, <1>2, <1>3, <1>4 DEF QueueInOrder

LEMMA RefreshAnsweredInv ==
  ASSUME SessionInv, NEW f \in flights, RefreshAnswered(f)
  PROVE  SessionInv'
<1>1. TypeOK /\ Lifecycle(auth) /\ Rest(auth) /\ auth \in Auths /\ orphans \subseteq Tokens
  BY Typed DEF SessionInv, TypeOK
<1>2. /\ f.pc = "answered"
      /\ UNCHANGED <<store, rotation, signin, change, live, minted, orphans, restarts, failures>>
  BY DEF RefreshAnswered
<1>3. /\ OnlyFlights(auth) /\ f.ticket \in TicketType /\ f.tok \in Tokens /\ f.tok # None /\ f \in Flights
  BY <1>1, <1>2, WithFlights, Typed DEF Rest, InForce, FlightsInForce
<1>4. auth.phase # "signedOut" /\ (SourceTicketIsCurrent(auth, f.ticket) <=> f.ticket = Now(auth))
  BY <1>1, <1>3, TicketInForce DEF OnlyFlights
<1>a. PICK a : a = RecordCandidate(auth, f.ticket, f.tok)
  OBVIOUS
<1>5. CASE ~SourceTicketIsCurrent(auth, f.ticket) /\ EndSuperseded(auth, f) /\ UNCHANGED queue
  <2>1. UNCHANGED othersVars /\ orphans' = orphans
    BY <1>2, <1>5 DEF othersVars, serversVars
  <2>2. f.pc \notin {"writing", "rotating"} /\ f.ticket # Now(auth)
    BY <1>2, <1>4, <1>5
  <2> QED BY <1>1, <1>5, <2>1, <2>2, FlightOver
<1>6. ASSUME SourceTicketIsCurrent(auth, f.ticket)
      PROVE  /\ a \in Auths /\ Lifecycle(a) /\ Same(auth, a) /\ Now(a) = Now(auth) /\ Held(a) = f.tok
             /\ a.latest.tok = f.tok /\ InForce(a) /\ QueueInOrder(a) /\ f.ticket = Now(a)
             /\ (Usable(a) <=> Usable(auth)) /\ OnlyFlights(a)
  <2>1. /\ a \in Auths /\ Lifecycle(a) /\ Same(auth, a) /\ Now(a) = Now(auth) /\ Held(a) = f.tok
        /\ a.latest.tok = f.tok /\ a.active = auth.active
    BY <1>1, <1>3, <1>4, <1>6, <1>a, RecordEffect
  <2>2. InForce(a) /\ QueueInOrder(a)
    BY <1>1, <1>3, <2>1, SameForce DEF Rest
  <2>3. Usable(a) <=> Usable(auth)
    BY <2>1 DEF Usable, Same
  <2>4. OnlyFlights(a)
    BY <2>1, <2>2, WithFlights
  <2> QED BY <1>4, <1>6, <2>1, <2>2, <2>3, <2>4
<1>7. CASE /\ SourceTicketIsCurrent(auth, f.ticket) /\ ~IsAuthTicketCurrent(a, f.ticket)
           /\ EndFlight(a, rotation, f, None, FALSE) /\ UNCHANGED queue
  <2>1. UNCHANGED othersVars /\ orphans' = orphans
    BY <1>2, <1>7 DEF othersVars, serversVars
  <2>2. ~Usable(a) /\ a.phase # "signedOut"
    BY <1>6, <1>7, TicketInForce DEF OnlyFlights
  <2>3. StoreFollows(a)
    BY <2>2 DEF StoreFollows
  <2>4. LiveAccounted(a)
    BY <1>1, <1>2, <1>6, <1>7 DEF Rest, LiveAccounted, Same
  <2>5. Rest(a) /\ None \in Tokens
    BY <1>1, <1>6, <1>7, <2>3, <2>4, ZeroPairs DEF Rest
  <2>6. f.pc \notin {"writing", "rotating"} /\ Held(a) = f.tok
    BY <1>2, <1>6, <1>7
  <2> QED BY <1>1, <1>6, <1>7, <2>1, <2>5, <2>6, FlightOver
<1>8. CASE /\ IsAuthTicketCurrent(a, f.ticket)
           /\ auth' = a
           /\ queue' = Append(queue, [kind |-> "refresh", tok |-> f.tok])
           /\ flights' = (flights \ {f}) \cup {[f EXCEPT !.pc = "writing"]}
           /\ UNCHANGED <<activities, waiter, restore>>
  <2> DEFINE g == [f EXCEPT !.pc = "writing"]
  <2>1. g \in Flights /\ g.ticket = f.ticket /\ g.pc = "writing" /\ g.tok = f.tok
    BY <1>3 DEF Flights
  <2>2. flights' = (flights \ {f}) \cup {g}
    BY <1>8
  <2> HIDE DEF g
  <2>3. Turns(f, g)
    BY <1>2, <1>8, <2>1, <2>2 DEF Turns
  <2>4. SourceTicketIsCurrent(auth, f.ticket)
    <3>1. CASE SourceTicketIsCurrent(auth, f.ticket)
      BY <3>1
    <3>2. CASE ~SourceTicketIsCurrent(auth, f.ticket)
      <4>1. a = auth
        BY <3>2, <1>a DEF RecordCandidate
      <4> QED BY <1>8, <4>1 DEF SourceTicketIsCurrent
    <3> QED BY <3>1, <3>2
  <2>5. Usable(a) /\ f.ticket = Now(a)
    BY <1>6, <1>8, <2>4, TicketInForce
  <2>6. queue = <<>> /\ Writing = {} /\ SigningIn = {} /\ change.pc # "writing"
    BY <1>2, <1>6, <2>4, <2>5, NothingQueued
  <2>7. queue' = <<[kind |-> "refresh", tok |-> f.tok]>>
    BY <1>8, <2>6
  <2>8. /\ InForce(a)'
        /\ \A h \in flights : h.ticket = f.ticket => h = f
    <3>1. f.pc # "writing" /\ (g.pc \in {"answered", "writing"} => g.tok # None)
      BY <1>2, <1>3, <2>1
    <3> QED BY <1>1, <1>6, <2>1, <2>3, <2>4, <2>5, <3>1, FlightTurns
  <2>9. \A h \in flights' : h.ticket = Now(a) => h = g
    BY <2>2, <2>5, <2>8
  <2>10. QueueInOrder(a)'
    <3>1. Writing' = {g} /\ SigningIn' = {}
      BY <1>2, <2>1, <2>2, <2>6 DEF Writing, SigningIn
    <3> QED BY <1>2, <2>1, <2>2, <2>6, <2>7, <3>1 DEF QueueInOrder
  <2>11. StoreFollows(a)'
    <3>1. queue' # <<>> /\ Len(queue') = 1 /\ queue'[Len(queue')].tok = f.tok
      BY <2>7
    <3> QED BY <1>3, <1>6, <2>1, <2>4, <2>5, <2>9, <3>1 DEF StoreFollows, Usable
  <2>12. TokensApart'
    BY <1>1, <1>2, <1>8, <2>1, <2>2 DEF Rest, TokensApart
  <2>13. LiveAccounted(a)'
    <3>1. Logins' = Logins
      BY <1>2 DEF Logins
    <3>2. change.pc # "answered" => live \subseteq orphans \cup Logins \cup {f.tok}
      BY <1>1, <1>2, <1>6, <2>4, <2>5 DEF Rest, LiveAccounted
    <3>3. \A h \in flights' : h.ticket # Now(a) /\ h.pc \in {"sent", "answered"} => h.tok \notin live
      BY <1>1, <1>6, <2>1, <2>2, <2>4 DEF Rest, LiveAccounted
    <3>4. change.pc = "answered" => live \subseteq {change.tok} \cup Logins
      BY <1>1 DEF Rest, LiveAccounted
    <3>5. a.close # "clear" /\ a.phase # "signedOut" /\ restore'.pc # "start" /\ Held(a) = f.tok
      BY <1>6, <1>8, <2>4 DEF OnlyFlights
    <3> QED BY <1>2, <1>3, <2>1, <2>9, <3>1, <3>2, <3>3, <3>4, <3>5 DEF LiveAccounted
  <2>14. TypeOK'
    <3>1. queue' \in Seq([kind : {"refresh", "signin", "rotate", "clear"}, tok : Tokens])
      BY <1>3, <2>7
    <3> QED BY <1>1, <1>2, <1>6, <1>8, <2>1, <2>3, <2>4, <3>1, TurnsTyped DEF TypeOK
  <2> QED BY <1>2, <1>6, <1>8, <2>4, <2>8, <2>10, <2>11, <2>12, <2>13, <2>14 DEF SessionInv, Rest
<1> QED BY <1>5, <1>7, <1>8, <1>a DEF RefreshAnswered

\* A pair whose answer is lost is out of reach of a revoke.
LEMMA RefreshFailedInv ==
  ASSUME SessionInv, NEW f \in flights, RefreshFailed(f)
  PROVE  SessionInv'
<1>1. TypeOK /\ Lifecycle(auth) /\ Rest(auth) /\ auth \in Auths /\ orphans \subseteq Tokens
      /\ f.tok \in Tokens /\ None \in Tokens
  BY Typed, ZeroPairs DEF SessionInv, TypeOK
<1>2. /\ f.pc \in {"sent", "answered", "refused"}
      /\ orphans' = IF f.pc = "answered" THEN orphans \cup {f.tok} ELSE orphans
      /\ UNCHANGED othersVars
  BY DEF RefreshFailed, othersVars, serversVars
<1>3. orphans \subseteq orphans' /\ orphans' \subseteq Tokens /\ (f.pc = "answered" => f.tok \in orphans')
      /\ f.pc \notin {"writing", "rotating"}
  BY <1>1, <1>2
<1>4. \/ EndSuperseded(auth, f)
      \/ \E v \in Tokens, hard \in BOOLEAN : EndFlight(auth, rotation, f, v, hard)
  BY <1>1 DEF RefreshFailed
<1> QED BY <1>1, <1>2, <1>3, <1>4, FlightOver

\* The write of a refresh is over: the newest token is durable, a later
\* write follows, or the session closes.
LEMMA FlightWritten ==
  ASSUME TypeOK, NEW a \in Auths, Lifecycle(a), InForce(a), QueueInOrder(a), TokensApart,
         LiveAccounted(a), NEW f \in flights, f.pc = "writing", Leaves(f), Resumed,
         UNCHANGED <<rotation, signin, change, live, minted, orphans, restarts>>, failures' \in Nat,
         queue' = Tail(queue), store' \in {store, f.tok}, auth' = a \/ auth' = BeginClose(a),
         \/ ~Usable(a)
         \/ f.ticket = Now(a) /\ store' = f.tok /\ a.latest.tok = f.tok /\ a.active.tok = f.tok
         \/ f.ticket # Now(a) /\ StoreFollows(a)
  PROVE  SessionInv'
<1>1. UNCHANGED <<rotation, signin, change, live, minted, orphans, restarts>>
  OBVIOUS
<1>2. /\ InForce(a)' /\ Gone(f) /\ OnlyFlights(a)
  BY <1>1, LeavesForce
<1>3. f.tok # None /\ f.tok \in Tokens /\ f.ticket \in TicketType
  BY Typed DEF InForce, FlightsInForce
<1>4. \A g \in flights : g.pc = "writing" => g = f
  BY DEF QueueInOrder, Writing
<1>5. /\ Writing = {f} /\ SigningIn = {}
      /\ \/ change.pc # "writing" /\ queue = <<[kind |-> "refresh", tok |-> f.tok]>>
         \/ /\ change.pc = "writing"
            /\ queue = <<[kind |-> "refresh", tok |-> f.tok], [kind |-> "rotate", tok |-> change.tok]>>
  BY <1>4 DEF QueueInOrder, Writing
<1>6. \/ change.pc # "writing" /\ queue' = <<>>
      \/ change.pc = "writing" /\ queue' = <<[kind |-> "rotate", tok |-> change.tok]>>
  <2>1. \A x : Tail(<<x>>) = <<>>
    OBVIOUS
  <2>2. \A x, y : Tail(<<x, y>>) = <<y>>
    OBVIOUS
  <2> QED BY <1>5, <2>1, <2>2
<1>7. QueueInOrder(a)'
  <2>1. Writing' = {} /\ SigningIn' = {}
    BY <1>1, <1>2, <1>4, <1>5 DEF Writing, SigningIn, Gone
  <2> QED BY <1>1, <1>6, <2>1 DEF QueueInOrder
<1>8. StoreFollows(a)' /\ (Usable(a) => store' = store \/ Held(a) # None)
  <2>1. CASE ~Usable(a)
    BY <1>2, <2>1 DEF StoreFollows, OnlyFlights
  <2>2. CASE /\ Usable(a) /\ f.ticket = Now(a)
             /\ store' = f.tok /\ a.latest.tok = f.tok /\ a.active.tok = f.tok
    <3>1. change.pc # "writing"
      BY <2>2 DEF InForce, ChangeInForce
    <3>3. queue' = <<>>
      BY <1>6, <3>1
    <3>4. \A g \in flights' : g.ticket = Now(a) => g.pc \notin {"reading", "read", "sent"}
      <4>1. \A g \in flights' : g.ticket = Now(a) => g \notin flights \/ g = f
        BY <2>2 DEF InForce, FlightsInForce
      <4> QED BY <1>2, <4>1 DEF Gone
    <3> QED BY <1>2, <1>3, <2>2, <3>3, <3>4, TicketInForce DEF StoreFollows, OnlyFlights
  <2>3. CASE Usable(a) /\ f.ticket # Now(a) /\ StoreFollows(a)
    <3>1. change.pc = "writing"
      BY <2>3 DEF InForce, FlightsInForce
    <3>2. /\ queue # <<>> /\ Len(queue) = 2 /\ queue[Len(queue)].tok = change.tok
          /\ queue' = <<[kind |-> "rotate", tok |-> change.tok]>>
      BY <1>5, <1>6, <3>1
    <3>3. queue' # <<>> /\ queue'[Len(queue')].tok = change.tok
      <4>1. [kind |-> "rotate", tok |-> change.tok].tok = change.tok
        OBVIOUS
      <4>2. \A x : <<x>> # <<>> /\ Len(<<x>>) = 1 /\ <<x>>[1] = x
        OBVIOUS
      <4> QED BY <3>2, <4>1, <4>2
    <3>4. a.latest.tok = change.tok /\ a.latest.tok # None
      BY <2>3, <3>2 DEF StoreFollows
    <3>5. \A g \in flights' : g.ticket # Now(a)
      <4>1. \A g \in flights' : \E h \in flights : h.ticket = g.ticket
        BY <1>2 DEF Gone
      <4>2. \A h \in flights : h.ticket # Now(a)
        BY <3>1 DEF InForce, ChangeInForce
      <4> QED BY <4>1, <4>2
    <3> QED BY <1>2, <2>3, <3>3, <3>4, <3>5, TicketInForce DEF StoreFollows, OnlyFlights
  <2> QED BY <2>1, <2>2, <2>3
<1>9. TokensApart'
  <2>1. \A g \in flights' : \E h \in flights : g.tok = h.tok
    BY <1>2 DEF Gone
  <2> QED BY <1>1, <2>1 DEF TokensApart
<1>10. LiveAccounted(a)'
  <2>1. UNCHANGED <<signin, change, live>> /\ orphans \subseteq orphans' /\ f.pc # "answered"
    BY <1>1
  <2> QED BY <1>2, <1>8, <2>1, LeavesAccounted DEF InForce
<1>11. auth' \in Auths
  BY CloseEffect DEF Closed
<1>12. TypeOK'
  <2>1. flights' \subseteq Flights /\ activities' \subseteq activities
    <3>1. [f EXCEPT !.pc = "rotating"] \in Flights
      BY Typed DEF Flights
    <3> QED BY <3>1, Typed DEF Leaves
  <2>2. /\ queue' \in Seq([kind : {"refresh", "signin", "rotate", "clear"}, tok : Tokens])
        /\ store' \in Tokens
    <3>1. [kind |-> "rotate", tok |-> change.tok]
            \in [kind : {"refresh", "signin", "rotate", "clear"}, tok : Tokens]
      BY Typed
    <3>2. store \in Tokens
      BY DEF TypeOK
    <3>3. \A S : <<>> \in Seq(S) /\ \A x \in S : <<x>> \in Seq(S)
      OBVIOUS
    <3> QED BY <1>3, <1>6, <3>1, <3>2, <3>3
  <2> QED BY <1>1, <1>11, <2>1, <2>2 DEF TypeOK, Auths, Flights, Resumed, WaitersFollow, Restores, Waiters
<1> QED BY <1>2, <1>7, <1>8, <1>9, <1>10, <1>12, ByClose DEF Rest

LEMMA RefreshWrittenInv ==
  ASSUME SessionInv, NEW f \in flights, NEW ok \in BOOLEAN, RefreshWritten(f, ok)
  PROVE  SessionInv'
<1>1. TypeOK /\ Lifecycle(auth) /\ Rest(auth) /\ auth \in Auths /\ f.ticket \in TicketType
      /\ f.tok \in Tokens /\ None \in Tokens /\ failures \in Nat
  BY Typed, ZeroPairs DEF SessionInv, TypeOK
<1>2. /\ f.pc = "writing" /\ UNCHANGED <<rotation, signin, change, live, minted, orphans, restarts>>
      /\ queue' = Tail(queue) /\ Head(queue).tok = f.tok
      /\ IF ok THEN store' = f.tok /\ failures' = failures
         ELSE store' = store /\ failures' = failures + 1
  BY DEF RefreshWritten, Settled
<1>3. failures' \in Nat /\ store' \in {store, f.tok}
  BY <1>1, <1>2
<1>4. f.tok # None /\ OnlyFlights(auth)
  BY <1>1, <1>2, WithFlights DEF Rest, InForce, FlightsInForce
<1>5. IsAuthTicketCurrent(auth, f.ticket) <=> Usable(auth) /\ f.ticket = Now(auth)
  BY <1>1, TicketInForce
<1>6. /\ InForce(auth) /\ QueueInOrder(auth) /\ StoreFollows(auth) /\ TokensApart /\ LiveAccounted(auth)
  BY <1>1 DEF Rest
<1>7. CASE ok /\ IsAuthTicketCurrent(auth, f.ticket)
  <2>1. PICK a : a = PublishPair(auth, f.ticket, f.tok)
    OBVIOUS
  <2>2. /\ a \in Auths /\ Lifecycle(a) /\ Same(auth, a) /\ Now(a) = Now(auth)
        /\ Held(a) = f.tok /\ a.latest.tok = f.tok /\ a.active.tok = f.tok
    BY <1>1, <1>4, <1>5, <1>7, <2>1, PublishEffect
  <2>3. InForce(a) /\ QueueInOrder(a)
    BY <1>1, <1>4, <1>6, <2>2, SameForce
  <2>4. EndFlight(a, rotation, f, f.tok, FALSE)
    BY <1>2, <1>7, <2>1 DEF RefreshWritten
  <2>5. /\ Leaves(f) /\ Resumed
        /\ auth' = a \/ auth' = BeginClose(a)
    BY <1>1, <2>2, <2>4, EndFlightShape
  <2>6. Held(auth) = f.tok
    <3>1. queue # <<>> /\ queue[Len(queue)].tok = f.tok
      <4>1. change.pc # "writing"
        BY <1>5, <1>6, <1>7 DEF InForce, ChangeInForce
      <4>2. \A g \in flights : g.pc = "writing" => g = f
        BY <1>2, <1>6 DEF QueueInOrder, Writing
      <4>3. queue = <<[kind |-> "refresh", tok |-> f.tok]>>
        BY <1>2, <1>6, <4>1, <4>2 DEF QueueInOrder, Writing
      <4> QED BY <4>3
    <3> QED BY <1>1, <1>5, <1>6, <1>7, <3>1, TicketInForce DEF StoreFollows
  <2>7. LiveAccounted(a)
    <3>1. a.phase = auth.phase /\ a.close = auth.close /\ Held(a) = Held(auth) /\ Now(a) = Now(auth)
          /\ (Usable(a) <=> Usable(auth))
      BY <2>2, <2>6 DEF Same, Usable
    <3> QED BY <1>6, <3>1 DEF LiveAccounted
  <2>8. f.ticket = Now(a) /\ store' = f.tok
    BY <1>2, <1>5, <1>7, <2>2
  <2> QED BY <1>1, <1>2, <1>3, <1>6, <2>2, <2>3, <2>5, <2>7, <2>8, FlightWritten
<1>8. CASE ok /\ ~IsAuthTicketCurrent(auth, f.ticket)
  <2>1. EndFlight(auth, rotation, f, None, FALSE)
    BY <1>2, <1>8 DEF RefreshWritten, PublishPair
  <2>2. /\ Leaves(f) /\ Resumed /\ (auth' = auth \/ auth' = BeginClose(auth))
    BY <1>1, <2>1, EndFlightShape
  <2>3. PICK a : a = auth
    OBVIOUS
  <2> QED BY <1>1, <1>2, <1>3, <1>5, <1>6, <1>8, <2>2, <2>3, FlightWritten
<1>9. CASE ~ok /\ IsAuthTicketCurrent(auth, f.ticket)
  <2>1. EndFlight(auth, rotation, f, None, TRUE)
    BY <1>2, <1>9 DEF RefreshWritten
  <2>2. PICK a : a = BeginClose(auth)
    OBVIOUS
  <2>3. a \in Auths /\ Lifecycle(a) /\ ~Usable(a)
    BY <1>1, <2>2, CloseEffect DEF Closed
  <2>4. Rest(a)
    BY <1>1, <2>2, CloseKeeps DEF ClosesWell
  <2>5. EndFlight(a, rotation, f, None, FALSE)
    BY <2>1, <2>2 DEF EndFlight
  <2>6. /\ Leaves(f) /\ Resumed /\ (auth' = a \/ auth' = BeginClose(a))
    BY <1>1, <2>3, <2>5, EndFlightShape
  <2> QED BY <1>1, <1>2, <1>3, <2>3, <2>4, <2>6, FlightWritten DEF Rest
<1>10. CASE ~ok /\ ~IsAuthTicketCurrent(auth, f.ticket)
  <2>1. EndSuperseded(auth, f)
    BY <1>2, <1>10 DEF RefreshWritten
  <2>2. /\ Leaves(f) /\ Resumed /\ (auth' = auth \/ auth' = BeginClose(auth))
    BY <1>1, <2>1, SupersededShape
  <2>3. PICK a : a = auth
    OBVIOUS
  <2> QED BY <1>1, <1>2, <1>3, <1>5, <1>6, <1>10, <2>2, <2>3, FlightWritten
<1> QED BY <1>7, <1>8, <1>9, <1>10

-----------------------------------------------------------------------------
(* Requests.                                                               *)

restVars == <<activities, store, queue, flights, rotation, restore, signin, change, waiter,
              live, minted, orphans>>

LEMMA Unmoved ==
  ASSUME NEW a, Rest(a), UNCHANGED restVars
  PROVE  Rest(a)'
<1>1. UNCHANGED <<activities, store, queue, flights, rotation, restore, signin, change, waiter,
                  live, minted, orphans>>
  BY DEF restVars
<1>2. FlightsInForce(a)' /\ ChangeInForce(a)'
  BY <1>1 DEF Rest, InForce, FlightsInForce, ChangeInForce, PasswordActivity, RotateActivity
<1>3. SignInsInForce(a)' /\ RestoreInForce(a)'
  BY <1>1 DEF Rest, InForce, SignInsInForce, RestoreInForce, Pending
<1>4. QueueInOrder(a)'
  BY <1>1 DEF Rest, QueueInOrder, Writing, SigningIn
<1>5. StoreFollows(a)' /\ TokensApart'
  BY <1>1 DEF Rest, StoreFollows, TokensApart
<1>6. LiveAccounted(a)'
  BY <1>1 DEF Rest, LiveAccounted, Logins
<1> QED BY <1>2, <1>3, <1>4, <1>5, <1>6 DEF Rest, InForce

\* A request that was sent with the credentials of a session found it open.
LEMMA WaiterMoves ==
  ASSUME SessionInv,
         UNCHANGED <<auth, activities, store, queue, flights, rotation, restore, signin, change,
                     live, minted, orphans, restarts, failures>>,
         waiter' \in [Callers -> Waiters],
         \A c \in Callers :
           /\ waiter'[c].ticket.gen <= auth.gen
           /\ waiter'[c].pc = "sent" /\ IsAuthTicketCurrent(auth, waiter'[c].ticket)
                => auth.active.tok # None
  PROVE  SessionInv'
<1>1. UNCHANGED <<auth, activities, store, queue, flights, rotation, restore, signin, change,
                  live, minted, orphans, restarts, failures>>
  OBVIOUS
<1>2. FlightsInForce(auth)' /\ ChangeInForce(auth)'
  BY <1>1 DEF SessionInv, Rest, InForce, FlightsInForce, ChangeInForce, PasswordActivity, RotateActivity
<1>3. SignInsInForce(auth)' /\ RestoreInForce(auth)'
  BY <1>1 DEF SessionInv, Rest, InForce, SignInsInForce, RestoreInForce, Pending
<1>4. QueueInOrder(auth)'
  BY <1>1 DEF SessionInv, Rest, QueueInOrder, Writing, SigningIn
<1>5. StoreFollows(auth)' /\ TokensApart'
  BY <1>1 DEF SessionInv, Rest, StoreFollows, TokensApart
<1>6. LiveAccounted(auth)'
  BY <1>1 DEF SessionInv, Rest, LiveAccounted, Logins
<1>7. TypeOK' /\ Lifecycle(auth)'
  BY <1>1 DEF SessionInv, TypeOK, Waiters
<1> QED BY <1>2, <1>3, <1>4, <1>5, <1>6, <1>7 DEF SessionInv, Rest, InForce

LEMMA SendRequestInv ==
  ASSUME SessionInv, NEW c \in Callers, SendRequest(c)
  PROVE  SessionInv'
<1>1. TypeOK /\ Lifecycle(auth) /\ Rest(auth) /\ auth \in Auths /\ waiter \in [Callers -> Waiters]
  BY Typed DEF SessionInv
<1> DEFINE w == [pc |-> "sent", ticket |-> Ticket(auth), tok |-> auth.access]
<1>2. w \in Waiters /\ w.ticket = Ticket(auth) /\ w.ticket.gen <= auth.gen
  BY <1>1, TicketInForce DEF Waiters, Auths, Tokens
<1>3. auth.active.tok # None
  BY <1>1 DEF SendRequest, Lifecycle
<1>4. waiter' = [waiter EXCEPT ![c] = w]
  BY DEF SendRequest
<1> HIDE DEF w
<1>5. \A d \in Callers :
        /\ waiter[d].ticket.gen <= auth.gen
        /\ waiter[d].pc = "sent" /\ IsAuthTicketCurrent(auth, waiter[d].ticket)
             => auth.active.tok # None
  BY <1>1 DEF Rest, InForce, RestoreInForce
<1> QED BY <1>1, <1>2, <1>3, <1>4, <1>5, WaiterMoves DEF SendRequest

LEMMA AnsweredInv ==
  ASSUME SessionInv, NEW c \in Callers, Answered(c)
  PROVE  SessionInv'
<1>1. TypeOK /\ Lifecycle(auth) /\ Rest(auth) /\ auth \in Auths /\ waiter \in [Callers -> Waiters]
  BY Typed DEF SessionInv
<1>2. PICK w : w = Resume(auth, waiter[c], None)
  OBVIOUS
<1>3. w \in Waiters /\ w.pc # "sent" /\ w.ticket \in {waiter[c].ticket, NoTicket}
  BY <1>1, <1>2, ResumeShape, ZeroPairs
<1>4. waiter' = [waiter EXCEPT ![c] = w]
  BY <1>2 DEF Answered
<1>5. \A d \in Callers :
        /\ waiter[d].ticket.gen <= auth.gen
        /\ waiter[d].pc = "sent" /\ IsAuthTicketCurrent(auth, waiter[d].ticket)
             => auth.active.tok # None
  BY <1>1 DEF Rest, InForce, RestoreInForce
<1>6. NoTicket.gen <= auth.gen
  BY <1>1, ZeroPairs DEF Auths
<1> QED BY <1>1, <1>3, <1>4, <1>5, <1>6, WaiterMoves DEF Answered

\* A refresh starts when no write of its session is under way.
LEMMA JoinKeeps ==
  ASSUME TypeOK, NEW a \in Auths, Lifecycle(a), Rest(a), Usable(a), NEW k, k = Now(a), JoinFlight(k),
         change.pc # "writing", \A s \in SignIns : signin[s].pc # "write",
         UNCHANGED <<store, queue, rotation, signin, change, live, minted, orphans>>,
         restore'.ticket = restore.ticket, restore'.pc # "start",
         restore'.pc = "media" => ~IsAuthTicketCurrent(a, restore.ticket), WaitersFollow
  PROVE  /\ Rest(a)' /\ flights' \subseteq Flights
         /\ activities' \subseteq
              [kind : {"refresh", "signin", "password", "rotate"}, gen : Nat, rev : Nat]
<1>1. UNCHANGED <<store, queue, rotation, signin, change, live, minted, orphans>>
  OBVIOUS
<1>2. PICK g \in Flights : g = [ticket |-> k, pc |-> "reading", tok |-> None]
  BY TicketInForce, ZeroPairs DEF Flights
<1>3. /\ \/ FlightOf(k) # {} /\ flights' = flights /\ activities' = activities
         \/ /\ FlightOf(k) = {} /\ flights' = flights \cup {g}
            /\ activities' = activities \cup {RefreshActivity(k)}
  BY <1>2 DEF JoinFlight, RefreshActivity
<1>4. /\ g.ticket = k /\ g.pc = "reading" /\ g.tok = None
      /\ \A f \in flights : f.ticket = k => FlightOf(k) # {}
  BY <1>2 DEF FlightOf
<1>5. /\ Running(a) /\ a.phase # "signedOut" /\ a.close = "none" /\ k \in TicketType
      /\ restore.ticket.gen <= a.gen /\ restore.ticket.rev = 0
  BY TicketInForce DEF Running, Usable, Lifecycle, Rest, InForce, RestoreInForce
<1>6. flights' \subseteq Flights
  BY <1>3, Typed
<1>7. activities' \subseteq [kind : {"refresh", "signin", "password", "rotate"}, gen : Nat, rev : Nat]
  BY <1>3, <1>5, TicketFields DEF TypeOK, RefreshActivity
<1>8. FlightsInForce(a)'
  <2>1. \A f \in flights : /\ f.ticket.gen = Now(a).gen /\ f.ticket.rev <= Now(a).rev
                           /\ RefreshActivity(f.ticket) \in activities
                           /\ f.pc \in {"answered", "writing"} => f.tok # None
                           /\ f.pc = "writing" /\ Usable(a) /\ f.ticket # Now(a) => change.pc = "writing"
    BY DEF Rest, InForce, FlightsInForce, RefreshActivity
  <2>2. \A f, h \in flights' : f.ticket = h.ticket => f = h
    BY <1>3, <1>4 DEF Rest, InForce, FlightsInForce
  <2>3. k.gen = Now(a).gen /\ k.rev <= Now(a).rev
    BY <1>5, TicketFields
  <2>4. \A f \in flights' : /\ f.ticket.gen = Now(a).gen /\ f.ticket.rev <= Now(a).rev
                            /\ RefreshActivity(f.ticket) \in activities'
                            /\ f.pc \in {"answered", "writing"} => f.tok # None
                            /\ f.pc = "writing" /\ Usable(a) /\ f.ticket # Now(a) => change.pc = "writing"
    BY <1>3, <1>4, <2>1, <2>3
  <2> QED BY <1>1, <1>5, <2>2, <2>4 DEF FlightsInForce, RefreshActivity
<1>9. ChangeInForce(a)'
  <2>1. PasswordActivity' = PasswordActivity
    BY <1>1 DEF PasswordActivity
  <2> QED BY <1>1, <1>3, <2>1 DEF Rest, InForce, ChangeInForce
<1>10. SignInsInForce(a)'
  BY <1>1 DEF Rest, InForce, SignInsInForce, Pending
<1>11. RestoreInForce(a)'
  <2>1. \A c \in Callers : /\ waiter[c].ticket.gen <= a.gen
                           /\ waiter[c].pc = "sent" /\ IsAuthTicketCurrent(a, waiter[c].ticket) =>
                                a.active.tok # None
    BY DEF Rest, InForce, RestoreInForce
  <2>2. NoTicket.gen <= a.gen
    BY ZeroPairs DEF Auths
  <2>3. \A c \in Callers : /\ waiter'[c].ticket.gen <= a.gen
                           /\ waiter'[c].pc = "sent" /\ IsAuthTicketCurrent(a, waiter'[c].ticket) =>
                                a.active.tok # None
    BY <2>1, <2>2 DEF WaitersFollow
  <2> QED BY <1>5, <2>3 DEF RestoreInForce
<1>12. QueueInOrder(a)'
  <2>1. Writing' = Writing /\ SigningIn' = SigningIn /\ \A f : Writing = {f} => f \in flights'
    BY <1>1, <1>3, <1>4 DEF Writing, SigningIn
  <2> QED BY <1>1, <2>1 DEF Rest, QueueInOrder
<1>13. FlightOf(k) = {} => queue = <<>>
  <2> SUFFICES ASSUME FlightOf(k) = {} PROVE queue = <<>>
    OBVIOUS
  <2>1. Writing = {}
    BY <1>4 DEF Rest, InForce, FlightsInForce, Writing
  <2>2. SigningIn = {}
    BY DEF SigningIn
  <2> QED BY <1>5, <2>1, <2>2 DEF Rest, QueueInOrder
<1>14. StoreFollows(a)'
  BY <1>1, <1>3, <1>4, <1>5, <1>13 DEF Rest, StoreFollows
<1>15. TokensApart'
  <2>1. \A f \in flights' : f \in flights \/ f.tok = None
    BY <1>3, <1>4
  <2>2. None <= minted
    BY ZeroPairs DEF TypeOK, Tokens
  <2>3. /\ change.pc = "answered" => change.tok # None
        /\ \A s \in SignIns : signin[s].pc = "login" => signin[s].tok # None
    BY DEF Rest, InForce, ChangeInForce, SignInsInForce
  <2> QED BY <1>1, <2>1, <2>2, <2>3 DEF Rest, TokensApart
<1>16. LiveAccounted(a)'
  <2>1. Logins' = Logins
    BY <1>1 DEF Logins
  <2>2. \A f \in flights' : f \in flights \/ f.pc = "reading"
    BY <1>3, <1>4
  <2>3. \A f \in flights : f \in flights'
    BY <1>3
  <2> QED BY <1>1, <1>5, <2>1, <2>2, <2>3 DEF Rest, LiveAccounted
<1> QED BY <1>6, <1>7, <1>8, <1>9, <1>10, <1>11, <1>12, <1>14, <1>15, <1>16 DEF Rest, InForce

LEMMA UnauthorizedInv ==
  ASSUME SessionInv, NEW c \in Callers, Unauthorized(c)
  PROVE  SessionInv'
<1>1. TypeOK /\ Lifecycle(auth) /\ Rest(auth) /\ auth \in Auths /\ waiter \in [Callers -> Waiters]
  BY Typed DEF SessionInv
<1>2. /\ waiter[c].pc = "sent"
      /\ UNCHANGED <<auth, store, queue, rotation, restore, signin, change, live, minted, orphans,
                     restarts, failures>>
  BY DEF Unauthorized
<1>3. \A d \in Callers :
        /\ waiter[d].ticket.gen <= auth.gen
        /\ waiter[d].pc = "sent" /\ IsAuthTicketCurrent(auth, waiter[d].ticket)
             => auth.active.tok # None
  BY <1>1 DEF Rest, InForce, RestoreInForce
<1>4. ASSUME NEW w \in Waiters, waiter' = [waiter EXCEPT ![c] = w], w.pc # "sent",
             w.ticket \in {waiter[c].ticket, NoTicket}, UNCHANGED <<flights, activities>>
      PROVE  SessionInv'
  <2>1. NoTicket.gen <= auth.gen
    BY <1>1, ZeroPairs DEF Auths
  <2> QED BY <1>1, <1>2, <1>3, <1>4, <2>1, WaiterMoves
<1>5. CASE /\ ~IsAuthTicketCurrent(auth, waiter[c].ticket)
           /\ waiter' = [waiter EXCEPT ![c] = Resume(auth, @, None)]
           /\ UNCHANGED <<flights, activities>>
  BY <1>1, <1>4, <1>5, ResumeShape, ZeroPairs
<1>6. CASE /\ waiter' = [waiter EXCEPT ![c].pc = "rotating"]
           /\ UNCHANGED <<flights, activities>>
  <2>1. PICK w \in Waiters : w = [waiter[c] EXCEPT !.pc = "rotating"]
    BY <1>1 DEF Waiters
  <2>2. w.pc # "sent" /\ w.ticket = waiter[c].ticket /\ waiter' = [waiter EXCEPT ![c] = w]
    BY <1>1, <1>6, <2>1 DEF Waiters
  <2> QED BY <1>4, <1>6, <2>2
<1>7. CASE /\ IsAuthTicketCurrent(auth, waiter[c].ticket) /\ ~Rotating(rotation, waiter[c].ticket)
           /\ waiter' = [waiter EXCEPT ![c].pc = "joined"]
           /\ JoinFlight(waiter[c].ticket)
  <2>1. PICK w \in Waiters : w = [waiter[c] EXCEPT !.pc = "joined"]
    BY <1>1 DEF Waiters
  <2>2. w.pc # "sent" /\ w.ticket = waiter[c].ticket /\ waiter' = [waiter EXCEPT ![c] = w]
    BY <1>1, <1>7, <2>1 DEF Waiters
  <2>3. WaitersFollow
    BY <1>1, <2>2 DEF WaitersFollow
  <2>4. PICK k : k = waiter[c].ticket
    OBVIOUS
  <2>5. Usable(auth) /\ k = Now(auth) /\ auth.active.tok # None /\ auth.gen > 0 /\ k.gen = auth.gen
    BY <1>1, <1>2, <1>3, <1>7, <2>4, TicketInForce DEF Lifecycle
  <2>6. change.pc # "writing"
    BY <1>1, <1>7, <2>4, <2>5, ZeroPairs DEF Rest, InForce, ChangeInForce, Rotating
  <2>7. \A s \in SignIns : signin[s].pc # "write"
    BY <1>1, <2>5 DEF Rest, InForce, SignInsInForce
  <2>8. restore.pc # "start" /\ (restore.pc = "media" => ~IsAuthTicketCurrent(auth, restore.ticket))
    BY <1>1, <2>5 DEF Rest, InForce, RestoreInForce, StoreFollows, Usable
  <2>9. /\ Rest(auth)' /\ flights' \subseteq Flights
        /\ activities' \subseteq
             [kind : {"refresh", "signin", "password", "rotate"}, gen : Nat, rev : Nat]
    <3>1. PICK a : a = auth
      OBVIOUS
    <3>2. /\ Rest(a)' /\ flights' \subseteq Flights
          /\ activities' \subseteq
               [kind : {"refresh", "signin", "password", "rotate"}, gen : Nat, rev : Nat]
      BY <1>1, <1>2, <1>7, <2>3, <2>4, <2>5, <2>6, <2>7, <2>8, <3>1, JoinKeeps
    <3> QED BY <1>2, <3>1, <3>2
  <2>10. TypeOK'
    BY <1>1, <1>2, <2>3, <2>9 DEF TypeOK, WaitersFollow, Waiters, Flights
  <2> QED BY <1>1, <1>2, <2>9, <2>10 DEF SessionInv
<1> QED BY <1>5, <1>6, <1>7 DEF Unauthorized

-----------------------------------------------------------------------------
(* The cold-start restore, and the activation of a session.                *)

\* Before the restore and after a sign-out nobody is at work.
LEMMA NobodyAtWork ==
  ASSUME NEW a, a.phase = "signedOut", Lifecycle(a), Rest(a)
  PROVE  /\ flights = {} /\ change.pc = "idle" /\ queue = <<>> /\ rotation = NoTicket
         /\ \A s \in SignIns : signin[s].pc # "write"
<1>1. ~Running(a)
  BY DEF Running, Usable, Lifecycle
<1>2. flights = {} /\ change.pc = "idle" /\ rotation = NoTicket
  BY <1>1 DEF Rest, InForce, FlightsInForce, ChangeInForce
<1>3. queue = <<>> /\ \A s \in SignIns : signin[s].pc # "write"
  BY <1>1 DEF Rest, InForce, StoreFollows, SignInsInForce
<1> QED BY <1>2, <1>3

LEMMA BeginRestoreInv ==
  ASSUME SessionInv, BeginRestore
  PROVE  SessionInv'
<1>1. TypeOK /\ Lifecycle(auth) /\ Rest(auth) /\ auth \in Auths /\ waiter \in [Callers -> Waiters]
      /\ auth.gen \in Nat
  BY Typed DEF SessionInv, Auths
<1>2. /\ restore.pc = "start" /\ auth.phase = "signedOut"
      /\ restore' = [pc |-> "media", ticket |-> Ticket(auth')]
      /\ UNCHANGED <<activities, store, queue, flights, rotation, signin, change,
                     waiter, live, minted, orphans, restarts, failures>>
  BY DEF BeginRestore
<1>3. PICK a : a = BeginOpening(auth)
  OBVIOUS
<1>4. /\ auth' = a /\ a \in Auths /\ Lifecycle(a) /\ a.phase = "opening" /\ a.close = "none"
      /\ a.gen = auth.gen + 1 /\ a.rev = 0 /\ a.active = NoPair /\ a.latest = NoPair
  BY <1>1, <1>2, <1>3, OpenEffect DEF BeginRestore
<1>5. /\ flights = {} /\ change.pc = "idle" /\ queue = <<>> /\ rotation = NoTicket
      /\ \A s \in SignIns : ~Pending(s)
  BY <1>1, <1>2, NobodyAtWork DEF Rest, InForce, RestoreInForce
<1>6. /\ Usable(a) /\ Ticket(a) \in TicketType /\ Ticket(a).gen = a.gen /\ Ticket(a).rev = 0
      /\ restore'.pc = "media" /\ restore'.ticket = Ticket(a) /\ restore' \in Restores
      /\ a.active.tok = None /\ a.latest.tok = None /\ Held(a) = None
  BY <1>2, <1>4, TicketInForce, ZeroPairs DEF Usable, Restores
<1>7. FlightsInForce(a)' /\ ChangeInForce(a)'
  BY <1>2, <1>5 DEF FlightsInForce, ChangeInForce
<1>8. SignInsInForce(a)'
  BY <1>2, <1>5 DEF SignInsInForce, Pending
<1>9. RestoreInForce(a)'
  <2>1. \A c \in Callers : waiter[c].ticket.gen <= auth.gen /\ waiter[c].ticket.gen \in Nat
    BY <1>1, Typed, TicketFields DEF Rest, InForce, RestoreInForce
  <2>2. \A c \in Callers : waiter[c].ticket.gen <= a.gen /\ waiter[c].ticket.gen # a.gen
    BY <1>1, <1>4, <2>1
  <2>3. \A c \in Callers : ~IsAuthTicketCurrent(a, waiter[c].ticket)
    BY <1>6, <2>2 DEF IsAuthTicketCurrent
  <2>4. a.gen \in Nat
    BY <1>4 DEF Auths
  <2> QED BY <1>2, <1>5, <1>6, <2>2, <2>3, <2>4 DEF RestoreInForce
<1>10. QueueInOrder(a)'
  BY <1>1, <1>2, <1>5 DEF Rest, QueueInOrder, Writing, SigningIn, Pending
<1>11. StoreFollows(a)' /\ TokensApart'
  BY <1>1, <1>2, <1>4, <1>5, <1>6 DEF Rest, StoreFollows, TokensApart
<1>12. LiveAccounted(a)'
  BY <1>1, <1>2, <1>4, <1>5, <1>6 DEF Rest, LiveAccounted, Logins
<1>13. TypeOK'
  BY <1>1, <1>2, <1>4, <1>6 DEF TypeOK, Auths, Restores
<1> QED BY <1>4, <1>7, <1>8, <1>9, <1>10, <1>11, <1>12, <1>13 DEF SessionInv, Rest, InForce

LEMMA RestoreStops ==
  ASSUME NEW a, Rest(a), restore.pc # "start", restore' = [restore EXCEPT !.pc = "done"],
         restore \in Restores,
         UNCHANGED <<activities, store, queue, flights, rotation, signin, change, waiter,
                     live, minted, orphans>>
  PROVE  Rest(a)'
<1>1. /\ UNCHANGED <<activities, store, queue, flights, rotation, signin, change, waiter,
                     live, minted, orphans>>
      /\ restore'.pc = "done" /\ restore'.ticket = restore.ticket
  BY DEF Restores
<1>2. FlightsInForce(a)' /\ ChangeInForce(a)'
  BY <1>1 DEF Rest, InForce, FlightsInForce, ChangeInForce, PasswordActivity, RotateActivity
<1>3. SignInsInForce(a)' /\ RestoreInForce(a)'
  BY <1>1 DEF Rest, InForce, SignInsInForce, RestoreInForce, Pending
<1>4. QueueInOrder(a)'
  BY <1>1 DEF Rest, QueueInOrder, Writing, SigningIn
<1>5. StoreFollows(a)' /\ TokensApart'
  BY <1>1 DEF Rest, StoreFollows, TokensApart
<1>6. LiveAccounted(a)'
  BY <1>1 DEF Rest, LiveAccounted, Logins
<1> QED BY <1>2, <1>3, <1>4, <1>5, <1>6 DEF Rest, InForce

LEMMA ActivateKeeps ==
  ASSUME NEW a \in Auths, NEW b \in Auths, Lifecycle(a), Rest(a), a.phase = "opening",
         b.phase = "active", b.close = a.close, b.gen = a.gen, b.active = a.active,
         b.latest = a.latest, Now(b) = Now(a), Held(b) = Held(a)
  PROVE  Rest(b)
<1>1. /\ Usable(a) /\ Usable(b) /\ Running(a) /\ Running(b)
      /\ \A k : IsAuthTicketCurrent(b, k) <=> IsAuthTicketCurrent(a, k)
  BY TicketInForce DEF Usable, Running
<1>2. FlightsInForce(b) /\ ChangeInForce(b)
  BY <1>1 DEF Rest, InForce, FlightsInForce, ChangeInForce
<1>3. SignInsInForce(b)
  BY <1>1 DEF Rest, InForce, SignInsInForce
<1>4. RestoreInForce(b)
  BY <1>1 DEF Rest, InForce, RestoreInForce
<1>5. QueueInOrder(b)
  BY DEF Rest, QueueInOrder
<1>6. StoreFollows(b)
  BY <1>1 DEF Rest, StoreFollows
<1>7. LiveAccounted(b)
  BY <1>1 DEF Rest, LiveAccounted
<1> QED BY <1>2, <1>3, <1>4, <1>5, <1>6, <1>7 DEF Rest, InForce

\* What a sign-in or a restore ends with.
Concludes ==
  \/ auth' = auth \/ auth' = BeginClose(auth)
  \/ auth' = Activate(auth) /\ \E k : CanActivate(auth, k)

LEMMA Concluded ==
  ASSUME SessionInv, Concludes
  PROVE  \E a \in Auths : /\ Lifecycle(a) /\ Rest(a) /\ (auth' = a \/ auth' = BeginClose(a))
                          /\ auth' \in Auths
<1>1. TypeOK /\ Lifecycle(auth) /\ Rest(auth) /\ auth \in Auths
  BY Typed DEF SessionInv
<1>2. CASE auth' = auth \/ auth' = BeginClose(auth)
  BY <1>1, <1>2, CloseEffect DEF Closed
<1>3. CASE auth' = Activate(auth) /\ \E k : CanActivate(auth, k)
  <2>1. PICK k : CanActivate(auth, k)
    BY <1>3
  <2>2. PICK b : b = Activate(auth)
    OBVIOUS
  <2>3. /\ b \in Auths /\ Lifecycle(b) /\ b.phase = "active" /\ b.close = auth.close
        /\ b.gen = auth.gen /\ b.active = auth.active /\ b.latest = auth.latest
        /\ Now(b) = Now(auth) /\ Held(b) = Held(auth) /\ auth.phase = "opening"
    BY <1>1, <2>1, <2>2, ActivateEffect
  <2>4. Rest(b)
    BY <1>1, <2>3, ActivateKeeps
  <2> QED BY <1>3, <2>2, <2>3, <2>4
<1> QED BY <1>2, <1>3 DEF Concludes

LEMMA RestoreMediaInv ==
  ASSUME SessionInv, NEW open \in BOOLEAN, RestoreMedia(open)
  PROVE  SessionInv'
<1>1. TypeOK /\ Lifecycle(auth) /\ Rest(auth) /\ auth \in Auths /\ restore \in Restores
      /\ restore.ticket \in TicketType
  BY Typed DEF SessionInv
<1>2. /\ restore.pc = "media"
      /\ UNCHANGED <<store, queue, rotation, signin, change, waiter, live, minted,
                     orphans, restarts, failures>>
  BY DEF RestoreMedia
<1>3. CASE IsAuthTicketCurrent(auth, restore.ticket) /\ open
  <2>1. JoinFlight(restore.ticket) /\ restore' = [restore EXCEPT !.pc = "refresh"] /\ auth' = auth
    BY <1>3 DEF RestoreMedia
  <2>2. restore' \in Restores /\ restore'.pc = "refresh" /\ restore'.ticket = restore.ticket
    BY <1>1, <2>1 DEF Restores
  <2>3. Usable(auth) /\ restore.ticket = Now(auth)
    BY <1>1, <1>3, TicketInForce
  <2>4. change.pc # "writing"
    BY <1>1, <1>2, <1>3 DEF Rest, InForce, RestoreInForce
  <2>5. \A s \in SignIns : signin[s].pc # "write"
    <3>1. \A s \in SignIns : signin[s].pc = "write" =>
             restore.ticket.gen < signin[s].ticket.gen /\ signin[s].ticket = Now(auth)
      BY <1>1 DEF Rest, InForce, SignInsInForce
    <3>2. ~(restore.ticket.gen < restore.ticket.gen)
      BY <1>1, TicketFields
    <3> QED BY <2>3, <3>1, <3>2
  <2>6. WaitersFollow
    BY <1>1, <1>2, Typed DEF WaitersFollow
  <2>7. /\ Rest(auth)' /\ flights' \subseteq Flights
        /\ activities' \subseteq
             [kind : {"refresh", "signin", "password", "rotate"}, gen : Nat, rev : Nat]
    <3>1. PICK a : a = auth
      OBVIOUS
    <3>2. PICK k : k = restore.ticket
      OBVIOUS
    <3>3. /\ Rest(a)' /\ flights' \subseteq Flights
          /\ activities' \subseteq
               [kind : {"refresh", "signin", "password", "rotate"}, gen : Nat, rev : Nat]
      BY <1>1, <1>2, <2>1, <2>2, <2>3, <2>4, <2>5, <2>6, <3>1, <3>2, JoinKeeps
    <3> QED BY <2>1, <3>1, <3>3
  <2>8. TypeOK'
    BY <1>1, <1>2, <2>1, <2>2, <2>7 DEF TypeOK, Restores, Flights
  <2> QED BY <1>1, <2>1, <2>7, <2>8 DEF SessionInv
<1>4. CASE ~(IsAuthTicketCurrent(auth, restore.ticket) /\ open)
  <2>1. /\ auth' = IF IsAuthTicketCurrent(auth, restore.ticket) THEN BeginClose(auth) ELSE auth
        /\ restore' = [restore EXCEPT !.pc = "done"] /\ UNCHANGED <<flights, activities>>
    BY <1>4 DEF RestoreMedia
  <2>2. PICK a \in Auths : a = auth /\ Lifecycle(a) /\ Rest(a)
    BY <1>1
  <2>3. Rest(a)'
    BY <1>1, <1>2, <2>1, <2>2, RestoreStops
  <2>4. auth' \in Auths
    BY <1>1, <2>1, CloseEffect DEF Closed
  <2>5. TypeOK'
    BY <1>1, <1>2, <2>1, <2>4 DEF TypeOK, Restores, Auths
  <2> QED BY <2>1, <2>2, <2>3, <2>5, ByClose
<1> QED BY <1>3, <1>4

LEMMA RestoreMeInv ==
  ASSUME SessionInv, NEW ok \in BOOLEAN, RestoreMe(ok)
  PROVE  SessionInv'
<1>1. TypeOK /\ restore \in Restores
  BY Typed DEF SessionInv
<1>2. /\ restore.pc = "me" /\ restore' = [restore EXCEPT !.pc = "done"]
      /\ UNCHANGED <<activities, store, queue, flights, rotation, signin, change,
                     waiter, live, minted, orphans, restarts, failures>>
  BY DEF RestoreMe
<1>3. Concludes
  BY DEF RestoreMe, Concludes
<1>4. PICK a \in Auths : /\ Lifecycle(a) /\ Rest(a) /\ (auth' = a \/ auth' = BeginClose(a))
                         /\ auth' \in Auths
  BY <1>3, Concluded
<1>5. Rest(a)'
  BY <1>1, <1>2, <1>4, RestoreStops
<1>6. TypeOK'
  BY <1>1, <1>2, <1>4 DEF TypeOK, Restores, Auths
<1> QED BY <1>4, <1>5, <1>6, ByClose

-----------------------------------------------------------------------------
(* Sign-in and sign-out.                                                   *)

SignInType ==
  [pc : {"idle", "login", "write", "media", "done"}, ticket : TicketType, tok : Tokens]

LEMMA LoginInv ==
  ASSUME SessionInv, NEW s \in SignIns, Login(s)
  PROVE  SessionInv'
<1>1. TypeOK /\ Lifecycle(auth) /\ Rest(auth) /\ auth \in Auths
      /\ signin \in [SignIns -> SignInType] /\ minted \in Nat /\ live \subseteq Tokens
  BY Typed, SessionBounds DEF SessionInv, TypeOK, SignInType, Tokens
<1>2. /\ signin[s].pc = "idle" /\ auth.ui = "signedOut" /\ \A r \in SignIns : ~Pending(r)
      /\ UNCHANGED <<auth, activities, store, queue, flights, rotation, restore,
                     change, waiter, orphans, restarts, failures>>
  BY DEF Login
<1>3. PICK n \in Tokens : n = minted + 1 /\ n # None /\ n \in Nat /\ minted < n
  BY <1>1, SessionBounds DEF Login, Tokens, None
<1> DEFINE x == [pc |-> "login", ticket |-> NoTicket, tok |-> n]
<1>4. /\ x \in SignInType /\ x.pc = "login" /\ x.tok = n
      /\ minted' = n /\ live' = live \cup {n} /\ signin' = [signin EXCEPT ![s] = x]
  BY <1>3, ZeroPairs DEF Login, SignInType
<1> HIDE DEF x
<1>5. /\ signin' \in [SignIns -> SignInType] /\ signin'[s] = x
      /\ \A r \in SignIns : r # s => signin'[r] = signin[r]
      /\ \A r \in SignIns : signin[r].pc \in {"idle", "done"}
  BY <1>1, <1>2, <1>4 DEF Pending
<1>6. restore.pc # "start"
  BY <1>1, <1>2 DEF Rest, InForce, RestoreInForce
<1>7. FlightsInForce(auth)' /\ ChangeInForce(auth)'
  BY <1>1, <1>2 DEF Rest, InForce, FlightsInForce, ChangeInForce, PasswordActivity, RotateActivity
<1>8. SignInsInForce(auth)'
  BY <1>1, <1>2, <1>3, <1>4, <1>5 DEF Rest, InForce, SignInsInForce, Pending
<1>9. RestoreInForce(auth)'
  BY <1>1, <1>2, <1>6 DEF Rest, InForce, RestoreInForce
<1>10. QueueInOrder(auth)'
  <2>1. SigningIn = {} /\ SigningIn' = {} /\ Writing' = Writing
    BY <1>2, <1>4, <1>5 DEF SigningIn, Writing
  <2> QED BY <1>1, <1>2, <2>1 DEF Rest, QueueInOrder
<1>11. StoreFollows(auth)'
  BY <1>1, <1>2 DEF Rest, StoreFollows
<1>12. TokensApart'
  <2>1. /\ store <= minted /\ (\A t \in live : t <= minted) /\ (\A h \in flights : h.tok <= minted)
        /\ change.tok <= minted /\ \A r \in SignIns : signin[r].tok <= minted
        /\ change.pc = "answered" => change.tok # store /\ \A h \in flights : h.tok # change.tok
    BY <1>1 DEF Rest, TokensApart
  <2>2. /\ store \in Nat /\ live \subseteq Nat /\ change.tok \in Nat
        /\ (\A h \in flights : h.tok \in Nat) /\ \A r \in SignIns : signin[r].tok \in Nat
    BY <1>1, Typed DEF TypeOK, Tokens
  <2>3. \A y \in Nat : y <= minted => y <= n /\ y # n
    BY <1>1, <1>3
  <2>4. n <= n
    BY <1>3
  <2>5. /\ store <= n /\ (\A t \in live' : t <= n) /\ (\A h \in flights : h.tok <= n /\ h.tok # n)
        /\ change.tok <= n /\ change.tok # n /\ store # n
        /\ \A r \in SignIns : signin'[r].tok <= n
    BY <1>4, <1>5, <2>1, <2>2, <2>3, <2>4
  <2>6. \A r \in SignIns : signin'[r].pc = "login" => signin'[r].tok = n
    BY <1>4, <1>5
  <2> QED BY <1>2, <1>4, <2>1, <2>5, <2>6 DEF TokensApart
<1>13. LiveAccounted(auth)'
  <2>1. Logins' = Logins \cup {n}
    BY <1>2, <1>4, <1>5 DEF Logins
  <2>2. \A h \in flights : h.tok # n
    <3>1. \A h \in flights : h.tok <= minted /\ h.tok \in Nat
      BY <1>1, Typed DEF Rest, TokensApart, Tokens
    <3> QED BY <1>1, <1>3, <3>1
  <2> QED BY <1>1, <1>2, <1>4, <1>6, <2>1, <2>2 DEF Rest, LiveAccounted
<1>14. TypeOK'
  BY <1>1, <1>2, <1>3, <1>4, <1>5 DEF TypeOK, SignInType
<1> QED BY <1>1, <1>2, <1>7, <1>8, <1>9, <1>10, <1>11, <1>12, <1>13, <1>14 DEF SessionInv, Rest, InForce

LEMMA OpenSignInInv ==
  ASSUME SessionInv, NEW s \in SignIns, OpenSignIn(s)
  PROVE  SessionInv'
<1>1. TypeOK /\ Lifecycle(auth) /\ Rest(auth) /\ auth \in Auths /\ waiter \in [Callers -> Waiters]
      /\ auth.gen \in Nat /\ signin \in [SignIns -> SignInType] /\ signin[s].tok \in Tokens
  BY Typed DEF SessionInv, TypeOK, Auths, SignInType
<1>2. /\ signin[s].pc = "login" /\ auth.phase = "signedOut"
      /\ UNCHANGED <<store, flights, rotation, restore, change, waiter, live, minted,
                     orphans, restarts, failures>>
  BY DEF OpenSignIn
<1>3. PICK a : a = BeginOpening(auth)
  OBVIOUS
<1>4. /\ a \in Auths /\ Lifecycle(a) /\ a.phase = "opening" /\ a.close = "none"
      /\ a.gen = auth.gen + 1 /\ a.rev = 0 /\ a.active = NoPair /\ a.latest = NoPair
  BY <1>1, <1>2, <1>3, OpenEffect
<1>5. PICK t \in Tokens : t = signin[s].tok /\ t # None
  BY <1>1, <1>2 DEF Rest, InForce, SignInsInForce
<1>6. PICK b : b = RecordCandidate(a, Ticket(a), t)
  OBVIOUS
<1>7. Ticket(a) \in TicketType /\ Ticket(a) = Now(a) /\ Ticket(a).gen = a.gen /\ Ticket(a).rev = 0
  BY <1>4, TicketInForce DEF Usable
<1>8. /\ b \in Auths /\ Lifecycle(b) /\ Same(a, b) /\ Now(b) = Now(a)
      /\ Held(b) = t /\ b.latest.tok = t /\ b.active = a.active
  BY <1>4, <1>5, <1>6, <1>7, RecordEffect
<1>9. /\ b.phase = "opening" /\ b.close = "none" /\ b.gen = a.gen /\ Now(b) = Ticket(a)
      /\ b.active.tok = None /\ Usable(b) /\ Running(b) /\ a.gen \in Nat
  BY <1>1, <1>4, <1>7, <1>8, ZeroPairs DEF Same, Usable, Running
<1>10. /\ flights = {} /\ change.pc = "idle" /\ queue = <<>> /\ rotation = NoTicket
       /\ restore.pc # "start" /\ \A r \in SignIns : Pending(r) => r = s
  BY <1>1, <1>2, NobodyAtWork DEF Rest, InForce, RestoreInForce, SignInsInForce, Pending
<1>11. PICK x \in SignInType : x = [pc |-> "write", ticket |-> Ticket(a), tok |-> t]
  BY <1>5, <1>7 DEF SignInType
<1>12. x.pc = "write" /\ x.ticket = Ticket(a) /\ x.tok = t
  BY <1>11
<1>13. /\ auth' = b /\ signin' = [signin EXCEPT ![s] = x]
       /\ activities' = activities \cup {[kind |-> "signin", gen |-> a.gen, rev |-> 0]}
       /\ queue' = <<[kind |-> "signin", tok |-> t]>>
  <2>1. [signin[s] EXCEPT !.pc = "write", !.ticket = Ticket(a)] = x
    <3>1. \A y \in SignInType : \A k \in TicketType :
             [y EXCEPT !.pc = "write", !.ticket = k] = [pc |-> "write", ticket |-> k, tok |-> y.tok]
      <4> SUFFICES ASSUME NEW y \in SignInType, NEW k \in TicketType
                   PROVE  [y EXCEPT !.pc = "write", !.ticket = k]
                            = [pc |-> "write", ticket |-> k, tok |-> y.tok]
        OBVIOUS
      <4> DEFINE z == [y EXCEPT !.pc = "write", !.ticket = k]
      <4>1. z \in SignInType /\ z.pc = "write" /\ z.ticket = k /\ z.tok = y.tok
        BY DEF SignInType
      <4> HIDE DEF z
      <4>2. z = [pc |-> "write", ticket |-> k, tok |-> y.tok]
        BY <4>1 DEF SignInType
      <4> QED BY <4>2 DEF z
    <3>2. signin[s] \in SignInType
      BY <1>1
    <3> QED BY <1>5, <1>7, <1>11, <3>1, <3>2
  <2>2. signin' = [signin EXCEPT ![s] = [signin[s] EXCEPT !.pc = "write", !.ticket = Ticket(a)]]
    BY <1>1, <1>3 DEF OpenSignIn
  <2>3. queue' = Append(queue, [kind |-> "signin", tok |-> t])
    BY <1>5 DEF OpenSignIn
  <2>4. \A y : Append(<<>>, y) = <<y>>
    OBVIOUS
  <2>5. queue' = <<[kind |-> "signin", tok |-> t]>>
    BY <1>10, <2>3, <2>4
  <2>6. auth' = b /\ activities' = activities \cup {[kind |-> "signin", gen |-> a.gen, rev |-> 0]}
    BY <1>3, <1>5, <1>6 DEF OpenSignIn
  <2> QED BY <2>1, <2>2, <2>5, <2>6
<1>14. /\ signin' \in [SignIns -> SignInType] /\ signin'[s] = x
       /\ \A r \in SignIns : r # s => signin'[r] = signin[r] /\ signin[r].pc \in {"idle", "done"}
  BY <1>1, <1>10, <1>13 DEF Pending
<1>15. FlightsInForce(b)' /\ ChangeInForce(b)'
  BY <1>2, <1>10 DEF FlightsInForce, ChangeInForce
<1>16. restore.ticket.gen < a.gen /\ restore.ticket.gen <= auth.gen /\ restore.ticket.rev = 0
  <2>1. restore.ticket.gen <= auth.gen /\ restore.ticket.gen \in Nat /\ restore.ticket.rev = 0
    BY <1>1, Typed, TicketFields DEF Rest, InForce, RestoreInForce
  <2> QED BY <1>1, <1>4, <2>1
<1>17. SignInsInForce(b)'
  <2>1. a.gen <= b.gen
    BY <1>9
  <2>2. [kind |-> "signin", gen |-> x.ticket.gen, rev |-> 0] \in activities'
    BY <1>7, <1>12, <1>13
  <2> QED BY <1>2, <1>5, <1>7, <1>9, <1>10, <1>12, <1>14, <1>16, <2>1, <2>2 DEF SignInsInForce, Pending
<1>18. RestoreInForce(b)'
  <2>1. \A c \in Callers : waiter[c].ticket.gen <= auth.gen /\ waiter[c].ticket.gen \in Nat
    BY <1>1, Typed, TicketFields DEF Rest, InForce, RestoreInForce
  <2>2. \A c \in Callers : waiter[c].ticket.gen <= b.gen /\ waiter[c].ticket.gen # b.gen
    BY <1>1, <1>4, <1>9, <2>1
  <2>3. /\ \A c \in Callers : ~IsAuthTicketCurrent(b, waiter[c].ticket)
        /\ ~IsAuthTicketCurrent(b, restore.ticket)
    <3>1. \A k : IsAuthTicketCurrent(b, k) => k.gen = b.gen
      BY <1>7, <1>8, <1>9, TicketInForce
    <3>2. restore.ticket.gen # b.gen
      BY <1>1, <1>9, <1>16, Typed, TicketFields
    <3> QED BY <2>2, <3>1, <3>2
  <2>4. restore.ticket.gen <= b.gen
    BY <1>1, <1>9, <1>16, Typed, TicketFields
  <2> QED BY <1>2, <1>10, <1>16, <2>2, <2>3, <2>4 DEF RestoreInForce
<1>19. QueueInOrder(b)'
  <2>1. SigningIn' = {s} /\ Writing' = {}
    BY <1>2, <1>10, <1>12, <1>14 DEF SigningIn, Writing
  <2> QED BY <1>2, <1>10, <1>12, <1>13, <1>14, <2>1 DEF QueueInOrder
<1>20. StoreFollows(b)'
  <2>1. queue' # <<>> /\ queue'[Len(queue')].tok = t
    BY <1>13
  <2> QED BY <1>2, <1>5, <1>8, <1>9, <1>10, <2>1 DEF StoreFollows
<1>21. TokensApart'
  <2>1. \A r \in SignIns : signin'[r].tok = signin[r].tok /\ signin'[r].pc # "login"
    BY <1>5, <1>12, <1>14
  <2> QED BY <1>1, <1>2, <1>10, <2>1 DEF Rest, TokensApart
<1>22. LiveAccounted(b)'
  <2>1. Logins \subseteq {t}
    BY <1>5, <1>10, <1>14 DEF Logins
  <2>2. live \subseteq orphans \cup Logins
    BY <1>1, <1>2, <1>10 DEF Rest, LiveAccounted
  <2>3. live' \subseteq orphans' \cup Logins' \cup {t}
    BY <1>2, <2>1, <2>2
  <2> QED BY <1>2, <1>5, <1>8, <1>9, <1>10, <2>3 DEF LiveAccounted
<1>23. TypeOK'
  <2>1. queue' \in Seq([kind : {"refresh", "signin", "rotate", "clear"}, tok : Tokens])
    <3>1. [kind |-> "signin", tok |-> t] \in [kind : {"refresh", "signin", "rotate", "clear"}, tok : Tokens]
      OBVIOUS
    <3>2. \A S : \A y \in S : <<y>> \in Seq(S)
      OBVIOUS
    <3> QED BY <1>13, <3>1, <3>2
  <2>2. activities' \subseteq
          [kind : {"refresh", "signin", "password", "rotate"}, gen : Nat, rev : Nat]
    BY <1>1, <1>9, <1>13 DEF TypeOK
  <2> QED BY <1>1, <1>2, <1>8, <1>13, <1>14, <2>1, <2>2 DEF TypeOK, Auths, SignInType
<1> QED BY <1>8, <1>13, <1>15, <1>17, <1>18, <1>19, <1>20, <1>21, <1>22, <1>23 DEF SessionInv, Rest, InForce

LEMMA SignInWrittenInv ==
  ASSUME SessionInv, NEW s \in SignIns, NEW ok \in BOOLEAN, SignInWritten(s, ok)
  PROVE  SessionInv'
<1>1. TypeOK /\ Lifecycle(auth) /\ Rest(auth) /\ auth \in Auths
      /\ signin \in [SignIns -> SignInType] /\ signin[s].ticket \in TicketType /\ failures \in Nat
  BY Typed DEF SessionInv, TypeOK, SignInType
<1>2. PICK t \in Tokens : t = signin[s].tok
  BY <1>1 DEF SignInType
<1>3. PICK pc \in {"media", "done"} : pc = IF SignInGoesOn(s, ok) THEN "media" ELSE "done"
  OBVIOUS
<1>4. /\ signin[s].pc = "write" /\ queue' = Tail(queue) /\ Head(queue).kind = "signin"
      /\ activities' = activities \ {[kind |-> "signin", gen |-> signin[s].ticket.gen, rev |-> 0]}
      /\ auth' = IF ok THEN PublishPair(auth, signin[s].ticket, t) ELSE BeginClose(auth)
      /\ signin' = [signin EXCEPT ![s].pc = pc]
      /\ IF ok THEN store' = Head(queue).tok /\ failures' = failures
         ELSE store' = store /\ failures' = failures + 1
      /\ UNCHANGED <<flights, rotation, restore, change, waiter, live, minted, orphans, restarts>>
  BY <1>2, <1>3 DEF SignInWritten, Settled
<1>5. /\ t # None /\ Running(auth) /\ signin[s].ticket = Now(auth) /\ flights = {}
      /\ change.pc = "idle" /\ restore.ticket.gen < Now(auth).gen /\ Now(auth).gen <= auth.gen
      /\ \A r \in SignIns : Pending(r) => r = s
  BY <1>1, <1>2, <1>4 DEF Rest, InForce, SignInsInForce, Pending
<1>6. auth.phase # "signedOut" /\ auth.close # "clear" /\ restore.pc # "start"
  BY <1>1, <1>4, <1>5 DEF Running, Usable, Lifecycle, Rest, InForce, RestoreInForce, Pending
<1>7. queue = <<[kind |-> "signin", tok |-> t]>>
  <2>1. s \in SigningIn
    BY <1>4 DEF SigningIn
  <2>2. PICK r \in SignIns : SigningIn = {r} /\ queue = <<[kind |-> "signin", tok |-> signin[r].tok]>>
    BY <1>1, <2>1 DEF Rest, QueueInOrder
  <2> QED BY <1>2, <2>1, <2>2
<1>8. queue' = <<>> /\ (IF ok THEN store' = t ELSE store' = store)
  BY <1>4, <1>7
<1>9. /\ signin' \in [SignIns -> SignInType] /\ signin'[s].pc = pc /\ signin'[s].tok = t
      /\ signin'[s].ticket = signin[s].ticket
      /\ \A r \in SignIns : r # s => signin'[r] = signin[r] /\ signin[r].pc \in {"idle", "done"}
  BY <1>1, <1>2, <1>3, <1>4, <1>5 DEF Pending, SignInType
<1>10. Held(auth) = t \/ ~Usable(auth)
  <2>1. queue # <<>> /\ queue[Len(queue)].tok = t
    BY <1>7
  <2> QED BY <1>1, <2>1, TicketInForce DEF Rest, StoreFollows
<1>11. Logins' = Logins
  BY <1>3, <1>4, <1>9 DEF Logins
<1>12. \E a \in Auths :
         /\ auth' = a /\ Lifecycle(a) /\ Now(a) = Now(auth) /\ auth.gen <= a.gen
         /\ a.phase # "signedOut" /\ a.close # "clear"
         /\ Usable(a) => a.latest.tok = t /\ a.active.tok = t /\ store' = t
         /\ Held(a) # None => Held(a) = Held(auth)
  <2>1. CASE ok /\ Usable(auth)
    <3>1. PICK a : a = PublishPair(auth, signin[s].ticket, t)
      OBVIOUS
    <3>2. /\ a \in Auths /\ Lifecycle(a) /\ Same(auth, a) /\ Now(a) = Now(auth)
          /\ Held(a) = t /\ a.latest.tok = t /\ a.active.tok = t
      BY <1>1, <1>5, <2>1, <3>1, PublishEffect
    <3>3. a.gen <= a.gen
      BY <3>2 DEF Auths
    <3> QED BY <1>4, <1>6, <1>8, <1>10, <2>1, <3>1, <3>2, <3>3 DEF Same
  <2>2. CASE ok /\ ~Usable(auth)
    <3>1. auth' = auth
      BY <1>4, <2>2 DEF PublishPair, IsAuthTicketCurrent
    <3>2. auth.gen <= auth.gen
      BY <1>1 DEF Auths
    <3> QED BY <1>1, <1>6, <2>2, <3>1, <3>2
  <2>3. CASE ~ok
    <3>1. PICK a : a = BeginClose(auth)
      OBVIOUS
    <3>2. Closed(auth, a)
      BY <1>1, <3>1, CloseEffect
    <3>3. /\ a \in Auths /\ Lifecycle(a) /\ Now(a) = Now(auth) /\ auth.gen <= a.gen /\ ~Usable(a)
          /\ Held(a) = Held(auth)
      BY <3>2 DEF Closed
    <3>4. a.phase # "signedOut" /\ a.close # "clear"
      BY <1>6, <3>2 DEF Closed
    <3> QED BY <1>4, <2>3, <3>1, <3>3, <3>4
  <2> QED BY <2>1, <2>2, <2>3
<1>13. PICK a \in Auths :
         /\ auth' = a /\ Lifecycle(a) /\ Now(a) = Now(auth) /\ auth.gen <= a.gen
         /\ a.phase # "signedOut" /\ a.close # "clear"
         /\ Usable(a) => a.latest.tok = t /\ a.active.tok = t /\ store' = t
         /\ Held(a) # None => Held(a) = Held(auth)
  BY <1>12
<1>14. FlightsInForce(a)' /\ ChangeInForce(a)'
  BY <1>1, <1>4, <1>5 DEF Rest, InForce, FlightsInForce, ChangeInForce
<1>15. \A k \in TicketType : k.gen <= auth.gen => k.gen <= a.gen
  BY <1>1, <1>13, TicketFields DEF Auths
<1>16. SignInsInForce(a)'
  BY <1>1, <1>3, <1>4, <1>5, <1>9, <1>15 DEF SignInsInForce, Pending
<1>17. RestoreInForce(a)'
  <2>1. restore.ticket.gen <= a.gen /\ restore.ticket.rev = 0
    BY <1>1, <1>15, Typed DEF Rest, InForce, RestoreInForce
  <2>2. \A c \in Callers : waiter[c].ticket.gen <= a.gen
    BY <1>1, <1>15, Typed DEF Rest, InForce, RestoreInForce
  <2>3. ~IsAuthTicketCurrent(a, restore.ticket)
    <3>1. restore.ticket # Now(a)
      BY <1>1, <1>5, <1>13, Typed, TicketFields, TicketInForce
    <3> QED BY <3>1, TicketInForce
  <2>4. \A c \in Callers : IsAuthTicketCurrent(a, waiter[c].ticket) => a.active.tok # None
    BY <1>5, <1>13 DEF IsAuthTicketCurrent
  <2> QED BY <1>4, <1>6, <2>1, <2>2, <2>3, <2>4 DEF RestoreInForce
<1>18. QueueInOrder(a)'
  <2>1. SigningIn' = {} /\ Writing' = {}
    BY <1>3, <1>4, <1>5, <1>9 DEF SigningIn, Writing
  <2> QED BY <1>4, <1>5, <1>8, <2>1 DEF QueueInOrder
<1>19. StoreFollows(a)'
  BY <1>4, <1>5, <1>8, <1>13 DEF StoreFollows
<1>20. TokensApart'
  <2>1. t <= minted /\ store' \in {store, t}
    BY <1>1, <1>2, <1>8 DEF Rest, TokensApart
  <2>2. \A r \in SignIns : signin'[r].tok = signin[r].tok /\ signin'[r].pc # "login"
    BY <1>2, <1>3, <1>9
  <2> QED BY <1>1, <1>4, <1>5, <2>1, <2>2 DEF Rest, TokensApart
<1>21. LiveAccounted(a)'
  <2>1. Held(auth) # None => live \subseteq orphans \cup Logins \cup {Held(auth)}
    BY <1>1, <1>5, <1>6 DEF Rest, LiveAccounted
  <2>2. Held(a) = None => ~Usable(a)
    BY <1>5, <1>13, TicketInForce
  <2> QED BY <1>4, <1>5, <1>6, <1>11, <1>13, <2>1, <2>2 DEF LiveAccounted
<1>22. TypeOK'
  <2>1. queue' \in Seq([kind : {"refresh", "signin", "rotate", "clear"}, tok : Tokens])
    <3>1. \A S : <<>> \in Seq(S)
      OBVIOUS
    <3> QED BY <1>8, <3>1
  <2>3. store' \in Tokens /\ failures' \in Nat
    BY <1>1, <1>4, <1>8 DEF TypeOK
  <2>2. activities' \subseteq
          [kind : {"refresh", "signin", "password", "rotate"}, gen : Nat, rev : Nat]
    BY <1>1, <1>4 DEF TypeOK
  <2> QED BY <1>1, <1>4, <1>9, <1>13, <2>1, <2>2, <2>3 DEF TypeOK, Auths, SignInType
<1> QED BY <1>13, <1>14, <1>16, <1>17, <1>18, <1>19, <1>20, <1>21, <1>22 DEF SessionInv, Rest, InForce

LEMMA SignInMediaInv ==
  ASSUME SessionInv, NEW s \in SignIns, NEW open \in BOOLEAN, SignInMedia(s, open)
  PROVE  SessionInv'
<1>1. TypeOK /\ signin \in [SignIns -> SignInType]
  BY DEF SessionInv, TypeOK, SignInType
<1>2. /\ signin[s].pc = "media" /\ signin' = [signin EXCEPT ![s].pc = "done"]
      /\ UNCHANGED <<activities, store, queue, flights, rotation, restore, change,
                     waiter, live, minted, orphans, restarts, failures>>
  BY DEF SignInMedia
<1>3. Concludes
  BY DEF SignInMedia, Concludes
<1>4. PICK a \in Auths : /\ Lifecycle(a) /\ Rest(a) /\ (auth' = a \/ auth' = BeginClose(a))
                         /\ auth' \in Auths
  BY <1>3, Concluded
<1>5. /\ signin' \in [SignIns -> SignInType] /\ signin'[s].pc = "done"
      /\ signin'[s].tok = signin[s].tok
      /\ \A r \in SignIns : r # s => signin'[r] = signin[r]
  BY <1>1, <1>2 DEF SignInType
<1>6. FlightsInForce(a)' /\ ChangeInForce(a)'
  BY <1>2, <1>4 DEF Rest, InForce, FlightsInForce, ChangeInForce, PasswordActivity, RotateActivity
<1>7. SignInsInForce(a)'
  BY <1>2, <1>4, <1>5 DEF Rest, InForce, SignInsInForce, Pending
<1>8. RestoreInForce(a)'
  BY <1>2, <1>4, <1>5 DEF Rest, InForce, RestoreInForce, Pending
<1>9. QueueInOrder(a)'
  <2>1. SigningIn' = SigningIn /\ Writing' = Writing
    BY <1>2, <1>5 DEF SigningIn, Writing
  <2>2. s \notin SigningIn
    BY <1>2 DEF SigningIn
  <2> QED BY <1>2, <1>4, <1>5, <2>1, <2>2 DEF Rest, QueueInOrder
<1>10. StoreFollows(a)' /\ TokensApart'
  BY <1>2, <1>4, <1>5 DEF Rest, StoreFollows, TokensApart
<1>11. LiveAccounted(a)'
  <2>1. Logins' = Logins
    BY <1>2, <1>5 DEF Logins
  <2> QED BY <1>2, <1>4, <2>1 DEF Rest, LiveAccounted
<1>12. TypeOK'
  BY <1>1, <1>2, <1>4, <1>5 DEF TypeOK, Auths, SignInType
<1> QED BY <1>4, <1>6, <1>7, <1>8, <1>9, <1>10, <1>11, <1>12, ByClose DEF Rest, InForce

LEMMA SignOutInv ==
  ASSUME SessionInv, SignOut
  PROVE  SessionInv'
<1>1. TypeOK
  BY DEF SessionInv
<1>2. /\ UNCHANGED <<activities, store, queue, flights, rotation, restore, signin, change,
                     waiter, live, minted, orphans, restarts, failures>>
      /\ UNCHANGED restVars /\ Concludes
  BY DEF SignOut, Concludes, restVars
<1>3. PICK a \in Auths : /\ Lifecycle(a) /\ Rest(a) /\ (auth' = a \/ auth' = BeginClose(a))
                         /\ auth' \in Auths
  BY <1>2, Concluded
<1>4. Rest(a)'
  BY <1>2, <1>3, Unmoved
<1>5. TypeOK'
  BY <1>1, <1>2, <1>3 DEF TypeOK, Auths
<1> QED BY <1>3, <1>4, <1>5, ByClose

-----------------------------------------------------------------------------
(* Password change.                                                        *)

ChangeType == [pc : {"idle", "sent", "answered", "writing"}, source : TicketType, tok : Tokens]

\* Who changes a password has signed in, and nobody else is about to.
LEMMA WhileChanging ==
  ASSUME NEW a, Lifecycle(a), Rest(a), change.pc # "idle"
  PROVE  /\ Running(a) /\ a.phase # "signedOut" /\ a.close # "clear" /\ restore.pc # "start"
         /\ \A s \in SignIns : signin[s].pc # "write"
         /\ ~(restore.pc = "media" /\ IsAuthTicketCurrent(a, restore.ticket))
         /\ Usable(a) => a.phase = "active" /\ a.active.tok # None
BY DEF Rest, InForce, ChangeInForce, Running, Usable, Lifecycle, SignInsInForce, RestoreInForce

LEMMA ChangePasswordInv ==
  ASSUME SessionInv, ChangePassword
  PROVE  SessionInv'
<1>1. TypeOK /\ Lifecycle(auth) /\ Rest(auth) /\ auth \in Auths /\ change \in ChangeType
  BY Typed DEF SessionInv, TypeOK, ChangeType
<1>2. /\ change.pc = "idle" /\ auth.phase = "active"
      /\ change' = [pc |-> "sent", source |-> Ticket(auth), tok |-> None]
      /\ activities' = activities \cup {[kind |-> "password", gen |-> auth.gen, rev |-> auth.rev]}
      /\ UNCHANGED <<auth, store, queue, flights, rotation, restore, signin, waiter,
                     live, minted, orphans, restarts, failures>>
  BY DEF ChangePassword
<1>3. /\ Usable(auth) /\ Running(auth) /\ auth.active.tok # None /\ Ticket(auth) = Now(auth)
      /\ Ticket(auth) \in TicketType /\ Ticket(auth).gen = auth.gen /\ Ticket(auth).rev = auth.rev
      /\ auth.close = "none" /\ restore.pc # "start"
  BY <1>1, <1>2, TicketInForce DEF Usable, Running, Lifecycle, Rest, InForce, RestoreInForce
<1>4. /\ change'.pc = "sent" /\ change'.source = Now(auth) /\ change'.tok = None
      /\ change' \in ChangeType /\ rotation = NoTicket
  BY <1>1, <1>2, <1>3, ZeroPairs DEF ChangeType, Rest, InForce, ChangeInForce
<1>5. FlightsInForce(auth)'
  BY <1>1, <1>2 DEF Rest, InForce, FlightsInForce
<1>6. ChangeInForce(auth)'
  <2>1. PasswordActivity' \in activities'
    BY <1>2, <1>3, <1>4 DEF PasswordActivity
  <2> QED BY <1>2, <1>3, <1>4, <2>1 DEF ChangeInForce
<1>7. SignInsInForce(auth)'
  BY <1>1, <1>2, <1>3 DEF Rest, InForce, SignInsInForce, Pending
<1>8. RestoreInForce(auth)'
  <2>1. ~(restore.pc = "media" /\ IsAuthTicketCurrent(auth, restore.ticket))
    BY <1>1, <1>3 DEF Rest, InForce, RestoreInForce, StoreFollows
  <2> QED BY <1>1, <1>2, <1>3, <2>1 DEF Rest, InForce, RestoreInForce
<1>9. QueueInOrder(auth)'
  <2>1. Writing' = Writing /\ SigningIn' = SigningIn
    BY <1>2 DEF Writing, SigningIn
  <2> QED BY <1>1, <1>2, <1>4, <2>1 DEF Rest, QueueInOrder
<1>10. StoreFollows(auth)'
  BY <1>1, <1>2 DEF Rest, StoreFollows
<1>11. TokensApart'
  <2>1. \A s \in SignIns : signin[s].pc = "login" => signin[s].tok # None
    BY <1>1 DEF Rest, InForce, SignInsInForce
  <2>2. None <= minted
    BY <1>1, ZeroPairs DEF TypeOK, Tokens
  <2> QED BY <1>1, <1>2, <1>4, <2>1, <2>2 DEF Rest, TokensApart
<1>12. LiveAccounted(auth)'
  <2>1. Logins' = Logins
    BY <1>2 DEF Logins
  <2> QED BY <1>1, <1>2, <1>4, <2>1 DEF Rest, LiveAccounted
<1>13. TypeOK'
  <2>1. activities' \subseteq
          [kind : {"refresh", "signin", "password", "rotate"}, gen : Nat, rev : Nat]
    BY <1>1, <1>2 DEF TypeOK
  <2> QED BY <1>1, <1>2, <1>4, <2>1 DEF TypeOK, ChangeType
<1> QED BY <1>1, <1>2, <1>5, <1>6, <1>7, <1>8, <1>9, <1>10, <1>11, <1>12, <1>13
        DEF SessionInv, Rest, InForce

LEMMA ServerChangeInv ==
  ASSUME SessionInv, ServerChange
  PROVE  SessionInv'
<1>1. TypeOK /\ Lifecycle(auth) /\ Rest(auth) /\ auth \in Auths /\ change \in ChangeType
      /\ minted \in Nat /\ live \subseteq Tokens
  BY Typed, SessionBounds DEF SessionInv, TypeOK, ChangeType, Tokens
<1>2. PICK n \in Tokens : n = minted + 1 /\ n # None /\ n \in Nat /\ minted < n
  BY <1>1, SessionBounds DEF ServerChange, Tokens, None
<1>3. /\ change.pc = "sent" /\ minted' = n /\ live' = {n}
      /\ change' = [change EXCEPT !.pc = "answered", !.tok = n]
      /\ UNCHANGED <<auth, activities, store, queue, flights, rotation, restore,
                     signin, waiter, orphans, restarts, failures>>
  BY <1>2 DEF ServerChange
<1>4. /\ change'.pc = "answered" /\ change'.source = change.source /\ change'.tok = n
      /\ change' \in ChangeType
  BY <1>1, <1>2, <1>3 DEF ChangeType
<1>5. /\ Running(auth) /\ auth.phase # "signedOut" /\ auth.close # "clear" /\ restore.pc # "start"
      /\ \A s \in SignIns : signin[s].pc # "write"
      /\ ~(restore.pc = "media" /\ IsAuthTicketCurrent(auth, restore.ticket))
  BY <1>1, <1>3, WhileChanging
<1>6. FlightsInForce(auth)'
  BY <1>1, <1>3 DEF Rest, InForce, FlightsInForce
<1>7. ChangeInForce(auth)'
  <2>1. PasswordActivity' = PasswordActivity
    BY <1>3, <1>4 DEF PasswordActivity
  <2> QED BY <1>1, <1>2, <1>3, <1>4, <2>1 DEF Rest, InForce, ChangeInForce
<1>8. SignInsInForce(auth)' /\ RestoreInForce(auth)'
  BY <1>1, <1>3, <1>5 DEF Rest, InForce, SignInsInForce, RestoreInForce, Pending
<1>9. QueueInOrder(auth)'
  <2>1. Writing' = Writing /\ SigningIn' = SigningIn
    BY <1>3 DEF Writing, SigningIn
  <2> QED BY <1>1, <1>3, <1>4, <2>1 DEF Rest, QueueInOrder
<1>10. StoreFollows(auth)'
  BY <1>1, <1>3 DEF Rest, StoreFollows
<1>11. TokensApart'
  <2>1. /\ store <= minted /\ (\A h \in flights : h.tok <= minted)
        /\ \A r \in SignIns : signin[r].tok <= minted
    BY <1>1 DEF Rest, TokensApart
  <2>2. /\ store \in Nat /\ (\A h \in flights : h.tok \in Nat) /\ \A r \in SignIns : signin[r].tok \in Nat
    BY <1>1, Typed DEF TypeOK, Tokens
  <2>3. \A y \in Nat : y <= minted => y <= n /\ y # n
    BY <1>1, <1>2
  <2>4. n <= n
    BY <1>2
  <2>5. /\ store <= n /\ store # n /\ (\A h \in flights : h.tok <= n /\ h.tok # n)
        /\ \A r \in SignIns : signin[r].tok <= n /\ signin[r].tok # n
    BY <2>1, <2>2, <2>3
  <2> QED BY <1>1, <1>3, <1>4, <2>4, <2>5 DEF Rest, TokensApart
<1>12. LiveAccounted(auth)'
  <2>1. \A h \in flights : h.tok # n
    <3>1. \A h \in flights : h.tok <= minted /\ h.tok \in Nat
      BY <1>1, Typed DEF Rest, TokensApart, Tokens
    <3> QED BY <1>1, <1>2, <3>1
  <2> QED BY <1>3, <1>4, <1>5, <2>1 DEF LiveAccounted
<1>13. TypeOK'
  BY <1>1, <1>2, <1>3, <1>4 DEF TypeOK, ChangeType
<1> QED BY <1>1, <1>3, <1>6, <1>7, <1>8, <1>9, <1>10, <1>11, <1>12, <1>13
        DEF SessionInv, Rest, InForce

LEMMA ChangeFailedInv ==
  ASSUME SessionInv, ChangeFailed
  PROVE  SessionInv'
<1>1. TypeOK /\ Lifecycle(auth) /\ Rest(auth) /\ auth \in Auths /\ change \in ChangeType
  BY Typed DEF SessionInv, TypeOK, ChangeType
<1>2. /\ change.pc \in {"sent", "answered"} /\ change' = NoChange
      /\ orphans' = IF change.pc = "answered" THEN orphans \cup {change.tok} ELSE orphans
      /\ activities' = activities \ {PasswordActivity}
      /\ UNCHANGED <<auth, store, queue, flights, rotation, restore, signin, waiter,
                     live, minted, restarts, failures>>
  BY DEF ChangeFailed
<1>3. /\ change'.pc = "idle" /\ change'.tok = None /\ change' \in ChangeType /\ change.pc # "writing"
      /\ rotation = NoTicket
  BY <1>1, <1>2, ZeroPairs DEF NoChange, ChangeType, Rest, InForce, ChangeInForce
<1>4. /\ Running(auth) /\ auth.phase # "signedOut" /\ auth.close # "clear" /\ restore.pc # "start"
      /\ \A s \in SignIns : signin[s].pc # "write"
  BY <1>1, <1>2, WhileChanging
<1>5. \A k : [kind |-> "refresh", gen |-> k.gen, rev |-> k.rev] # PasswordActivity
  <2>1. PasswordActivity.kind = "password"
    BY DEF PasswordActivity
  <2> QED BY <2>1
<1>6. FlightsInForce(auth)'
  BY <1>1, <1>2, <1>3, <1>5 DEF Rest, InForce, FlightsInForce
<1>7. ChangeInForce(auth)'
  BY <1>2, <1>3 DEF ChangeInForce
<1>8. SignInsInForce(auth)' /\ RestoreInForce(auth)'
  BY <1>1, <1>2, <1>3, <1>4 DEF Rest, InForce, SignInsInForce, RestoreInForce, Pending
<1>9. QueueInOrder(auth)'
  <2>1. Writing' = Writing /\ SigningIn' = SigningIn
    BY <1>2 DEF Writing, SigningIn
  <2> QED BY <1>1, <1>2, <1>3, <2>1 DEF Rest, QueueInOrder
<1>10. StoreFollows(auth)'
  BY <1>1, <1>2 DEF Rest, StoreFollows
<1>11. TokensApart'
  <2>1. \A s \in SignIns : signin[s].pc = "login" => signin[s].tok # None
    BY <1>1 DEF Rest, InForce, SignInsInForce
  <2>2. None <= minted
    BY <1>1, ZeroPairs DEF TypeOK, Tokens
  <2> QED BY <1>1, <1>2, <1>3, <2>1, <2>2 DEF Rest, TokensApart
<1>12. LiveAccounted(auth)'
  <2>1. Logins' = Logins
    BY <1>2 DEF Logins
  <2>2. CASE change.pc = "answered"
    <3>1. live \subseteq orphans' \cup Logins
      BY <1>1, <1>2, <2>2 DEF Rest, LiveAccounted
    <3>2. \A f \in flights : f.ticket # Now(auth) /\ f.pc \in {"sent", "answered"} => f.tok \notin live
      BY <1>1 DEF Rest, LiveAccounted
    <3> QED BY <1>2, <1>3, <1>4, <2>1, <3>1, <3>2 DEF LiveAccounted
  <2>3. CASE change.pc = "sent"
    BY <1>1, <1>2, <1>3, <2>1, <2>3 DEF Rest, LiveAccounted
  <2> QED BY <1>2, <2>2, <2>3
<1>13. TypeOK'
  BY <1>1, <1>2, <1>3 DEF TypeOK, ChangeType
<1> QED BY <1>1, <1>2, <1>6, <1>7, <1>8, <1>9, <1>10, <1>11, <1>12, <1>13
        DEF SessionInv, Rest, InForce

LEMMA TwoWrites ==
  ASSUME NEW x, NEW y
  PROVE  Append(<<x>>, y) = <<x, y>>
<1> DEFINE s == Append(<<x>>, y)
           t == <<x, y>>
<1>1. <<x>> \in Seq({x}) /\ Len(<<x>>) = 1 /\ <<x>>[1] = x
  OBVIOUS
<1>2. s \in Seq({x, y}) /\ Len(s) = 2 /\ s[1] = x /\ s[2] = y
  BY <1>1
<1>3. t \in Seq({x, y}) /\ Len(t) = 2 /\ t[1] = x /\ t[2] = y
  OBVIOUS
<1> HIDE DEF s, t
<1>4. \A i \in 1..Len(s) : s[i] = t[i]
  BY <1>2, <1>3
<1>5. s = t
  BY <1>2, <1>3, <1>4, SeqEqual
<1> QED BY <1>5 DEF s, t

\* The rotated pair is recorded under a ticket of its own, and a close that
\* overtook the answer gets it too.
LEMMA ChangeAnsweredInv ==
  ASSUME SessionInv, ChangeAnswered
  PROVE  SessionInv'
<1>1. TypeOK /\ Lifecycle(auth) /\ Rest(auth) /\ auth \in Auths /\ change \in ChangeType
      /\ change.source \in TicketType /\ change.tok \in Tokens
  BY Typed DEF SessionInv, TypeOK, ChangeType
<1>2. /\ change.pc = "answered"
      /\ UNCHANGED <<store, flights, restore, signin, waiter, live, minted, orphans, restarts, failures>>
  BY DEF ChangeAnswered
<1>3. /\ Running(auth) /\ auth.phase # "signedOut" /\ auth.close # "clear" /\ restore.pc # "start"
      /\ \A s \in SignIns : signin[s].pc # "write"
      /\ Usable(auth) => auth.active.tok # None
      /\ change.source = Now(auth) /\ change.tok # None /\ rotation = NoTicket
  BY <1>1, <1>2, WhileChanging DEF Rest, InForce, ChangeInForce
<1>4. PICK t \in Tokens : t = change.tok /\ t # None
  BY <1>1, <1>3
<1>5. PICK k \in TicketType : k = change.source
  BY <1>1
<1>6. PICK a : a = RecordCandidate(auth, k, t)
  OBVIOUS
<1>7. PICK b : b = BeginRotation(a, k, t)
  OBVIOUS
<1>8. /\ a \in Auths /\ Lifecycle(a) /\ Same(auth, a) /\ Now(a) = Now(auth) /\ a.active = auth.active
  BY <1>1, <1>3, <1>4, <1>5, <1>6, RecordEffect
<1>9. a.phase # "signedOut" /\ k = Now(a)
  BY <1>3, <1>5, <1>8 DEF Same
<1>10. /\ b \in Auths /\ Lifecycle(b) /\ Same(a, b) /\ Now(b) = [gen |-> k.gen, rev |-> a.rev + 1]
       /\ Held(b) = t /\ b.latest.tok = t /\ b.active = a.active
  BY <1>4, <1>7, <1>8, <1>9, RotateEffect
<1>11. /\ auth' = b /\ b.phase = auth.phase /\ b.close = auth.close /\ b.gen = auth.gen
       /\ b.active = auth.active /\ (Usable(b) <=> Usable(auth)) /\ Running(b)
  BY <1>3, <1>4, <1>5, <1>6, <1>7, <1>8, <1>10 DEF ChangeAnswered, Same, Usable, Running
<1>12. /\ Now(b).gen = Now(auth).gen /\ Now(b).rev = Now(auth).rev + 1 /\ Now(b) \in TicketType
       /\ Now(auth).rev \in Nat /\ Now(b).rev \in Nat /\ Now(auth).gen \in Nat
  <2>1. Now(auth).rev = a.rev
    <3>1. Now(a).rev = a.rev
      BY <1>8 DEF Now, Ticket, Lifecycle
    <3> QED BY <1>8, <3>1
  <2> QED BY <1>1, <1>8, <1>9, <1>10, <2>1, TicketInForce, TicketFields
<1>13. \A f \in flights : /\ f.ticket.gen = Now(b).gen /\ f.ticket.rev <= Now(b).rev
                          /\ f.ticket # Now(b)
  <2>1. \A f \in flights : /\ f.ticket.gen = Now(auth).gen /\ f.ticket.rev <= Now(auth).rev
                           /\ f.ticket.rev \in Nat
    BY <1>1, Typed, TicketFields DEF Rest, InForce, FlightsInForce
  <2>2. \A n \in Nat : n <= Now(auth).rev => n <= Now(b).rev /\ n # Now(b).rev
    BY <1>12
  <2> QED BY <1>12, <2>1, <2>2
<1>14. /\ change'.pc \in {"writing", "idle"} /\ change' \in ChangeType
       /\ \A x \in activities : x.kind # "password" => x \in activities'
       /\ activities' \subseteq
            [kind : {"refresh", "signin", "password", "rotate"}, gen : Nat, rev : Nat]
       /\ \/ /\ Usable(b) /\ change'.pc = "writing" /\ change'.tok = t /\ rotation' = Now(b)
             /\ queue' = Append(queue, [kind |-> "rotate", tok |-> t])
             /\ RotateActivity(Now(b)) \in activities'
          \/ ~Usable(b) /\ change'.pc = "idle" /\ change'.tok = None /\ UNCHANGED <<rotation, queue>>
  <2>1. SourceTicketIsCurrent(a, k) /\ (IsAuthTicketCurrent(b, Now(b)) <=> Usable(b))
    BY <1>8, <1>9, <1>10, TicketInForce
  <2>2. CASE Usable(b)
    <3>1. /\ rotation' = Now(b)
          /\ queue' = Append(queue, [kind |-> "rotate", tok |-> t])
          /\ activities' = activities \cup {RotateActivity(Now(b))}
          /\ change' = [change EXCEPT !.pc = "writing"]
      BY <1>4, <1>5, <1>6, <1>7, <1>10, <2>1, <2>2 DEF ChangeAnswered
    <3>2. change' \in ChangeType /\ change'.pc = "writing" /\ change'.tok = t
      BY <1>1, <1>4, <3>1 DEF ChangeType
    <3>3. activities' \subseteq
            [kind : {"refresh", "signin", "password", "rotate"}, gen : Nat, rev : Nat]
      BY <1>1, <1>12, <3>1, TicketFields DEF TypeOK, RotateActivity
    <3> QED BY <2>2, <3>1, <3>2, <3>3
  <2>3. CASE ~Usable(b)
    <3>1. /\ activities' = activities \ {PasswordActivity} /\ change' = NoChange
          /\ UNCHANGED <<rotation, queue>>
      BY <1>4, <1>5, <1>6, <1>7, <1>10, <2>1, <2>3 DEF ChangeAnswered
    <3>2. change' \in ChangeType /\ change'.pc = "idle" /\ change'.tok = None
      BY <3>1, ZeroPairs DEF ChangeType, NoChange
    <3>3. PasswordActivity.kind = "password"
      BY DEF PasswordActivity
    <3>4. activities' \subseteq
            [kind : {"refresh", "signin", "password", "rotate"}, gen : Nat, rev : Nat]
      BY <1>1, <3>1 DEF TypeOK
    <3> QED BY <2>3, <3>1, <3>2, <3>3, <3>4
  <2> QED BY <2>2, <2>3
<1>15. FlightsInForce(b)'
  <2>1. /\ \A f, g \in flights : f.ticket = g.ticket => f = g
        /\ \A f \in flights : /\ [kind |-> "refresh", gen |-> f.ticket.gen, rev |-> f.ticket.rev]
                                   \in activities'
                              /\ f.pc \in {"answered", "writing"} => f.tok # None
    BY <1>1, <1>14 DEF Rest, InForce, FlightsInForce
  <2> QED BY <1>2, <1>11, <1>13, <1>14, <2>1 DEF FlightsInForce
<1>16. ChangeInForce(b)'
  <2>1. Usable(b) => b.phase = "active"
    BY <1>1, <1>2, <1>11 DEF Rest, InForce, ChangeInForce
  <2>2. change'.pc = "writing" => RotateActivity(rotation)' \in activities'
    BY <1>14 DEF RotateActivity
  <2> QED BY <1>2, <1>3, <1>4, <1>11, <1>13, <1>14, <2>1, <2>2 DEF ChangeInForce
<1>17. SignInsInForce(b)'
  BY <1>1, <1>2, <1>3, <1>11 DEF Rest, InForce, SignInsInForce, Pending
<1>18. RestoreInForce(b)'
  <2>1. restore.ticket # Now(b)
    <3>1. restore.ticket.rev = 0 /\ Now(b).rev # 0
      BY <1>1, <1>12 DEF Rest, InForce, RestoreInForce
    <3> QED BY <3>1
  <2>2. ~IsAuthTicketCurrent(b, restore.ticket)
    BY <1>10, <2>1, TicketInForce
  <2>3. \A c \in Callers : IsAuthTicketCurrent(b, waiter[c].ticket) => b.active.tok # None
    BY <1>3, <1>11 DEF IsAuthTicketCurrent
  <2> QED BY <1>1, <1>2, <1>3, <1>11, <2>2, <2>3 DEF Rest, InForce, RestoreInForce
<1>19. QueueInOrder(b)'
  <2>1. Writing' = Writing /\ SigningIn' = SigningIn /\ SigningIn = {}
    BY <1>2, <1>3 DEF Writing, SigningIn
  <2>2. \/ queue = <<>> /\ Writing = {}
        \/ \E f \in flights : Writing = {f} /\ queue = <<[kind |-> "refresh", tok |-> f.tok]>>
    BY <1>1, <1>2, <1>3, <2>1 DEF Rest, QueueInOrder
  <2>3. CASE Usable(b)
    <3>1. queue' = Append(queue, [kind |-> "rotate", tok |-> t]) /\ change'.pc = "writing" /\ change'.tok = t
      BY <1>14, <2>3
    <3>2. \A y : Append(<<>>, y) = <<y>>
      OBVIOUS
    <3>5. \A x, y : Append(<<x>>, y) = <<x, y>>
      BY TwoWrites
    <3>3. CASE queue = <<>> /\ Writing = {}
      BY <1>2, <2>1, <3>1, <3>2, <3>3 DEF QueueInOrder
    <3>4. CASE \E f \in flights : Writing = {f} /\ queue = <<[kind |-> "refresh", tok |-> f.tok]>>
      BY <1>2, <2>1, <3>1, <3>4, <3>5 DEF QueueInOrder
    <3> QED BY <2>2, <3>3, <3>4
  <2>4. CASE ~Usable(b)
    BY <1>2, <1>14, <2>1, <2>2, <2>4 DEF QueueInOrder
  <2> QED BY <2>3, <2>4
<1>20. StoreFollows(b)'
  <2>1. CASE Usable(b)
    <3>1. queue' # <<>> /\ queue'[Len(queue')].tok = t
      <4>1. queue \in Seq([kind : {"refresh", "signin", "rotate", "clear"}, tok : Tokens])
        BY <1>1 DEF TypeOK
      <4>2. \A S : \A q \in Seq(S) : \A y : Len(Append(q, y)) = Len(q) + 1 /\ Append(q, y) # <<>>
                                             /\ Append(q, y)[Len(Append(q, y))] = y
        OBVIOUS
      <4>3. [kind |-> "rotate", tok |-> t].tok = t
        OBVIOUS
      <4> QED BY <1>14, <2>1, <4>1, <4>2, <4>3
    <3> QED BY <1>2, <1>4, <1>10, <1>13, <2>1, <3>1 DEF StoreFollows, Usable
  <2>2. CASE ~Usable(b)
    BY <1>3, <1>11, <2>2 DEF StoreFollows
  <2> QED BY <2>1, <2>2
<1>21. TokensApart'
  <2>1. change'.pc # "answered" /\ change'.tok <= minted
    <3>1. None <= minted /\ t <= minted
      BY <1>1, <1>4, ZeroPairs DEF TypeOK, Tokens, Rest, TokensApart
    <3> QED BY <1>14, <3>1
  <2>2. change'.tok \in {t, None}
    BY <1>14
  <2>3. \A s \in SignIns : signin[s].pc = "login" => signin[s].tok # None /\ signin[s].tok # t
    BY <1>1, <1>4 DEF Rest, InForce, SignInsInForce, TokensApart
  <2> QED BY <1>1, <1>2, <2>1, <2>2, <2>3 DEF Rest, TokensApart
<1>22. LiveAccounted(b)'
  <2>1. live \subseteq {t} \cup Logins /\ Logins' = Logins
    BY <1>1, <1>2, <1>4 DEF Rest, LiveAccounted, Logins
  <2>2. \A f \in flights : f.tok \notin live
    BY <1>1, <1>2, <1>4, <2>1 DEF Rest, TokensApart, Logins
  <2> QED BY <1>2, <1>3, <1>4, <1>10, <1>11, <1>13, <1>14, <2>1, <2>2 DEF LiveAccounted
<1>23. TypeOK'
  <2>1. queue' \in Seq([kind : {"refresh", "signin", "rotate", "clear"}, tok : Tokens])
    <3>1. queue \in Seq([kind : {"refresh", "signin", "rotate", "clear"}, tok : Tokens])
      BY <1>1 DEF TypeOK
    <3>2. [kind |-> "rotate", tok |-> t] \in [kind : {"refresh", "signin", "rotate", "clear"}, tok : Tokens]
      OBVIOUS
    <3>3. \A S : \A q \in Seq(S) : \A y \in S : Append(q, y) \in Seq(S)
      OBVIOUS
    <3>4. queue' = queue \/ queue' = Append(queue, [kind |-> "rotate", tok |-> t])
      BY <1>14
    <3> QED BY <3>1, <3>2, <3>3, <3>4
  <2>2. rotation' \in TicketType
    BY <1>1, <1>12, <1>14, Typed
  <2> QED BY <1>1, <1>2, <1>10, <1>11, <1>14, <2>1, <2>2 DEF TypeOK, Auths, ChangeType
<1> QED BY <1>10, <1>11, <1>15, <1>16, <1>17, <1>18, <1>19, <1>20, <1>21, <1>22, <1>23
        DEF SessionInv, Rest, InForce

\* The rotation is over: whoever waited for it goes on, or the session closes.
LEMMA RotationWrittenInv ==
  ASSUME SessionInv, NEW ok \in BOOLEAN, RotationWritten(ok)
  PROVE  SessionInv'
<1>1. TypeOK /\ Lifecycle(auth) /\ Rest(auth) /\ auth \in Auths /\ rotation \in TicketType
      /\ waiter \in [Callers -> Waiters] /\ failures \in Nat
  BY Typed DEF SessionInv, TypeOK
<1>2. PICK t \in Tokens : t = change.tok
  BY <1>1, Typed
<1>3. PICK a : a = IF ok THEN PublishPair(auth, rotation, t) ELSE auth
  OBVIOUS
<1>4. PICK b : b = IF ok THEN a ELSE BeginClose(a)
  OBVIOUS
<1> DEFINE ended == {f \in flights : f.pc = "rotating" /\ f.ticket.gen = rotation.gen}
<1>5. /\ change.pc = "writing" /\ auth' = b /\ flights' = flights \ ended
      /\ activities' = (activities \ {PasswordActivity, RotateActivity(rotation)}) \
           {[kind |-> "refresh", gen |-> f.ticket.gen, rev |-> f.ticket.rev] : f \in ended}
      /\ rotation' = NoTicket /\ change' = NoChange
      /\ queue' = Tail(queue) /\ Head(queue).kind = "rotate"
      /\ IF ok THEN store' = Head(queue).tok /\ failures' = failures
         ELSE store' = store /\ failures' = failures + 1
      /\ UNCHANGED <<restore, signin, live, minted, orphans, restarts>>
  BY <1>2, <1>3, <1>4 DEF RotationWritten, Settled
<1>6. /\ Running(auth) /\ auth.phase # "signedOut" /\ auth.close # "clear" /\ restore.pc # "start"
      /\ \A s \in SignIns : signin[s].pc # "write"
      /\ ~(restore.pc = "media" /\ IsAuthTicketCurrent(auth, restore.ticket))
      /\ Usable(auth) => auth.phase = "active" /\ auth.active.tok # None
      /\ rotation = Now(auth) /\ t # None /\ \A f \in flights : f.ticket # Now(auth)
      /\ OnlyFlights(auth)
  BY <1>1, <1>2, <1>5, WhileChanging DEF Rest, InForce, ChangeInForce, OnlyFlights
<1>7. queue = <<[kind |-> "rotate", tok |-> t]>> /\ Writing = {}
  <2>1. \A x, y : Head(<<x, y>>) = x
    OBVIOUS
  <2>2. \/ /\ Writing = {} /\ queue = <<[kind |-> "rotate", tok |-> t]>>
        \/ \E f \in flights : queue = <<[kind |-> "refresh", tok |-> f.tok],
                                        [kind |-> "rotate", tok |-> t]>>
    BY <1>1, <1>2, <1>5 DEF Rest, QueueInOrder
  <2> QED BY <1>5, <2>1, <2>2
<1>8. queue' = <<>> /\ (IF ok THEN store' = t ELSE store' = store)
  BY <1>5, <1>7
<1>9. Usable(auth) => Held(auth) = t
  <2>1. queue # <<>> /\ queue[Len(queue)].tok = t
    BY <1>7
  <2> QED BY <1>1, <2>1, TicketInForce DEF Rest, StoreFollows
<1>10. /\ a \in Auths /\ b \in Auths /\ Lifecycle(b) /\ InForce(b) /\ Now(b) = Now(auth)
       /\ b.phase # "signedOut" /\ b.close # "clear" /\ Running(b)
       /\ Usable(b) => b.latest.tok = t /\ b.active.tok = t /\ store' = t
       /\ (Usable(b) => Usable(auth) /\ Held(b) = t) /\ (Held(b) = Held(auth) \/ Usable(b))
       /\ b.active.tok # None \/ ~Usable(b)
  <2>1. CASE ok /\ Usable(auth)
    <3>1. /\ a \in Auths /\ Lifecycle(a) /\ Same(auth, a) /\ Now(a) = Now(auth)
          /\ Held(a) = t /\ a.latest.tok = t /\ a.active.tok = t
      BY <1>1, <1>3, <1>6, <2>1, PublishEffect
    <3>2. InForce(a) /\ b = a
      BY <1>1, <1>4, <1>6, <2>1, <3>1, SameForce DEF Rest
    <3> QED BY <1>6, <1>8, <2>1, <3>1, <3>2 DEF Same, Running, Usable
  <2>2. CASE ok /\ ~Usable(auth)
    <3>1. a = auth /\ b = auth
      BY <1>3, <1>4, <2>2 DEF PublishPair, IsAuthTicketCurrent
    <3> QED BY <1>1, <1>6, <2>2, <3>1 DEF Rest
  <2>3. CASE ~ok
    <3>1. a = auth /\ b = BeginClose(auth)
      BY <1>3, <1>4, <2>3
    <3>2. Closed(auth, b)
      BY <1>1, <3>1, CloseEffect
    <3>3. InForce(b)
      BY <1>1, <3>1, CloseKeeps DEF ClosesWell, Rest
    <3>4. Running(b) /\ b.close # "clear" /\ b.phase # "signedOut"
      BY <1>6, <3>2 DEF Closed, Running, Usable
    <3> QED BY <1>1, <3>1, <3>2, <3>3, <3>4 DEF Closed
  <2> QED BY <2>1, <2>2, <2>3
<1>11. flights' \subseteq flights /\ \A f \in flights' : f \notin ended
  BY <1>5
<1>12. WaitersFollow
  <2>1. \A c \in Callers :
          \/ waiter'[c] = waiter[c]
          \/ \E v \in Tokens : waiter'[c] = Resume(a, waiter[c], v)
    <3>1. waiter' = [c \in Callers |->
            IF \/ waiter[c].pc = "rotating" /\ waiter[c].ticket.gen = rotation.gen
               \/ waiter[c].pc = "joined" /\ \E f \in ended : f.ticket = waiter[c].ticket
            THEN Resume(a, waiter[c], IF ok THEN AccessNow(a, waiter[c].ticket) ELSE None)
            ELSE waiter[c]]
      BY <1>2, <1>3 DEF RotationWritten
    <3>2. \A c \in Callers :
            (IF ok THEN AccessNow(a, waiter[c].ticket) ELSE None) \in Tokens
      BY <1>10, AccessTyped, ZeroPairs
    <3> HIDE DEF ended
    <3> QED BY <3>1, <3>2
  <2>2. waiter' = [c \in Callers |-> waiter'[c]]
    BY <1>2, <1>3 DEF RotationWritten
  <2>3. \A c \in Callers : /\ waiter'[c] \in Waiters
                           /\ waiter'[c].ticket \in {waiter[c].ticket, NoTicket}
                           /\ waiter'[c].pc = "sent" => waiter'[c] = waiter[c]
    BY <1>1, <2>1, ResumeShape
  <2> QED BY <2>2, <2>3 DEF WaitersFollow
<1>13. FlightsInForce(b)'
  <2>1. \A f, g \in flights' : f.ticket = g.ticket => f = g
    BY <1>10, <1>11 DEF InForce, FlightsInForce
  <2>2. \A f \in flights' : /\ f.ticket.gen = Now(b).gen /\ f.ticket.rev <= Now(b).rev
                            /\ f.pc \in {"answered", "writing"} => f.tok # None
                            /\ f.pc # "writing"
    BY <1>7, <1>10, <1>11 DEF InForce, FlightsInForce, Writing
  <2>3. \A f \in flights' : [kind |-> "refresh", gen |-> f.ticket.gen, rev |-> f.ticket.rev]
                              \in activities'
    <3> SUFFICES ASSUME NEW f \in flights'
                 PROVE  RefreshActivity(f.ticket) \in activities'
      BY DEF RefreshActivity
    <3>1. RefreshActivity(f.ticket) \in activities
      BY <1>10, <1>11 DEF InForce, FlightsInForce, RefreshActivity
    <3>2. \A g \in ended : RefreshActivity(g.ticket) # RefreshActivity(f.ticket)
      <4>1. \A g \in ended : g.ticket # f.ticket
        BY <1>10, <1>11 DEF InForce, FlightsInForce
      <4> QED BY <1>1, <1>11, <4>1, Typed, TicketFields DEF RefreshActivity
    <3>3. /\ RefreshActivity(f.ticket).kind = "refresh" /\ PasswordActivity.kind = "password"
          /\ RotateActivity(rotation).kind = "rotate"
      BY DEF RefreshActivity, PasswordActivity, RotateActivity
    <3>4. activities' = (activities \ {PasswordActivity, RotateActivity(rotation)}) \
                          {RefreshActivity(g.ticket) : g \in ended}
      BY <1>5 DEF RefreshActivity
    <3> HIDE DEF ended
    <3> QED BY <3>1, <3>2, <3>3, <3>4
  <2> QED BY <1>10, <2>1, <2>2, <2>3 DEF FlightsInForce
<1> HIDE DEF ended
<1>14. change'.pc = "idle" /\ change'.tok = None /\ change' \in ChangeType
  BY <1>5, ZeroPairs DEF NoChange, ChangeType
<1>15. ChangeInForce(b)'
  BY <1>5, <1>14 DEF ChangeInForce
<1>16. SignInsInForce(b)'
  BY <1>5, <1>6, <1>10 DEF InForce, SignInsInForce, Pending
<1>17. RestoreInForce(b)'
  <2>1. ~(restore.pc = "media" /\ IsAuthTicketCurrent(b, restore.ticket))
    BY <1>1, <1>6, <1>10, TicketInForce
  <2>2. /\ restore.ticket.gen <= b.gen /\ restore.ticket.rev = 0
        /\ \A c \in Callers : waiter[c].ticket.gen <= b.gen
    BY <1>10 DEF InForce, RestoreInForce
  <2>3. NoTicket.gen <= b.gen
    BY <1>10, ZeroPairs DEF Auths
  <2>4. \A c \in Callers :
          /\ waiter'[c].ticket.gen <= b.gen
          /\ IsAuthTicketCurrent(b, waiter'[c].ticket) => b.active.tok # None
    BY <1>10, <1>12, <2>2, <2>3 DEF WaitersFollow, IsAuthTicketCurrent
  <2> QED BY <1>5, <1>6, <2>1, <2>2, <2>4 DEF RestoreInForce
<1>18. QueueInOrder(b)'
  <2>1. Writing' = {} /\ SigningIn' = {}
    BY <1>5, <1>6, <1>7, <1>11 DEF Writing, SigningIn
  <2> QED BY <1>8, <1>14, <2>1 DEF QueueInOrder
<1>19. StoreFollows(b)'
  BY <1>6, <1>8, <1>10, <1>11 DEF StoreFollows
<1>20. TokensApart'
  <2>1. store' \in {store, t} /\ t <= minted /\ None <= minted
    BY <1>1, <1>2, <1>8, ZeroPairs DEF Rest, TokensApart, TypeOK, Tokens
  <2>2. \A s \in SignIns : signin[s].pc = "login" => signin[s].tok # None /\ signin[s].tok # t
    BY <1>1, <1>2 DEF Rest, InForce, SignInsInForce, TokensApart
  <2> QED BY <1>1, <1>5, <1>11, <1>14, <2>1, <2>2 DEF Rest, TokensApart
<1>21. LiveAccounted(b)'
  <2>1. Logins' = Logins
    BY <1>5 DEF Logins
  <2>2. Held(auth) # None => live \subseteq orphans \cup Logins \cup {Held(auth)}
    BY <1>1, <1>5, <1>6 DEF Rest, LiveAccounted
  <2>3. Held(b) # None => live \subseteq orphans \cup Logins \cup {Held(b)}
    <3>1. CASE Usable(b)
      BY <1>6, <1>9, <1>10, <2>2, <3>1
    <3>2. CASE ~Usable(b)
      BY <1>10, <2>2, <3>2
    <3> QED BY <3>1, <3>2
  <2>4. Usable(b) => Held(b) # None
    BY <1>6, <1>10
  <2>5. \A f \in flights' : f.ticket # Now(b) /\ (f.pc \in {"sent", "answered"} => f.tok \notin live)
    BY <1>1, <1>6, <1>10, <1>11 DEF Rest, LiveAccounted
  <2> QED BY <1>5, <1>6, <1>10, <1>14, <2>1, <2>3, <2>4, <2>5 DEF LiveAccounted
<1>22. TypeOK'
  <2>1. queue' \in Seq([kind : {"refresh", "signin", "rotate", "clear"}, tok : Tokens])
    <3>1. \A S : <<>> \in Seq(S)
      OBVIOUS
    <3> QED BY <1>8, <3>1
  <2>2. store' \in Tokens /\ failures' \in Nat
    BY <1>1, <1>5, <1>8 DEF TypeOK
  <2>3. activities' \subseteq activities /\ flights' \subseteq Flights /\ rotation' \in TicketType
    BY <1>1, <1>5, <1>11, Typed, ZeroPairs
  <2> QED BY <1>1, <1>5, <1>10, <1>12, <1>14, <2>1, <2>2, <2>3
          DEF TypeOK, Auths, ChangeType, WaitersFollow, Waiters, Flights
<1> QED BY <1>5, <1>10, <1>13, <1>15, <1>16, <1>17, <1>18, <1>19, <1>20, <1>21, <1>22
        DEF SessionInv, Rest, InForce

-----------------------------------------------------------------------------
(* The close workflow.                                                     *)

Drained ==
  /\ flights = {} /\ change.pc = "idle" /\ rotation = NoTicket
  /\ \A s \in SignIns : signin[s].pc # "write"

\* Once the activities are over nobody can be at work for the session.
LEMMA DrainedClose ==
  ASSUME TypeOK, NEW a, Rest(a), \/ ~Running(a)
                                 \/ \A x \in activities : x.gen # Now(a).gen
  PROVE  Drained
<1>1. CASE ~Running(a)
  BY <1>1 DEF Rest, InForce, FlightsInForce, ChangeInForce, SignInsInForce, Drained
<1>2. CASE \A x \in activities : x.gen # Now(a).gen
  <2>1. flights = {}
    <3>1. \A f \in flights : /\ [kind |-> "refresh", gen |-> f.ticket.gen, rev |-> f.ticket.rev]
                                  \in activities
                             /\ f.ticket.gen = Now(a).gen
      BY DEF Rest, InForce, FlightsInForce
    <3>2. \A f \in flights : [kind |-> "refresh", gen |-> f.ticket.gen, rev |-> f.ticket.rev].gen
                               = Now(a).gen
      BY <3>1
    <3> QED BY <1>2, <3>1, <3>2
  <2>2. change.pc \notin {"sent", "answered", "writing"} /\ rotation = NoTicket
    <3>1. PasswordActivity.gen = change.source.gen /\ RotateActivity(rotation).gen = rotation.gen
      BY DEF PasswordActivity, RotateActivity
    <3> QED BY <1>2, <3>1 DEF Rest, InForce, ChangeInForce
  <2>3. change.pc \in {"idle", "sent", "answered", "writing"}
    BY DEF TypeOK
  <2>4. ASSUME NEW s \in SignIns, signin[s].pc = "write" PROVE FALSE
    <3>1. /\ [kind |-> "signin", gen |-> signin[s].ticket.gen, rev |-> 0] \in activities
          /\ signin[s].ticket = Now(a)
      BY <2>4 DEF Rest, InForce, SignInsInForce
    <3>2. [kind |-> "signin", gen |-> signin[s].ticket.gen, rev |-> 0].gen = Now(a).gen
      BY <3>1
    <3> QED BY <1>2, <3>1, <3>2
  <2> QED BY <2>1, <2>2, <2>3, <2>4 DEF Drained
<1> QED BY <1>1, <1>2

LEMMA CloseGoesOn ==
  ASSUME SessionInv, Drained, auth.phase = "closing", auth.close # "clear",
         NEW x \in {"network", "revoke", "clear"}, auth' = [auth EXCEPT !.close = x],
         UNCHANGED Unchanged_ButAuth, live' \subseteq live, orphans \subseteq orphans',
         orphans' \subseteq Tokens, x = "clear" => live' \subseteq orphans' \cup Logins
  PROVE  SessionInv'
<1>1. TypeOK /\ Lifecycle(auth) /\ Rest(auth) /\ auth \in Auths
  BY Typed DEF SessionInv
<1>2. UNCHANGED <<activities, store, queue, flights, rotation, restore, signin, change, waiter,
                  minted, restarts, failures>>
  BY DEF Unchanged_ButAuth
<1>3. PICK a : a = [auth EXCEPT !.close = x]
  OBVIOUS
<1>4. /\ a \in Auths /\ a.phase = "closing" /\ a.close = x /\ a.gen = auth.gen /\ a.rev = auth.rev
      /\ a.source = auth.source /\ a.handoff = auth.handoff /\ a.latest = auth.latest
      /\ a.seq = auth.seq /\ a.ui = auth.ui /\ a.active = auth.active /\ auth' = a
  BY <1>1, <1>3 DEF Auths
<1>5. Lifecycle(a)
  BY <1>1, <1>4 DEF Lifecycle, Usable
<1>6. Now(a) = Now(auth) /\ Held(a) = Held(auth) /\ ~Usable(a)
  BY <1>4 DEF Now, Held, Usable
<1>7. FlightsInForce(a)' /\ ChangeInForce(a)'
  BY <1>2 DEF Drained, FlightsInForce, ChangeInForce
<1>8. SignInsInForce(a)'
  BY <1>1, <1>2, <1>4 DEF Drained, Rest, InForce, SignInsInForce, Pending
<1>9. RestoreInForce(a)'
  BY <1>1, <1>2, <1>4, <1>6 DEF Rest, InForce, RestoreInForce, IsAuthTicketCurrent
<1>10. QueueInOrder(a)'
  <2>1. Writing' = {} /\ SigningIn' = {} /\ Writing = {} /\ SigningIn = {}
    BY <1>2 DEF Drained, Writing, SigningIn
  <2>2. queue = <<>>
    BY <1>1, <2>1 DEF Drained, Rest, QueueInOrder
  <2> QED BY <1>2, <2>1, <2>2 DEF Drained, QueueInOrder
<1>11. StoreFollows(a)' /\ TokensApart'
  BY <1>1, <1>2, <1>4, <1>6 DEF Drained, Rest, StoreFollows, TokensApart
<1>12. LiveAccounted(a)'
  <2>1. Logins' = Logins
    BY <1>2 DEF Logins
  <2>2. Held(auth) # None => live \subseteq orphans \cup Logins \cup {Held(auth)}
    BY <1>1 DEF Drained, Rest, LiveAccounted
  <2>3. restore.pc # "start"
    BY <1>1 DEF Rest, InForce, RestoreInForce
  <2> QED BY <1>2, <1>4, <1>6, <2>1, <2>2, <2>3 DEF Drained, LiveAccounted
<1>13. TypeOK'
  BY <1>1, <1>2, <1>4 DEF TypeOK, Auths
<1> QED BY <1>4, <1>5, <1>7, <1>8, <1>9, <1>10, <1>11, <1>12, <1>13 DEF SessionInv, Rest, InForce

LEMMA Closes ==
  ASSUME SessionInv, auth.close # "none"
  PROVE  /\ TypeOK /\ auth \in Auths /\ Lifecycle(auth) /\ Rest(auth)
         /\ auth.phase = "closing" /\ ~Usable(auth) /\ orphans \subseteq Tokens
         /\ auth.close # "drain" => Drained
<1>1. TypeOK /\ Lifecycle(auth) /\ Rest(auth) /\ auth \in Auths /\ orphans \subseteq Tokens
  BY Typed DEF SessionInv, TypeOK
<1>2. auth.phase = "closing" /\ ~Usable(auth)
  BY <1>1 DEF Lifecycle, Usable, Auths
<1>3. auth.close # "drain" => Drained
  BY <1>1, <1>2, DrainedClose DEF Running
<1> QED BY <1>1, <1>2, <1>3

LEMMA CloseDrainedInv ==
  ASSUME SessionInv, CloseDrained
  PROVE  SessionInv'
<1>1. auth.close = "drain" /\ \A x \in activities : x.gen # auth.source.gen
  BY DEF CloseDrained
<1>2. auth.phase = "closing" /\ Rest(auth) /\ TypeOK /\ orphans \subseteq Tokens
  BY <1>1, Closes
<1>3. Drained
  BY <1>1, <1>2, DrainedClose DEF Now
<1> QED BY <1>1, <1>2, <1>3, CloseGoesOn DEF CloseDrained

LEMMA NetworkIdleInv ==
  ASSUME SessionInv, NetworkIdle
  PROVE  SessionInv'
<1>1. auth.close = "network"
  BY DEF NetworkIdle
<1>2. auth.phase = "closing" /\ Drained /\ orphans \subseteq Tokens
  BY <1>1, Closes
<1> QED BY <1>1, <1>2, CloseGoesOn DEF NetworkIdle

\* The pair that was handed over is the last the server accepts.
LEMMA RevokeInv ==
  ASSUME SessionInv, Revoke
  PROVE  SessionInv'
<1>1. auth.close = "revoke" /\ auth' = [auth EXCEPT !.close = "clear"] /\ UNCHANGED Unchanged_ButAuth
  BY DEF Revoke
<1>2. /\ auth.phase = "closing" /\ Drained /\ Rest(auth) /\ orphans \subseteq Tokens
      /\ live \subseteq Tokens
  BY <1>1, Closes DEF TypeOK
<1>3. Held(auth) = auth.handoff.tok
  BY <1>2 DEF Held
<1>4. auth.handoff.tok # None => live \subseteq orphans \cup Logins \cup {auth.handoff.tok}
  BY <1>1, <1>2, <1>3 DEF Drained, Rest, LiveAccounted
<1>5. CASE /\ auth.handoff.tok # None /\ auth.handoff.gen = auth.source.gen
           /\ live' = live \ {auth.handoff.tok}
           /\ UNCHANGED orphans
  BY <1>1, <1>2, <1>4, <1>5, CloseGoesOn
<1>6. CASE orphans' = orphans \cup Abandoned /\ UNCHANGED live
  <2>1. Abandoned = live \ Logins
    BY DEF Abandoned, Logins
  <2> QED BY <1>1, <1>2, <1>6, <2>1, CloseGoesOn
<1> QED BY <1>5, <1>6 DEF Revoke

\* Only the queue changes: the deletion enters it or fails.
LEMMA DeletionMoves ==
  ASSUME SessionInv, auth.close = "clear", queue' \in {<<>>, <<[kind |-> "clear", tok |-> None]>>},
         UNCHANGED <<auth, activities, store, flights, rotation, restore, signin, change, waiter,
                     live, minted, orphans, restarts>>,
         failures' \in Nat
  PROVE  SessionInv'
<1>1. /\ auth.phase = "closing" /\ Drained /\ Rest(auth) /\ TypeOK /\ Lifecycle(auth) /\ ~Usable(auth)
  BY Closes
<1>2. UNCHANGED <<auth, activities, store, flights, rotation, restore, signin, change, waiter,
                  live, minted, orphans, restarts>>
  OBVIOUS
<1>3. FlightsInForce(auth)' /\ ChangeInForce(auth)'
  BY <1>1, <1>2 DEF Drained, FlightsInForce, ChangeInForce
<1>4. SignInsInForce(auth)' /\ RestoreInForce(auth)'
  BY <1>1, <1>2 DEF Rest, InForce, SignInsInForce, RestoreInForce, Pending
<1>5. QueueInOrder(auth)'
  <2>1. Writing' = {} /\ SigningIn' = {}
    BY <1>1, <1>2 DEF Drained, Writing, SigningIn
  <2> QED BY <1>1, <1>2, <2>1 DEF Drained, QueueInOrder
<1>6. StoreFollows(auth)' /\ TokensApart'
  BY <1>1, <1>2 DEF Usable, Rest, StoreFollows, TokensApart
<1>7. LiveAccounted(auth)'
  BY <1>1, <1>2 DEF Rest, LiveAccounted, Logins
<1>8. TypeOK'
  <2>1. queue' \in Seq([kind : {"refresh", "signin", "rotate", "clear"}, tok : Tokens])
    <3>1. [kind |-> "clear", tok |-> None] \in [kind : {"refresh", "signin", "rotate", "clear"}, tok : Tokens]
      BY ZeroPairs
    <3>2. \A S : <<>> \in Seq(S) /\ \A y \in S : <<y>> \in Seq(S)
      OBVIOUS
    <3> QED BY <3>1, <3>2
  <2> QED BY <1>1, <1>2, <2>1 DEF TypeOK
<1> QED BY <1>1, <1>2, <1>3, <1>4, <1>5, <1>6, <1>7, <1>8 DEF SessionInv, Rest, InForce

\* Nothing but a deletion is queued while the keychain is cleared.
LEMMA OnlyDeletion ==
  ASSUME SessionInv, auth.close = "clear"
  PROVE  queue = <<>> \/ queue = <<[kind |-> "clear", tok |-> None]>>
<1>1. Drained /\ Rest(auth)
  BY Closes
<1>2. Writing = {} /\ SigningIn = {} /\ change.pc # "writing"
  BY <1>1 DEF Drained, Writing, SigningIn
<1> QED BY <1>1, <1>2 DEF Rest, QueueInOrder

LEMMA ClearTokensInv ==
  ASSUME SessionInv, ClearTokens
  PROVE  SessionInv'
<1>1. /\ auth.close = "clear" /\ \A i \in DOMAIN queue : queue[i].kind # "clear"
      /\ queue' = Append(queue, [kind |-> "clear", tok |-> None])
      /\ UNCHANGED <<auth, activities, store, flights, rotation, restore, signin, change, waiter,
                     live, minted, orphans, restarts, failures>>
  BY DEF ClearTokens
<1>2. queue = <<>>
  <2>1. ASSUME queue = <<[kind |-> "clear", tok |-> None]>> PROVE FALSE
    <3>1. 1 \in DOMAIN queue /\ queue[1].kind = "clear"
      BY <2>1
    <3> QED BY <1>1, <3>1
  <2> QED BY <1>1, <2>1, OnlyDeletion
<1>3. queue' = <<[kind |-> "clear", tok |-> None]>>
  <2>1. \A y : Append(<<>>, y) = <<y>>
    OBVIOUS
  <2> QED BY <1>1, <1>2, <2>1
<1>4. failures' \in Nat
  BY <1>1 DEF SessionInv, TypeOK
<1> QED BY <1>1, <1>3, <1>4, DeletionMoves

LEMMA ClearedInv ==
  ASSUME SessionInv, NEW ok \in BOOLEAN, Cleared(ok)
  PROVE  SessionInv'
<1>1. /\ auth.close = "clear" /\ queue # <<>> /\ queue' = Tail(queue)
      /\ UNCHANGED <<activities, flights, rotation, restore, signin, change, waiter,
                     live, minted, orphans, restarts>>
      /\ IF ok THEN store' = Head(queue).tok /\ failures' = failures
         ELSE store' = store /\ failures' = failures + 1
  BY DEF Cleared, Settled
<1>2. queue = <<[kind |-> "clear", tok |-> None]>>
  BY <1>1, OnlyDeletion
<1>3. queue' = <<>> /\ Head(queue).tok = None
  BY <1>1, <1>2
<1>4. failures' \in Nat
  BY <1>1 DEF SessionInv, TypeOK
<1>5. CASE ~ok
  <2>1. auth' = auth /\ store' = store
    BY <1>1, <1>5 DEF Cleared
  <2> QED BY <1>1, <1>3, <1>4, <2>1, DeletionMoves
<1>6. CASE ok
  <2>1. /\ auth.phase = "closing" /\ Drained /\ Rest(auth) /\ TypeOK /\ Lifecycle(auth) /\ auth \in Auths
    BY <1>1, Closes
  <2>2. PICK a : a = [auth EXCEPT !.active = NoPair, !.latest = NoPair,
                                  !.handoff = NoPair, !.source = NoTicket,
                                  !.access = None, !.published = 0,
                                  !.phase = "signedOut", !.close = "none"]
    OBVIOUS
  <2>3. /\ a \in Auths /\ a.phase = "signedOut" /\ a.close = "none" /\ a.latest = NoPair
        /\ a.gen = auth.gen /\ a.seq = auth.seq /\ a.rev = auth.rev
    BY <2>1, <2>2, ZeroPairs DEF Auths
  <2>4. auth' = a /\ store' = None
    BY <1>1, <1>3, <1>6, <2>2 DEF Cleared
  <2>5. Lifecycle(a) /\ ~Usable(a)
    <3>1. a.seq \in Nat /\ a.rev \in Nat
      BY <2>3 DEF Auths
    <3> QED BY <2>3, <3>1, ZeroPairs DEF Lifecycle, Usable
  <2>6. restore.pc # "start"
    BY <2>1 DEF Rest, InForce, RestoreInForce
  <2>7. FlightsInForce(a)' /\ ChangeInForce(a)'
    BY <1>1, <2>1 DEF Drained, FlightsInForce, ChangeInForce
  <2>8. SignInsInForce(a)'
    BY <1>1, <2>1, <2>3 DEF Drained, Rest, InForce, SignInsInForce, Pending
  <2>9. RestoreInForce(a)'
    BY <1>1, <2>1, <2>3, <2>5, <2>6 DEF Rest, InForce, RestoreInForce, IsAuthTicketCurrent
  <2>10. QueueInOrder(a)'
    <3>1. Writing' = {} /\ SigningIn' = {}
      BY <1>1, <2>1 DEF Drained, Writing, SigningIn
    <3> QED BY <1>1, <1>3, <2>1, <3>1 DEF Drained, QueueInOrder
  <2>11. StoreFollows(a)'
    BY <1>3, <2>3, <2>4, <2>5 DEF StoreFollows
  <2>12. TokensApart'
    <3>1. None <= minted
      BY <2>1, ZeroPairs DEF TypeOK, Tokens
    <3>2. \A s \in SignIns : signin[s].pc = "login" => signin[s].tok # None
      BY <2>1 DEF Rest, InForce, SignInsInForce
    <3> QED BY <1>1, <2>1, <2>4, <3>1, <3>2 DEF Drained, Rest, TokensApart
  <2>13. LiveAccounted(a)'
    <3>1. live \subseteq orphans \cup Logins /\ Logins' = Logins
      BY <1>1, <2>1 DEF Rest, LiveAccounted, Logins
    <3> QED BY <1>1, <2>1, <2>3, <2>6, <3>1 DEF Drained, LiveAccounted
  <2>14. TypeOK'
    <3>1. \A S : <<>> \in Seq(S)
      OBVIOUS
    <3>2. queue' \in Seq([kind : {"refresh", "signin", "rotate", "clear"}, tok : Tokens])
      BY <1>3, <3>1
    <3> QED BY <1>1, <1>4, <2>1, <2>3, <2>4, <3>2, ZeroPairs DEF TypeOK, Auths
  <2> QED BY <2>4, <2>5, <2>7, <2>8, <2>9, <2>10, <2>11, <2>12, <2>13, <2>14 DEF SessionInv, Rest, InForce
<1> QED BY <1>5, <1>6

-----------------------------------------------------------------------------
(* The life of the process.                                                *)

LEMMA InitInv == Init => SessionInv
<1> SUFFICES ASSUME Init PROVE SessionInv
  OBVIOUS
<1>1. /\ auth = InitAuth /\ activities = {} /\ queue = <<>> /\ flights = {}
      /\ rotation = NoTicket /\ restore = AtStart /\ change = NoChange
      /\ signin = [s \in SignIns |-> Idle] /\ waiter = [c \in Callers |-> Idle]
      /\ store \in {None, 1} /\ live \in SUBSET {1} /\ minted = 1
      /\ orphans = live \ {store} /\ restarts = 0 /\ failures = 0
  BY DEF Init
<1>2. 1 \in Tokens /\ 0 \in Nat
  BY SessionBounds DEF Tokens
<1>3. /\ auth \in Auths /\ auth.phase = "signedOut" /\ auth.close = "none" /\ auth.gen = 0
      /\ auth.latest = NoPair /\ auth.seq = 0 /\ auth.rev = 0 /\ auth.ui = "restoring"
  BY <1>1, ZeroPairs DEF InitAuth, Auths
<1>4. /\ restore \in Restores /\ restore.pc = "start" /\ restore.ticket = NoTicket
      /\ change \in ChangeType /\ change.pc = "idle" /\ change.tok = None
  BY <1>1, ZeroPairs DEF AtStart, NoChange, Restores, ChangeType
<1>5. /\ \A s \in SignIns : signin[s].pc = "idle" /\ signin[s].tok = None
      /\ \A c \in Callers : waiter[c].pc = "idle" /\ waiter[c].ticket = NoTicket
      /\ signin \in [SignIns -> SignInType] /\ waiter \in [Callers -> Waiters]
  BY <1>1, ZeroPairs DEF Idle, SignInType, Waiters
<1>6. Lifecycle(auth) /\ ~Usable(auth)
  BY <1>3, ZeroPairs DEF Lifecycle, Usable
<1>7. FlightsInForce(auth) /\ ChangeInForce(auth) /\ SignInsInForce(auth)
  BY <1>1, <1>4, <1>5 DEF FlightsInForce, ChangeInForce, SignInsInForce, Pending
<1>8. RestoreInForce(auth)
  BY <1>1, <1>3, <1>4, <1>5, ZeroPairs DEF RestoreInForce, Pending, NoTicket
<1>9. QueueInOrder(auth)
  BY <1>1, <1>4, <1>5 DEF QueueInOrder, Writing, SigningIn
<1>10. StoreFollows(auth)
  BY <1>1, <1>3, <1>4, <1>6 DEF StoreFollows
<1>11. TokensApart
  BY <1>1, <1>4, <1>5, ZeroPairs DEF TokensApart
<1>12. LiveAccounted(auth)
  BY <1>1, <1>3, <1>4, <1>6 DEF LiveAccounted
<1>13. TypeOK
  <2>1. \A S : <<>> \in Seq(S)
    OBVIOUS
  <2>2. queue \in Seq([kind : {"refresh", "signin", "rotate", "clear"}, tok : Tokens])
    BY <1>1, <2>1
  <2> QED BY <1>1, <1>2, <1>3, <1>4, <1>5, <2>2, ZeroPairs
          DEF TypeOK, Auths, Restores, ChangeType, SignInType, Waiters
<1> QED BY <1>6, <1>7, <1>8, <1>9, <1>10, <1>11, <1>12, <1>13 DEF SessionInv, Rest, InForce

\* Every token of a queued write was issued.
LEMMA QueuedTokens ==
  ASSUME SessionInv
  PROVE  \A i \in DOMAIN queue \cap {1} : queue[i].tok \in Tokens /\ queue[i].tok <= minted
<1>1. TypeOK /\ Rest(auth)
  BY DEF SessionInv
<1>2. /\ None <= minted /\ change.tok <= minted /\ (\A f \in flights : f.tok <= minted)
      /\ \A s \in SignIns : signin[s].tok <= minted
  BY <1>1, ZeroPairs DEF TypeOK, Tokens, Rest, TokensApart
<1>3. queue # <<>> => queue[1].tok <= minted
  <2>1. \A x, y : <<x, y>>[1] = x /\ <<x>>[1] = x
    OBVIOUS
  <2>2. \A k, t : [kind |-> k, tok |-> t].tok = t
    OBVIOUS
  <2>3. queue # <<>> =>
          \/ \E f \in flights : queue[1].tok = f.tok
          \/ queue[1].tok = change.tok
          \/ \E s \in SignIns : queue[1].tok = signin[s].tok
          \/ queue[1].tok = None
    BY <1>1, <2>1, <2>2 DEF Rest, QueueInOrder
  <2> QED BY <1>2, <2>3
<1>4. queue \in Seq([kind : {"refresh", "signin", "rotate", "clear"}, tok : Tokens])
  BY <1>1 DEF TypeOK
<1>5. \A S : \A q \in Seq(S) : \A i \in DOMAIN q : q # <<>> /\ q[i] \in S
  OBVIOUS
<1>6. \A i \in DOMAIN queue :
        queue # <<>> /\ queue[i] \in [kind : {"refresh", "signin", "rotate", "clear"}, tok : Tokens]
  BY <1>4, <1>5
<1>7. \A i \in DOMAIN queue \cap {1} : i = 1 /\ queue # <<>> /\ queue[i].tok \in Tokens
  BY <1>6
<1> QED BY <1>3, <1>7

LEMMA RestartInv ==
  ASSUME SessionInv, Restart
  PROVE  SessionInv'
<1>1. TypeOK /\ Lifecycle(auth) /\ Rest(auth) /\ auth \in Auths /\ signin \in [SignIns -> SignInType]
      /\ restarts \in Nat /\ auth.gen \in Nat
  BY Typed DEF SessionInv, TypeOK, SignInType, Auths
<1>2. /\ restarts' = restarts + 1
      /\ store' \in {store} \cup {queue[i].tok : i \in DOMAIN queue \cap {1}}
      /\ auth' = [InitAuth EXCEPT !.gen = auth.gen]
      /\ activities' = {} /\ queue' = <<>> /\ flights' = {}
      /\ rotation' = NoTicket /\ restore' = AtStart /\ change' = NoChange
      /\ signin' = [s \in SignIns |->
           IF Pending(s) THEN [signin[s] EXCEPT !.pc = "done"] ELSE signin[s]]
      /\ waiter' = [c \in Callers |-> Idle]
      /\ orphans' = orphans \cup (live \ {store'})
      /\ UNCHANGED <<live, minted, failures>>
  BY DEF Restart
<1>3. store' \in Tokens /\ store' <= minted
  BY <1>1, <1>2, QueuedTokens DEF TypeOK, Rest, TokensApart
<1>4. PICK a : a = [InitAuth EXCEPT !.gen = auth.gen]
  OBVIOUS
<1>5. /\ a \in Auths /\ a.phase = "signedOut" /\ a.close = "none" /\ a.gen = auth.gen
      /\ a.latest = NoPair /\ a.seq = 0 /\ a.rev = 0 /\ a.ui = "restoring" /\ auth' = a
  BY <1>1, <1>2, <1>4, ZeroPairs DEF InitAuth, Auths
<1>6. /\ restore' \in Restores /\ restore'.pc = "start" /\ restore'.ticket = NoTicket
      /\ change' \in ChangeType /\ change'.pc = "idle" /\ change'.tok = None
  BY <1>2, ZeroPairs DEF AtStart, NoChange, Restores, ChangeType
<1>7. /\ \A s \in SignIns : signin'[s].pc \in {"idle", "done"} /\ signin'[s].tok = signin[s].tok
      /\ signin' \in [SignIns -> SignInType]
  <2>1. \A y \in SignInType : /\ [y EXCEPT !.pc = "done"] \in SignInType
                              /\ [y EXCEPT !.pc = "done"].pc = "done"
                              /\ [y EXCEPT !.pc = "done"].tok = y.tok
    BY DEF SignInType
  <2>2. \A s \in SignIns : signin[s] \in SignInType /\ (~Pending(s) => signin[s].pc \in {"idle", "done"})
    BY <1>1 DEF Pending
  <2> QED BY <1>2, <2>1, <2>2
<1>8. /\ \A c \in Callers : waiter'[c].pc = "idle" /\ waiter'[c].ticket = NoTicket
      /\ waiter' \in [Callers -> Waiters]
  BY <1>2, ZeroPairs DEF Idle, Waiters
<1>9. Lifecycle(a) /\ ~Usable(a)
  BY <1>5, ZeroPairs DEF Lifecycle, Usable
<1>10. FlightsInForce(a)' /\ ChangeInForce(a)' /\ SignInsInForce(a)'
  BY <1>2, <1>6, <1>7 DEF FlightsInForce, ChangeInForce, SignInsInForce, Pending
<1>11. RestoreInForce(a)'
  BY <1>1, <1>2, <1>5, <1>6, <1>7, <1>8, ZeroPairs DEF RestoreInForce, Pending, NoTicket
<1>12. QueueInOrder(a)'
  BY <1>2, <1>6, <1>7 DEF QueueInOrder, Writing, SigningIn
<1>13. StoreFollows(a)'
  BY <1>2, <1>5, <1>6, <1>9 DEF StoreFollows
<1>14. TokensApart'
  <2>1. None <= minted /\ minted' = minted /\ live' = live /\ flights' = {}
    BY <1>1, <1>2, ZeroPairs DEF TypeOK, Tokens
  <2>2. (\A t \in live : t <= minted) /\ \A s \in SignIns : signin[s].tok <= minted
    BY <1>1 DEF Rest, TokensApart
  <2>3. change'.tok <= minted' /\ \A s \in SignIns : signin'[s].tok <= minted' /\ signin'[s].pc # "login"
    BY <2>1, <2>2, <1>6, <1>7
  <2> QED BY <2>1, <2>2, <2>3, <1>3, <1>6 DEF TokensApart
<1>15. LiveAccounted(a)'
  BY <1>2, <1>5, <1>6, <1>9 DEF LiveAccounted
<1>16. TypeOK'
  <2>1. \A S : <<>> \in Seq(S)
    OBVIOUS
  <2>2. queue' \in Seq([kind : {"refresh", "signin", "rotate", "clear"}, tok : Tokens])
    BY <1>2, <2>1
  <2>3. orphans' \subseteq Tokens
    BY <1>1, <1>2 DEF TypeOK
  <2>4. store' \in Tokens /\ auth' \in Auths /\ restarts' \in Nat
    BY <1>1, <1>2, <1>3, <1>5
  <2>5. live' \subseteq Tokens /\ minted' \in Tokens /\ failures' \in Nat
    BY <1>1, <1>2 DEF TypeOK
  <2>6. flights' = {} /\ activities' = {} /\ rotation' = NoTicket
    BY <1>2
  <2>7. restore' \in Restores /\ change' \in ChangeType /\ rotation' \in TicketType
        /\ signin' \in [SignIns -> SignInType] /\ waiter' \in [Callers -> Waiters]
    BY <2>6, <1>6, <1>7, <1>8, ZeroPairs
  <2> QED BY <2>2, <2>3, <2>4, <2>5, <2>6, <2>7
          DEF TypeOK, Auths, Restores, ChangeType, SignInType, Waiters
<1> QED BY <1>5, <1>9, <1>10, <1>11, <1>12, <1>13, <1>14, <1>15, <1>16 DEF SessionInv, Rest, InForce

LEMMA StutterInv == SessionInv /\ UNCHANGED vars => SessionInv'
<1> SUFFICES ASSUME SessionInv, UNCHANGED vars PROVE SessionInv'
  OBVIOUS
<1>1. PICK a : a = auth
  OBVIOUS
<1>2. Rest(a)' /\ auth' = a
  BY <1>1, Unmoved DEF SessionInv, vars, restVars
<1>3. TypeOK'
  BY DEF SessionInv, TypeOK, vars
<1> QED BY <1>1, <1>2, <1>3 DEF SessionInv

LEMMA SessionStep == SessionInv /\ [Next]_vars => SessionInv'
<1> SUFFICES ASSUME SessionInv, [Next]_vars PROVE SessionInv'
  OBVIOUS
<1>1. CASE CredentialNext
  <2>1. CASE \E c \in Callers : SendRequest(c) \/ Unauthorized(c) \/ Answered(c)
    BY <2>1, SendRequestInv, UnauthorizedInv, AnsweredInv
  <2>2. CASE \E f \in flights :
               \/ ReadToken(f) \/ PostRefresh(f) \/ ServerRefresh(f)
               \/ RefreshAnswered(f) \/ RefreshFailed(f)
               \/ \E ok \in BOOLEAN : RefreshWritten(f, ok)
    BY <2>2, ReadTokenInv, PostRefreshInv, ServerRefreshInv, RefreshAnsweredInv, RefreshFailedInv,
       RefreshWrittenInv
  <2>3. CASE \E s \in SignIns : Login(s) \/ OpenSignIn(s)
    BY <2>3, LoginInv, OpenSignInInv
  <2>4. CASE SignOut \/ ChangePassword \/ ServerChange \/ ChangeFailed \/ ChangeAnswered
    BY <2>4, SignOutInv, ChangePasswordInv, ServerChangeInv, ChangeFailedInv, ChangeAnsweredInv
  <2>5. CASE \E ok \in BOOLEAN : RotationWritten(ok) \/ Cleared(ok)
    BY <2>5, RotationWrittenInv, ClearedInv
  <2>6. CASE CloseDrained \/ Revoke \/ ClearTokens
    BY <2>6, CloseDrainedInv, RevokeInv, ClearTokensInv
  <2> QED BY <1>1, <2>1, <2>2, <2>3, <2>4, <2>5, <2>6 DEF CredentialNext
<1>2. CASE BeginRestore \/ \E ok \in BOOLEAN : RestoreMedia(ok) \/ RestoreMe(ok)
  BY <1>2, BeginRestoreInv, RestoreMediaInv, RestoreMeInv
<1>3. CASE \E s \in SignIns, ok \in BOOLEAN : SignInWritten(s, ok) \/ SignInMedia(s, ok)
  BY <1>3, SignInWrittenInv, SignInMediaInv
<1>4. CASE NetworkIdle \/ Restart
  BY <1>4, NetworkIdleInv, RestartInv
<1>5. CASE UNCHANGED vars
  BY <1>5, StutterInv
<1> QED BY <1>1, <1>2, <1>3, <1>4, <1>5 DEF Next

\* Every step of the session keeps its tickets, writes and tokens in order.
THEOREM SessionInvariant == Spec => []SessionInv
BY InitInv, SessionStep, PTL DEF Spec

\* The state keeps its shape.
THEOREM SessionTyped == Spec => []TypeOK
<1>1. SessionInv => TypeOK
  BY DEF SessionInv
<1> QED BY <1>1, SessionInvariant, PTL

\* A sign-out was revoked with the last pair of its session: the server is
\* left with no refresh token but those whose answer never arrived.
THEOREM SignOutRevokesAll == Spec => []HandoffIsComplete
<1>1. SessionInv => HandoffIsComplete
  BY DEF SessionInv, Rest, LiveAccounted, HandoffIsComplete, Logins
<1> QED BY <1>1, SessionInvariant, PTL

\* A cold start adopts the published pair, and nothing after a sign-out.
THEOREM KeychainAgrees == Spec => []DurableAgrees
<1>1. SessionInv => DurableAgrees
  <2> SUFFICES ASSUME SessionInv PROVE DurableAgrees
    OBVIOUS
  <2>1. StoreFollows(auth)
    BY DEF SessionInv, Rest
  <2> QED BY <2>1 DEF StoreFollows, DurableAgrees
<1> QED BY <1>1, SessionInvariant, PTL

\* A refresh presents the newest token, and one refresh does at a time.
THEOREM RefreshIsFresh == Spec => []FreshOnTheWire
<1>1. SessionInv => FreshOnTheWire
  <2> SUFFICES ASSUME SessionInv PROVE FreshOnTheWire
    OBVIOUS
  <2>1. /\ InForce(auth) /\ QueueInOrder(auth) /\ StoreFollows(auth) /\ auth \in Auths /\ Lifecycle(auth)
    BY Typed DEF SessionInv, Rest
  <2>2. ASSUME NEW f \in flights, f.pc = "sent", IsAuthTicketCurrent(auth, f.ticket)
        PROVE  auth.latest.tok \in {None, f.tok} /\ rotation = NoTicket
    <3>1. Usable(auth) /\ f.ticket = Now(auth)
      BY <2>1, <2>2, TicketInForce
    <3>2. queue = <<>> /\ change.pc # "writing"
      BY <2>1, <2>2, <3>1, NothingQueued
    <3>3. rotation = NoTicket
      BY <2>1, <3>2 DEF InForce, ChangeInForce
    <3>4. f.tok = store
      BY <2>1, <2>2, <3>1 DEF StoreFollows
    <3> QED BY <2>1, <3>1, <3>2, <3>3, <3>4 DEF StoreFollows
  <2>3. \A f, g \in flights : f.ticket = g.ticket => f = g
    BY <2>1 DEF InForce, FlightsInForce
  <2> QED BY <2>2, <2>3 DEF FreshOnTheWire
<1> QED BY <1>1, SessionInvariant, PTL

-----------------------------------------------------------------------------
(* Replays.                                                                *)

Replays ==
  \A c \in Callers :
    waiter'[c].pc = "replayed" /\ waiter[c].pc # "replayed"
      => /\ IsAuthTicketCurrent(auth', waiter'[c].ticket)
         /\ waiter'[c].ticket = waiter[c].ticket
         /\ waiter'[c].tok = auth'.access

LEMMA ResumeReplays ==
  ASSUME NEW a, NEW w \in Waiters, NEW v, Resume(a, w, v).pc = "replayed"
  PROVE  /\ v # None /\ IsAuthTicketCurrent(a, w.ticket)
         /\ Resume(a, w, v).ticket = w.ticket /\ Resume(a, w, v).tok = v
<1>1. v # None /\ IsAuthTicketCurrent(a, w.ticket)
  BY DEF Resume, Waiters
<1>2. Resume(a, w, v) = [w EXCEPT !.pc = "replayed", !.tok = v]
  BY <1>1 DEF Resume
<1> QED BY <1>1, <1>2 DEF Waiters

\* Whoever joined a flight is replayed with what the flight resolved to.
LEMMA FlightReplays ==
  ASSUME TypeOK, NEW a, NEW f \in flights, NEW v, NEW hard \in BOOLEAN,
         EndFlight(a, rotation, f, v, hard),
         v # None /\ IsAuthTicketCurrent(a, f.ticket) => v = a.access /\ ~hard,
         hard => v = None
  PROVE  Replays
<1> SUFFICES ASSUME NEW c \in Callers, waiter'[c].pc = "replayed", waiter[c].pc # "replayed"
             PROVE  /\ IsAuthTicketCurrent(auth', waiter'[c].ticket)
                    /\ waiter'[c].ticket = waiter[c].ticket
                    /\ waiter'[c].tok = auth'.access
  BY DEF Replays
<1>1. PICK b : b = IF hard THEN BeginClose(a) ELSE a
  OBVIOUS
<1>2. waiter[c] \in Waiters
  BY Typed
<1>3. waiter'[c] = AfterFlight(b, rotation, waiter[c], v) /\ waiter[c].ticket = f.ticket
  BY <1>1 DEF EndFlight
<1>4. [waiter[c] EXCEPT !.pc = "rotating"].pc = "rotating"
  BY <1>2 DEF Waiters
<1>5. /\ v # None /\ IsAuthTicketCurrent(b, f.ticket)
      /\ waiter'[c].ticket = waiter[c].ticket /\ waiter'[c].tok = v
  <2>1. CASE IsAuthTicketCurrent(b, waiter[c].ticket)
    BY <2>1, <1>2, <1>3, ResumeReplays DEF AfterFlight
  <2>2. CASE ~IsAuthTicketCurrent(b, waiter[c].ticket)
    BY <2>2, <1>2, <1>3, <1>4, ResumeReplays DEF AfterFlight
  <2> QED BY <2>1, <2>2
<1>6. b = a /\ auth' = b
  BY <1>1, <1>5 DEF EndFlight, RestoreCloses
<1> QED BY <1>3, <1>5, <1>6

LEMMA SupersededReplays ==
  ASSUME TypeOK, NEW a, NEW f \in flights, EndSuperseded(a, f)
  PROVE  Replays
<1>1. CASE EndFlight(a, rotation, f, AccessNow(a, f.ticket), FALSE)
  <2>1. IsAuthTicketCurrent(a, f.ticket) /\ AccessNow(a, f.ticket) # None
          => AccessNow(a, f.ticket) = a.access
    BY DEF AccessNow
  <2> QED BY <1>1, <2>1, FlightReplays
<1>2. CASE UNCHANGED waiter
  BY <1>2 DEF Replays
<1> QED BY <1>1, <1>2 DEF EndSuperseded

LEMMA WrittenReplays ==
  ASSUME TypeOK, NEW f \in flights, NEW ok \in BOOLEAN, RefreshWritten(f, ok)
  PROVE  Replays
<1>1. CASE ok
  <2>1. PICK a : a = PublishPair(auth, f.ticket, f.tok)
    OBVIOUS
  <2>2. PICK v : v = IF IsAuthTicketCurrent(auth, f.ticket) THEN f.tok ELSE None
    OBVIOUS
  <2>3. EndFlight(a, rotation, f, v, FALSE)
    BY <1>1, <2>1, <2>2 DEF RefreshWritten
  <2>4. v # None => a.access = v
    BY <2>1, <2>2, Typed DEF PublishPair, Auths
  <2> QED BY <2>3, <2>4, FlightReplays
<1>2. CASE ~ok /\ IsAuthTicketCurrent(auth, f.ticket)
  <2>1. EndFlight(auth, rotation, f, None, TRUE)
    BY <1>2 DEF RefreshWritten
  <2> QED BY <2>1, FlightReplays
<1>3. CASE ~ok /\ ~IsAuthTicketCurrent(auth, f.ticket)
  BY <1>3, SupersededReplays DEF RefreshWritten
<1> QED BY <1>1, <1>2, <1>3

LEMMA FlightsReplay ==
  ASSUME TypeOK, NEW f \in flights, PostRefresh(f) \/ RefreshAnswered(f) \/ RefreshFailed(f)
  PROVE  Replays
<1>1. CASE PostRefresh(f)
  BY <1>1, FlightReplays, SupersededReplays DEF PostRefresh, Replays
<1>2. CASE RefreshAnswered(f)
  BY <1>2, FlightReplays, SupersededReplays DEF RefreshAnswered, Replays
<1>3. CASE RefreshFailed(f)
  BY <1>3, FlightReplays, SupersededReplays DEF RefreshFailed
<1> QED BY <1>1, <1>2, <1>3

LEMMA RotationReplays ==
  ASSUME TypeOK, NEW ok \in BOOLEAN, RotationWritten(ok)
  PROVE  Replays
<1> SUFFICES ASSUME NEW c \in Callers, waiter'[c].pc = "replayed", waiter[c].pc # "replayed"
             PROVE  /\ IsAuthTicketCurrent(auth', waiter'[c].ticket)
                    /\ waiter'[c].ticket = waiter[c].ticket
                    /\ waiter'[c].tok = auth'.access
  BY DEF Replays
<1>1. PICK a : a = IF ok THEN PublishPair(auth, rotation, change.tok) ELSE auth
  OBVIOUS
<1>2. PICK v : v = IF ok THEN AccessNow(a, waiter[c].ticket) ELSE None
  OBVIOUS
<1>3. waiter'[c] = Resume(a, waiter[c], v)
  BY <1>1, <1>2 DEF RotationWritten
<1>4. waiter[c] \in Waiters
  BY Typed
<1>5. /\ v # None /\ IsAuthTicketCurrent(a, waiter[c].ticket)
      /\ waiter'[c].ticket = waiter[c].ticket /\ waiter'[c].tok = v
  BY <1>3, <1>4, ResumeReplays
<1>6. ok /\ v = a.access
  BY <1>2, <1>5 DEF AccessNow
<1>7. auth' = a
  BY <1>1, <1>6 DEF RotationWritten
<1> QED BY <1>5, <1>6, <1>7

\* A caller's own steps replay nothing.
LEMMA CallersReplay ==
  ASSUME TypeOK, NEW d \in Callers, SendRequest(d) \/ Unauthorized(d) \/ Answered(d)
  PROVE  Replays
<1>1. \A c \in Callers : waiter[c] \in Waiters
  BY Typed
<1>2. waiter \in [Callers -> Waiters]
  BY Typed
<1>3. \A y \in Waiters : /\ Resume(auth, y, None).pc = "idle"
                         /\ [y EXCEPT !.pc = "rotating"].pc = "rotating"
                         /\ [y EXCEPT !.pc = "joined"].pc = "joined"
  BY DEF Resume, Waiters
<1>4. \A c \in Callers : waiter'[c] = waiter[c] \/ waiter'[c].pc # "replayed"
  <2>1. CASE SendRequest(d)
    BY <1>2, <2>1 DEF SendRequest
  <2>2. CASE Unauthorized(d)
    BY <1>1, <1>2, <1>3, <2>2 DEF Unauthorized
  <2>3. CASE Answered(d)
    BY <1>1, <1>2, <1>3, <2>3 DEF Answered
  <2> QED BY <2>1, <2>2, <2>3
<1> QED BY <1>4 DEF Replays

LEMMA StepReplays == TypeOK /\ [Next]_vars => Replays
<1> SUFFICES ASSUME TypeOK, [Next]_vars PROVE Replays
  OBVIOUS
<1>1. CASE CredentialNext
  <2>1. CASE \E c \in Callers : SendRequest(c) \/ Unauthorized(c) \/ Answered(c)
    BY <2>1, CallersReplay
  <2>2. CASE \E f \in flights : PostRefresh(f) \/ RefreshAnswered(f) \/ RefreshFailed(f)
    BY <2>2, FlightsReplay
  <2>3. CASE \E f \in flights : \E ok \in BOOLEAN : RefreshWritten(f, ok)
    BY <2>3, WrittenReplays
  <2>4. CASE \E ok \in BOOLEAN : RotationWritten(ok)
    BY <2>4, RotationReplays
  <2>5. CASE UNCHANGED waiter
    BY <2>5 DEF Replays
  <2>6. CASE \E f \in flights : ReadToken(f) \/ ServerRefresh(f)
    BY <2>6, <2>5 DEF ReadToken, ServerRefresh
  <2>7. CASE \E s \in SignIns : Login(s) \/ OpenSignIn(s)
    BY <2>7, <2>5 DEF Login, OpenSignIn
  <2>8. CASE SignOut \/ ChangePassword \/ ServerChange \/ ChangeFailed \/ ChangeAnswered
    BY <2>8, <2>5 DEF SignOut, ChangePassword, ServerChange, ChangeFailed, ChangeAnswered
  <2>9. CASE (\E ok \in BOOLEAN : Cleared(ok)) \/ CloseDrained \/ Revoke \/ ClearTokens
    BY <2>9, <2>5 DEF Cleared, CloseDrained, Revoke, ClearTokens, Unchanged_ButAuth
  <2> QED BY <1>1, <2>1, <2>2, <2>3, <2>4, <2>6, <2>7, <2>8, <2>9 DEF CredentialNext
<1>2. CASE UNCHANGED waiter
  BY <1>2 DEF Replays
<1>3. CASE BeginRestore \/ NetworkIdle \/ \E ok \in BOOLEAN : RestoreMedia(ok) \/ RestoreMe(ok)
  BY <1>3, <1>2 DEF BeginRestore, NetworkIdle, RestoreMedia, RestoreMe, Unchanged_ButAuth
<1>4. CASE \E s \in SignIns, ok \in BOOLEAN : SignInWritten(s, ok) \/ SignInMedia(s, ok)
  BY <1>4, <1>2 DEF SignInWritten, SignInMedia
<1>5. CASE Restart
  <2>1. \A c \in Callers : waiter'[c].pc = "idle"
    BY <1>5 DEF Restart, Idle
  <2> QED BY <2>1 DEF Replays
<1>6. CASE UNCHANGED vars
  BY <1>6, <1>2 DEF vars
<1> QED BY <1>1, <1>3, <1>4, <1>5, <1>6 DEF Next

\* A replayed request carries the access token of its own session.
THEOREM ReplaysAreOwn == Spec => ReplayStaysInSession
<1>1. TypeOK /\ [Next]_vars => [\A c \in Callers :
        waiter'[c].pc = "replayed" /\ waiter[c].pc # "replayed"
          => /\ IsAuthTicketCurrent(auth', waiter'[c].ticket)
             /\ waiter'[c].ticket = waiter[c].ticket
             /\ waiter'[c].tok = auth'.access]_vars
  BY StepReplays DEF Replays
<1> QED BY <1>1, SessionTyped, PTL DEF Spec, ReplayStaysInSession

=============================================================================
