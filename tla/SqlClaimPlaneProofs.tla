-------------------------- MODULE SqlClaimPlaneProofs --------------------------
(***************************************************************************)
(* Theorems about SqlClaimPlane, for any number of workers, items,         *)
(* rankings and failures.                                                  *)
(*                                                                         *)
(* The argument.  A row of the leases table is written by its agent alone, *)
(* and removed by another session only once it has lapsed.  So whatever a  *)
(* worker learned of its own row -- by the read back of a claim, by the    *)
(* read of a heartbeat -- stays true of the table until the row lapses,    *)
(* however many statements of others fall between the reading and the     *)
(* telling; and every commit snapshots the table, so it stays true of the  *)
(* last commit, too.  Sound says this of each worker at each statement;    *)
(* Respects says what the statement of one worker owes to another.         *)
(***************************************************************************)
EXTENDS SqlClaimPlane, SequenceTheorems, TLAPS

Process == [at     : Statement \cup {"idle"},
            walk   : Seq(Item),
            item   : Item \cup {Null},
            lapses : Nat]

Grant == [item : Item, lapses : Nat]

Table == [Item -> Row \cup {Null}]

-----------------------------------------------------------------------------
(* The inductive invariant.                                                *)

Claiming == {"reap", "reap commit", "latch", "latch commit", "read back",
             "audit", "audit commit"}
Beating  == {"heartbeat", "heartbeat commit", "read live"}
Ending   == {"delete", "close", "close commit"}

Owns(table, p, i) == table[i] # Null /\ table[i].agent = p

End(row) == row.claimedAt + row.ttl

(* Worker p's row of item i is there, and lasts until t at least.          *)
Lasts(p, i, t) == Owns(leases, p, i) /\ t <= End(leases[i])

(* What worker p was told: until it lapses, the table and the last commit  *)
(* have the row; the audit row is there whatever has become of the lease.  *)
Knows(t, p) ==
  t # Null =>
    /\ t.lapses <= now + RenewTtl
    /\ <<t.item, p>> \in claims /\ <<t.item, p>> \in head.claims
    /\ now < t.lapses => Lasts(p, t.item, t.lapses) /\ Owns(head.leases, p, t.item)

(* What it may rely on at each statement of a verb, besides.               *)
Sound(s, t, p) ==
  /\ s.at \in Claiming => s.walk # <<>> /\ t = Null
  /\ s.at \in Beating  => t # Null /\ s.item = t.item
  /\ s.at \in Ending   => s.item # Null /\ t = Null
  /\ s.at \in {"audit", "audit commit"} =>
       /\ s.lapses <= now + RenewTtl
       /\ now < s.lapses => Lasts(p, Head(s.walk), s.lapses)
  /\ s.at = "audit commit" => <<Head(s.walk), p>> \in claims
  /\ s.at = "read live" /\ Owns(leases, p, s.item) => Owns(head.leases, p, s.item)
  /\ Knows(t, p)

(* No row is of the future, or longer than the longest ttl asked for.      *)
Dated == \A i \in Item : leases[i] # Null => leases[i].claimedAt <= now /\ leases[i].ttl <= RenewTtl

IInv == TypeOK /\ Dated /\ \A p \in Session : Sound(session[p], told[p], p)

-----------------------------------------------------------------------------
LEMMA Constants ==
  /\ ClaimTtl \in Nat \ {0} /\ RenewTtl \in Nat \ {0} /\ ClaimTtl <= RenewTtl
  /\ MaxNow \in Nat /\ MaxFaults \in Nat
  /\ Null \notin Session /\ Null \notin Item /\ Null \notin Nat /\ Null \notin Row
  /\ \A w \in Walks : w \in Seq(Item) /\ w # <<>>
BY SqlAssumption

LEMMA Fields ==
  ASSUME TypeOK
  PROVE  /\ leases \in Table /\ head.leases \in Table
         /\ claims \subseteq Item \X Session /\ head.claims \subseteq Item \X Session
         /\ now \in Nat /\ now \in 0..MaxNow /\ faults \in 0..MaxFaults
         /\ session \in [Session -> Process] /\ told \in [Session -> Grant \cup {Null}]
         /\ \A p \in Session : session[p] \in Process /\ told[p] \in Grant \cup {Null}
         /\ \A i \in Item : leases[i] # Null =>
              /\ leases[i] \in Row /\ leases[i].claimedAt \in Nat /\ leases[i].ttl \in Nat
              /\ End(leases[i]) \in Nat
BY Constants DEF TypeOK, Table, Process, Grant, Row, End

LEMMA TypeFrom ==
  ASSUME leases' \in Table, head'.leases \in Table,
         claims' \subseteq Item \X Session, head'.claims \subseteq Item \X Session,
         now' \in 0..MaxNow, faults' \in 0..MaxFaults,
         session' \in [Session -> Process], told' \in [Session -> Grant \cup {Null}]
  PROVE  TypeOK'
BY DEF TypeOK, Table, Process, Grant

LEMMA Later ==
  ASSUME NEW a \in Nat, NEW b \in Nat, a <= b, NEW u \in Nat, NEW r \in Nat
  PROVE  /\ b < u => a < u
         /\ u <= a + r => u <= b + r
OBVIOUS

(* What a step owes to a worker that does not take it.                     *)
Respects(q) ==
  /\ \A i \in Item : Owns(leases, q, i)' => leases'[i] = leases[i]
  /\ \A i \in Item : Owns(leases, q, i) /\ now' < End(leases[i]) => leases'[i] = leases[i]
  /\ \A i \in Item : <<i, q>> \in claims => <<i, q>> \in claims'

(* Commits are of the working set as it is.                                *)
Commits ==
  \/ head' = head
  \/ head' = [leases |-> leases, claims |-> claims] /\ UNCHANGED <<leases, claims, now>>

(* Then everything the other worker knows, and was told, stays true.       *)
LEMMA StaysSound ==
  ASSUME TypeOK, TypeOK', now <= now', Commits,
         NEW q \in Session, Respects(q),
         NEW s \in Process, NEW t \in Grant \cup {Null}, Sound(s, t, q)
  PROVE  Sound(s, t, q)'
<1>0. now \in Nat /\ now' \in Nat /\ RenewTtl \in Nat
  BY Fields, Constants DEF TypeOK
<1>1. \A i \in Item : leases[i] # Null => End(leases[i]) \in Nat
  BY Fields
<1>2. s.lapses \in Nat /\ s.item \in Item \cup {Null} /\ s.walk \in Seq(Item)
  BY DEF Process
<1>3. t # Null => t.item \in Item /\ t.lapses \in Nat
  BY DEF Grant
<1>4. ASSUME NEW i \in Item, NEW u \in Nat, now' < u, Lasts(q, i, u)
      PROVE  Lasts(q, i, u)'
  BY <1>0, <1>1, <1>4 DEF Respects, Lasts, Owns
<1>5. ASSUME NEW u \in Nat
      PROVE  /\ now' < u => now < u
             /\ u <= now + RenewTtl => u <= now' + RenewTtl
  BY <1>0, Later
<1>6. head'.leases = head.leases \/ head'.leases = leases
  BY DEF Commits
<1>7. s.at \in {"audit", "audit commit"} =>
        /\ s.lapses <= now' + RenewTtl
        /\ now' < s.lapses => Lasts(q, Head(s.walk), s.lapses)'
  <2>. SUFFICES ASSUME s.at \in {"audit", "audit commit"}
                PROVE  /\ s.lapses <= now' + RenewTtl
                       /\ now' < s.lapses => Lasts(q, Head(s.walk), s.lapses)'
    OBVIOUS
  <2>1. /\ s.walk # <<>> /\ s.lapses <= now + RenewTtl
        /\ now < s.lapses => Lasts(q, Head(s.walk), s.lapses)
    BY DEF Sound, Claiming
  <2>2. Head(s.walk) \in Item
    BY <1>2, <2>1, HeadTailProperties
  <2>. QED
    BY <1>2, <1>4, <1>5, <2>1, <2>2
<1>8. s.at = "audit commit" => <<Head(s.walk), q>> \in claims'
  <2>. SUFFICES ASSUME s.at = "audit commit"
                PROVE  <<Head(s.walk), q>> \in claims'
    OBVIOUS
  <2>1. s.walk # <<>> /\ <<Head(s.walk), q>> \in claims
    BY DEF Sound, Claiming
  <2>2. Head(s.walk) \in Item
    BY <1>2, <2>1, HeadTailProperties
  <2>. QED
    BY <2>1, <2>2 DEF Respects
<1>9. s.at = "read live" /\ Owns(leases, q, s.item)' => Owns(head.leases, q, s.item)'
  <2>. SUFFICES ASSUME s.at = "read live", Owns(leases, q, s.item)'
                PROVE  Owns(head.leases, q, s.item)'
    OBVIOUS
  <2>1. s.item = t.item /\ t # Null
    BY DEF Sound, Beating
  <2>2. s.item \in Item
    BY <1>3, <2>1
  <2>3. leases'[s.item] = leases[s.item] /\ Owns(leases, q, s.item)
    BY <2>2 DEF Respects, Owns
  <2>4. Owns(head.leases, q, s.item)
    BY <2>3 DEF Sound
  <2>. QED
    BY <1>6, <2>1, <2>3, <2>4 DEF Owns
<1>10. ASSUME t # Null
      PROVE  /\ t.lapses <= now' + RenewTtl
             /\ <<t.item, q>> \in claims' /\ <<t.item, q>> \in head'.claims
             /\ now' < t.lapses => Lasts(q, t.item, t.lapses)' /\ Owns(head.leases, q, t.item)'
  <2>1. /\ t.lapses <= now + RenewTtl
        /\ <<t.item, q>> \in claims /\ <<t.item, q>> \in head.claims
        /\ now < t.lapses => Lasts(q, t.item, t.lapses) /\ Owns(head.leases, q, t.item)
    BY <1>10 DEF Sound, Knows
  <2>2. t.item \in Item /\ t.lapses \in Nat
    BY <1>3, <1>10
  <2>3. t.lapses <= now' + RenewTtl
    BY <1>5, <2>1, <2>2
  <2>4. <<t.item, q>> \in claims'
    BY <2>1, <2>2 DEF Respects
  <2>5. <<t.item, q>> \in head'.claims
    BY <2>1 DEF Commits
  <2>6. ASSUME now' < t.lapses
        PROVE  Lasts(q, t.item, t.lapses)' /\ Owns(head.leases, q, t.item)'
    <3>1. Lasts(q, t.item, t.lapses) /\ Owns(head.leases, q, t.item)
      BY <1>5, <2>1, <2>2, <2>6
    <3>2. Lasts(q, t.item, t.lapses)'
      BY <1>4, <2>2, <2>6, <3>1
    <3>3. Owns(head.leases, q, t.item)'
      BY <1>6, <3>1 DEF Owns, Lasts
    <3>. QED
      BY <3>2, <3>3
  <2>. QED
    BY <2>3, <2>4, <2>5, <2>6
<1>. QED
  BY <1>7, <1>8, <1>9, <1>10 DEF Sound, Knows

(* A step of worker p: it moves to a sound state and respects the others.  *)
LEMMA WorkerMoves ==
  ASSUME IInv, NEW p \in Session, NEW x \in Process, NEW y \in Grant \cup {Null},
         session' = [session EXCEPT ![p] = x], told' = [told EXCEPT ![p] = y],
         leases' \in Table, claims' \subseteq Item \X Session,
         now' = now, faults' \in 0..MaxFaults, Commits, Dated',
         \A q \in Session \ {p} : Respects(q),
         Sound(x, y, p)'
  PROVE  IInv'
<1>0. TypeOK /\ now <= now'
  BY Fields DEF IInv
<1>1. /\ session' \in [Session -> Process] /\ session'[p] = x
      /\ \A q \in Session \ {p} : session'[q] = session[q]
      /\ told' \in [Session -> Grant \cup {Null}] /\ told'[p] = y
      /\ \A q \in Session \ {p} : told'[q] = told[q]
  BY <1>0, Fields
<1>2. head'.leases \in Table /\ head'.claims \subseteq Item \X Session
  BY <1>0, Fields DEF Commits
<1>3. TypeOK'
  BY <1>0, <1>1, <1>2, Fields, TypeFrom
<1>4. ASSUME NEW q \in Session PROVE Sound(session[q], told[q], q)'
  <2>1. CASE q = p
    BY <1>1, <2>1
  <2>2. CASE q # p
    <3>1. session[q] \in Process /\ told[q] \in Grant \cup {Null} /\ Sound(session[q], told[q], q)
      BY <1>0, Fields DEF IInv
    <3>2. \A s \in Process, t \in Grant \cup {Null} : Sound(s, t, q) => Sound(s, t, q)'
      BY <1>0, <1>3, <2>2, StaysSound
    <3>. QED
      BY <1>1, <2>2, <3>1, <3>2
  <2>. QED
    BY <2>1, <2>2
<1>. QED
  BY <1>3, <1>4 DEF IInv

(* Most statements of a worker only read, or commit what is there.         *)
LEMMA WorkerReads ==
  ASSUME IInv, NEW p \in Session, NEW x \in Process, NEW y \in Grant \cup {Null},
         session' = [session EXCEPT ![p] = x], told' = [told EXCEPT ![p] = y],
         UNCHANGED <<leases, claims, now>>, faults' \in 0..MaxFaults, Commits,
         Sound(x, y, p)'
  PROVE  IInv'
<1>1. leases' \in Table /\ claims' \subseteq Item \X Session
  BY Fields DEF IInv
<1>2. Dated'
  BY DEF IInv, Dated
<1>3. \A q \in Session \ {p} : Respects(q)
  BY DEF Respects, Owns
<1>. QED
  BY <1>1, <1>2, <1>3, WorkerMoves

(* What a worker was told outlives whatever leaves the tables alone.       *)
LEMMA StillKnows ==
  ASSUME NEW t, NEW p, Knows(t, p), UNCHANGED <<leases, claims, head, now>>
  PROVE  Knows(t, p)'
BY DEF Knows, Lasts, Owns

-----------------------------------------------------------------------------
(* The invariant holds initially.                                          *)
LEMMA InitHolds == Init => IInv
<1>. SUFFICES ASSUME Init PROVE IInv
  OBVIOUS
<1>1. Idle \in Process
  BY DEF Idle, Process
<1>2. TypeOK
  BY <1>1, Constants DEF Init, TypeOK, Process
<1>3. Dated
  BY DEF Init, Dated
<1>4. ASSUME NEW p \in Session PROVE Sound(session[p], told[p], p)
  <2>1. session[p] = Idle /\ told[p] = Null
    BY DEF Init
  <2>. QED
    BY <2>1 DEF Idle, Sound, Knows, Claiming, Beating, Ending
<1>. QED
  BY <1>2, <1>3, <1>4 DEF IInv

-----------------------------------------------------------------------------
(* Claiming.                                                               *)

LEMMA StartClaimKeeps ==
  ASSUME IInv, NEW p \in Session, NEW w \in Walks, StartClaim(p, w)
  PROVE  IInv'
<1>1. PICK x : x = [Idle EXCEPT !.at = "reap", !.walk = w]
  OBVIOUS
<1>2. w \in Seq(Item) /\ w # <<>>
  BY Constants
<1>3. x \in Process /\ x.at = "reap" /\ x.walk = w
  BY <1>1, <1>2 DEF Idle, Process, Statement
<1>4. session' = [session EXCEPT ![p] = x]
  BY <1>1 DEF StartClaim
<1>5. told' = [told EXCEPT ![p] = Null]
  BY Fields DEF StartClaim, IInv
<1>6. Sound(x, Null, p)'
  BY <1>2, <1>3 DEF Sound, Knows, Claiming, Beating, Ending
<1>. QED
  BY <1>3, <1>4, <1>5, <1>6, Fields, WorkerReads DEF StartClaim, Commits, IInv

(* The worker that claims: where it is, and that it was told nothing yet.  *)
LEMMA Claims ==
  ASSUME IInv, NEW p \in Session, session[p].at \in Claiming
  PROVE  /\ session[p] \in Process /\ session[p].walk \in Seq(Item)
         /\ session[p].walk # <<>> /\ Head(session[p].walk) \in Item
         /\ told[p] = Null
<1>1. session[p] \in Process /\ Sound(session[p], told[p], p)
  BY Fields DEF IInv
<1>2. session[p].walk \in Seq(Item) /\ session[p].walk # <<>> /\ told[p] = Null
  BY <1>1 DEF Process, Sound
<1>. QED
  BY <1>1, <1>2, HeadTailProperties

LEMMA ReapKeeps ==
  ASSUME IInv, NEW p \in Session, Reap(p)
  PROVE  IInv'
<1>1. PICK x : x = [session[p] EXCEPT !.at = "reap commit"]
  OBVIOUS
<1>2. session[p] \in Process /\ session[p].walk # <<>> /\ told[p] = Null
  BY Claims DEF Reap, At, Claiming
<1>3. x \in Process /\ x.at = "reap commit" /\ x.walk # <<>>
  BY <1>1, <1>2 DEF Process, Statement
<1>4. session' = [session EXCEPT ![p] = x] /\ told' = [told EXCEPT ![p] = Null]
  BY <1>1, <1>2, Fields DEF Reap, IInv
<1>5. leases' = [i \in Item |-> IF IsLive(leases[i]) THEN leases[i] ELSE Null]
      /\ UNCHANGED <<claims, head, now, told, faults>>
  BY DEF Reap
<1>6. leases' \in Table /\ claims' \subseteq Item \X Session /\ faults' \in 0..MaxFaults
  BY <1>5, Fields DEF IInv, Table
<1>7. Dated'
  BY <1>5 DEF IInv, Dated
<1>8. \A q \in Session : Respects(q)
  BY <1>5 DEF Respects, Owns, IsLive, End
<1>9. Sound(x, Null, p)'
  BY <1>3 DEF Sound, Knows, Claiming, Beating, Ending
<1>. QED
  BY <1>3, <1>4, <1>5, <1>6, <1>7, <1>8, <1>9, WorkerMoves DEF Commits

LEMMA LatchKeeps ==
  ASSUME IInv, NEW p \in Session, Latch(p)
  PROVE  IInv'
<1>1. PICK x : x = [session[p] EXCEPT !.at = "latch commit"]
  OBVIOUS
<1>2. /\ session[p] \in Process /\ session[p].walk # <<>> /\ told[p] = Null
      /\ Head(session[p].walk) \in Item
  BY Claims DEF Latch, At, Claiming
<1>3. x \in Process /\ x.at = "latch commit" /\ x.walk # <<>>
  BY <1>1, <1>2 DEF Process, Statement
<1>4. session' = [session EXCEPT ![p] = x] /\ told' = [told EXCEPT ![p] = Null]
  BY <1>1, <1>2, Fields DEF Latch, IInv
<1>5. PICK i \in Item : i = Head(session[p].walk)
  BY <1>2
<1>6. PICK row : row = [agent |-> p, claimedAt |-> now, ttl |-> ClaimTtl]
  OBVIOUS
<1>7. /\ leases' = [leases EXCEPT ![i] = IF @ = Null THEN row ELSE @]
      /\ UNCHANGED <<claims, head, now, told, faults>>
  BY <1>5, <1>6 DEF Latch
<1>8. row \in Row /\ row.agent = p /\ row.claimedAt <= now /\ row.ttl <= RenewTtl
  BY <1>6, Fields, Constants DEF IInv, Row
<1>9. leases \in Table
  BY Fields DEF IInv
<1>10. /\ \A j \in Item : leases[j] # Null => leases'[j] = leases[j]
       /\ \A j \in Item : leases'[j] = leases[j] \/ leases'[j] = row
       /\ leases' \in Table
  BY <1>7, <1>8, <1>9 DEF Table
<1>11. Dated'
  BY <1>7, <1>8, <1>10 DEF IInv, Dated
<1>12. \A q \in Session \ {p} : Respects(q)
  BY <1>7, <1>8, <1>10 DEF Respects, Owns
<1>13. Sound(x, Null, p)'
  BY <1>3 DEF Sound, Knows, Claiming, Beating, Ending
<1>14. claims' \subseteq Item \X Session /\ faults' \in 0..MaxFaults
  BY <1>7, Fields DEF IInv
<1>. QED
  BY <1>3, <1>4, <1>7, <1>10, <1>11, <1>12, <1>13, <1>14, WorkerMoves DEF Commits

LEMMA ReadBackKeeps ==
  ASSUME IInv, NEW p \in Session, ReadBack(p)
  PROVE  IInv'
<1>1. PICK s : s = session[p]
  OBVIOUS
<1>2. /\ s \in Process /\ s.walk \in Seq(Item) /\ s.walk # <<>> /\ told[p] = Null
      /\ Head(s.walk) \in Item
  BY <1>1, Claims DEF ReadBack, At, Claiming
<1>3. PICK i \in Item : i = Head(s.walk)
  BY <1>2
<1>4. UNCHANGED <<leases, claims, head, now, told, faults>>
  BY DEF ReadBack
<1>5. told' = [told EXCEPT ![p] = Null] /\ faults' \in 0..MaxFaults /\ Commits
  BY <1>2, <1>4, Fields DEF IInv, Commits
<1>6. CASE leases[i] # Null /\ leases[i].agent = p
  <2>1. PICK x : x = [s EXCEPT !.at = "audit", !.lapses = leases[i].claimedAt + leases[i].ttl]
    OBVIOUS
  <2>2. session' = [session EXCEPT ![p] = x]
    BY <1>1, <1>3, <1>6, <2>1 DEF ReadBack
  <2>3. End(leases[i]) \in Nat /\ End(leases[i]) = leases[i].claimedAt + leases[i].ttl
    BY <1>6, Fields DEF IInv, End
  <2>4. x \in Process /\ x.at = "audit" /\ x.walk = s.walk /\ x.lapses = End(leases[i])
    BY <1>2, <2>1, <2>3 DEF Process, Statement
  <2>5. x.lapses <= now + RenewTtl
    <3>1. \A a, b, c, d \in Nat : a <= c /\ b <= d => a + b <= c + d
      OBVIOUS
    <3>2. /\ leases[i].claimedAt \in Nat /\ leases[i].ttl \in Nat /\ now \in Nat /\ RenewTtl \in Nat
          /\ leases[i].claimedAt <= now /\ leases[i].ttl <= RenewTtl
      BY <1>6, Fields, Constants DEF IInv, Dated
    <3>. QED
      BY <2>3, <2>4, <3>1, <3>2
  <2>6. Lasts(p, i, x.lapses)
    BY <1>6, <2>3, <2>4 DEF Lasts, Owns
  <2>7. Lasts(p, i, x.lapses)'
    BY <1>4, <2>6 DEF Lasts, Owns
  <2>8. Sound(x, Null, p)'
    BY <1>2, <1>3, <1>4, <2>4, <2>5, <2>7 DEF Sound, Knows, Claiming, Beating, Ending
  <2>. QED
    BY <1>4, <1>5, <2>2, <2>4, <2>8, WorkerReads
<1>7. CASE ~(leases[i] # Null /\ leases[i].agent = p) /\ Tail(s.walk) # <<>>
  <2>1. PICK x : x = [s EXCEPT !.at = "latch", !.walk = Tail(s.walk)]
    OBVIOUS
  <2>2. session' = [session EXCEPT ![p] = x]
    BY <1>1, <1>3, <1>7, <2>1 DEF ReadBack
  <2>3. Tail(s.walk) \in Seq(Item)
    BY <1>2, HeadTailProperties
  <2>4. x \in Process /\ x.at = "latch" /\ x.walk # <<>>
    BY <1>2, <1>7, <2>1, <2>3 DEF Process, Statement
  <2>5. Sound(x, Null, p)'
    BY <2>4 DEF Sound, Knows, Claiming, Beating, Ending
  <2>. QED
    BY <1>4, <1>5, <2>2, <2>4, <2>5, WorkerReads
<1>8. CASE ~(leases[i] # Null /\ leases[i].agent = p) /\ Tail(s.walk) = <<>>
  <2>1. session' = [session EXCEPT ![p] = Idle]
    BY <1>1, <1>3, <1>8 DEF ReadBack
  <2>2. Idle \in Process /\ Sound(Idle, Null, p)'
    BY DEF Idle, Process, Sound, Knows, Claiming, Beating, Ending
  <2>. QED
    BY <1>4, <1>5, <2>1, <2>2, WorkerReads
<1>. QED
  BY <1>6, <1>7, <1>8

LEMMA AuditKeeps ==
  ASSUME IInv, NEW p \in Session, Audit(p)
  PROVE  IInv'
<1>1. PICK s : s = session[p]
  OBVIOUS
<1>2. /\ s \in Process /\ s.at = "audit" /\ s.walk # <<>> /\ told[p] = Null
      /\ Head(s.walk) \in Item /\ Sound(s, Null, p)
  BY <1>1, Claims DEF Audit, At, Claiming, IInv
<1>3. PICK x : x = [s EXCEPT !.at = "audit commit"]
  OBVIOUS
<1>4. x \in Process /\ x.at = "audit commit" /\ x.walk = s.walk /\ x.lapses = s.lapses
  BY <1>2, <1>3 DEF Process, Statement
<1>5. session' = [session EXCEPT ![p] = x] /\ told' = [told EXCEPT ![p] = Null]
  BY <1>1, <1>2, <1>3, Fields DEF Audit, IInv
<1>6. claims' = claims \cup {<<Head(s.walk), p>>} /\ UNCHANGED <<leases, head, now, told, faults>>
  BY <1>1 DEF Audit
<1>7. /\ leases' \in Table /\ claims' \subseteq Item \X Session /\ faults' \in 0..MaxFaults
      /\ Dated' /\ Commits /\ now' = now
  BY <1>2, <1>6, Fields DEF IInv, Dated, Commits
<1>8. \A q \in Session \ {p} : Respects(q)
  BY <1>6 DEF Respects, Owns
<1>9. /\ s.lapses <= now + RenewTtl
      /\ now < s.lapses => Lasts(p, Head(s.walk), s.lapses)
  BY <1>2 DEF Sound
<1>10. now < s.lapses => Lasts(p, Head(s.walk), s.lapses)'
  BY <1>6, <1>9 DEF Lasts, Owns
<1>11. Sound(x, Null, p)'
  BY <1>2, <1>4, <1>6, <1>9, <1>10 DEF Sound, Knows, Claiming, Beating, Ending
<1>. QED
  BY <1>4, <1>5, <1>7, <1>8, <1>11, WorkerMoves

-----------------------------------------------------------------------------
(* Renewing.                                                               *)

LEMMA StartRenewKeeps ==
  ASSUME IInv, NEW p \in Session, StartRenew(p)
  PROVE  IInv'
<1>1. PICK t : t = told[p]
  OBVIOUS
<1>2. t \in Grant /\ t # Null /\ t.item \in Item /\ Knows(t, p)
  BY <1>1, Fields DEF StartRenew, IInv, Sound, Grant
<1>3. PICK x : x = [Idle EXCEPT !.at = "heartbeat", !.item = t.item]
  OBVIOUS
<1>4. x \in Process /\ x.at = "heartbeat" /\ x.item = t.item
  <2>1. Idle \in Process
    BY DEF Idle, Process
  <2>. QED
    BY <1>2, <1>3, <2>1 DEF Process, Statement
<1>5. session' = [session EXCEPT ![p] = x] /\ told' = [told EXCEPT ![p] = t]
      /\ UNCHANGED <<leases, claims, head, now, faults>>
  BY <1>1, <1>3, Fields DEF StartRenew, IInv
<1>6. Knows(t, p)'
  BY <1>2, <1>5, StillKnows
<1>7. Sound(x, t, p)'
  BY <1>2, <1>4, <1>6 DEF Sound, Claiming, Beating, Ending
<1>. QED
  BY <1>2, <1>4, <1>5, <1>7, Fields, WorkerReads DEF IInv, Commits

(* The worker that renews: it was told a lease, on the item it renews.     *)
LEMMA Beats ==
  ASSUME IInv, NEW p \in Session, session[p].at \in Beating
  PROVE  /\ session[p] \in Process /\ session[p].item \in Item
         /\ told[p] \in Grant /\ told[p] # Null /\ told[p].item = session[p].item
         /\ Knows(told[p], p)
<1>1. /\ session[p] \in Process /\ told[p] \in Grant \cup {Null}
      /\ Sound(session[p], told[p], p)
  BY Fields DEF IInv
<1>2. told[p] # Null /\ session[p].item = told[p].item /\ Knows(told[p], p)
  BY <1>1 DEF Sound
<1>3. told[p].item \in Item
  BY <1>1, <1>2 DEF Grant
<1>. QED
  BY <1>1, <1>2, <1>3

(* The row is pushed out, never in: what its worker was told stays true.   *)
LEMMA HeartbeatKeeps ==
  ASSUME IInv, NEW p \in Session, NEW keep \in BOOLEAN, Heartbeat(p, keep)
  PROVE  IInv'
<1>1. PICK t : t = told[p]
  OBVIOUS
<1>2. PICK i : i = session[p].item
  OBVIOUS
<1>3. /\ session[p] \in Process /\ i \in Item /\ t \in Grant /\ t # Null /\ t.item = i
      /\ Knows(t, p)
  BY <1>1, <1>2, Beats DEF Heartbeat, At, Beating
<1>4. PICK x : x = [session[p] EXCEPT !.at = "heartbeat commit"]
  OBVIOUS
<1>5. x \in Process /\ x.at = "heartbeat commit" /\ x.item = i
  BY <1>2, <1>3, <1>4 DEF Process, Statement
<1>6. session' = [session EXCEPT ![p] = x] /\ told' = [told EXCEPT ![p] = t]
      /\ UNCHANGED <<claims, head, now, told, faults>>
  BY <1>1, <1>4, Fields DEF Heartbeat, IInv
<1>7. PICK old : old = leases[i]
  OBVIOUS
<1>8. /\ leases \in Table /\ now \in Nat /\ RenewTtl \in Nat \ {0} /\ Null \notin Row
      /\ old \in Row \cup {Null}
  BY <1>3, <1>7, Fields, Constants DEF IInv, Table
<1>9. CASE ~(IsLive(old) /\ old.agent = p)
  <2>1. leases' = [leases EXCEPT ![i] = old]
    BY <1>2, <1>7, <1>9 DEF Heartbeat
  <2>2. leases' = leases
    BY <1>7, <1>8, <2>1 DEF Table
  <2>3. Knows(t, p)'
    BY <1>3, <1>6, <2>2, StillKnows
  <2>4. Sound(x, t, p)'
    BY <1>3, <1>5, <2>3 DEF Sound, Claiming, Beating, Ending
  <2>. QED
    BY <1>3, <1>5, <1>6, <2>2, <2>4, Fields, WorkerReads DEF IInv, Commits
<1>10. CASE IsLive(old) /\ old.agent = p
  <2>1. /\ old \in Row /\ old # Null /\ old.agent = p
        /\ old.claimedAt \in Nat /\ old.ttl \in Nat \ {0}
        /\ old.claimedAt <= now /\ old.ttl <= RenewTtl
    BY <1>3, <1>7, <1>8, <1>10 DEF IsLive, Row, IInv, Dated
  <2>2. PICK ttl : ttl = IF keep THEN old.ttl ELSE RenewTtl
    OBVIOUS
  <2>3. PICK new : new = [old EXCEPT !.claimedAt = now, !.ttl = ttl]
    OBVIOUS
  <2>4. leases' = [leases EXCEPT ![i] = new]
    <3>. DEFINE beaten == [old EXCEPT !.claimedAt = now, !.ttl = IF keep THEN old.ttl ELSE RenewTtl]
    <3>1. leases' = [leases EXCEPT ![i] = IF IsLive(old) /\ old.agent = p THEN beaten ELSE old]
      BY <1>2, <1>7 DEF Heartbeat
    <3>2. beaten = new
      BY <2>1, <2>2, <2>3 DEF Row
    <3>. HIDE DEF beaten
    <3>. QED
      BY <1>10, <3>1, <3>2
  <2>5. ttl \in Nat \ {0} /\ ttl <= RenewTtl /\ old.ttl <= ttl
        /\ (ttl = old.ttl \/ ttl = RenewTtl)
    BY <1>8, <2>1, <2>2
  <2>6. new \in Row /\ new # Null /\ new.agent = p /\ new.claimedAt = now /\ new.ttl = ttl
    BY <1>8, <2>1, <2>3, <2>5 DEF Row
  <2>7. /\ leases' \in Table /\ leases'[i] = new
        /\ \A j \in Item \ {i} : leases'[j] = leases[j]
    BY <1>3, <1>8, <2>4, <2>6 DEF Table
  <2>8. End(old) \in Nat /\ End(new) \in Nat /\ End(old) <= End(new)
    <3>1. \A a, b, c, d \in Nat : a <= c /\ b <= d => a + b <= c + d
      OBVIOUS
    <3>. QED
      BY <1>8, <2>1, <2>5, <2>6, <3>1 DEF End
  <2>9. Dated'
    BY <1>6, <1>8, <2>5, <2>6, <2>7 DEF IInv, Dated
  <2>10. \A q \in Session \ {p} : Respects(q)
    BY <1>3, <1>6, <1>7, <2>1, <2>6, <2>7 DEF Respects, Owns
  <2>11. Knows(t, p)'
    <3>1. /\ t.lapses <= now + RenewTtl
          /\ <<i, p>> \in claims /\ <<i, p>> \in head.claims
          /\ now < t.lapses => t.lapses <= End(old) /\ Owns(head.leases, p, i)
      BY <1>3, <1>7 DEF Knows, Lasts
    <3>2. t.lapses \in Nat
      BY <1>3 DEF Grant
    <3>3. now < t.lapses => t.lapses <= End(leases'[i]) /\ Owns(leases, p, i)'
      BY <2>6, <2>7, <2>8, <3>1, <3>2 DEF Owns
    <3>4. now < t.lapses => Owns(head.leases, p, i)'
      BY <1>6, <3>1 DEF Owns
    <3>. QED
      BY <1>3, <1>6, <3>1, <3>3, <3>4 DEF Knows, Lasts
  <2>12. Sound(x, t, p)'
    BY <1>3, <1>5, <2>11 DEF Sound, Claiming, Beating, Ending
  <2>13. claims' \subseteq Item \X Session /\ faults' \in 0..MaxFaults
    BY <1>6, Fields DEF IInv
  <2>. QED
    BY <1>3, <1>5, <1>6, <2>7, <2>9, <2>10, <2>12, <2>13, WorkerMoves DEF Commits
<1>. QED
  BY <1>9, <1>10

(* The worker is told of the row it reads, and the commit after its UPDATE *)
(* has taken that row along.                                               *)
LEMMA ReadLiveKeeps ==
  ASSUME IInv, NEW p \in Session, ReadLive(p)
  PROVE  IInv'
<1>1. PICK i : i = session[p].item
  OBVIOUS
<1>2. /\ session[p] \in Process /\ i \in Item /\ told[p].item = i
      /\ told[p] # Null /\ Knows(told[p], p) /\ session[p].at = "read live"
      /\ Sound(session[p], told[p], p)
  BY <1>1, Beats DEF ReadLive, At, Beating, IInv
<1>3. PICK y : y = IF IsLive(leases[i]) /\ leases[i].agent = p
                   THEN [item |-> i, lapses |-> leases[i].claimedAt + leases[i].ttl] ELSE Null
  OBVIOUS
<1>4. /\ session' = [session EXCEPT ![p] = Idle] /\ told' = [told EXCEPT ![p] = y]
      /\ UNCHANGED <<leases, claims, head, now, faults>>
  BY <1>1, <1>3 DEF ReadLive
<1>5. y \in Grant \cup {Null} /\ Knows(y, p)
  <2>1. CASE ~(IsLive(leases[i]) /\ leases[i].agent = p)
    BY <1>3, <2>1 DEF Knows
  <2>2. CASE IsLive(leases[i]) /\ leases[i].agent = p
    <3>1. /\ leases[i] # Null /\ Owns(leases, p, i) /\ End(leases[i]) \in Nat
          /\ leases[i].claimedAt \in Nat /\ leases[i].ttl \in Nat /\ now \in Nat /\ RenewTtl \in Nat
          /\ leases[i].claimedAt <= now /\ leases[i].ttl <= RenewTtl
      BY <1>2, <2>2, Fields, Constants DEF IsLive, Owns, IInv, Dated
    <3>2. y = [item |-> i, lapses |-> End(leases[i])]
      BY <1>3, <2>2 DEF End
    <3>3. y \in Grant /\ y.item = i /\ y.lapses = End(leases[i])
      BY <1>2, <3>1, <3>2 DEF Grant
    <3>4. y.lapses <= now + RenewTtl
      <4>1. \A a, b, c, d \in Nat : a <= c /\ b <= d => a + b <= c + d
        OBVIOUS
      <4>. QED
        BY <3>1, <3>3, <4>1 DEF End
    <3>5. Owns(head.leases, p, i)
      BY <1>1, <1>2, <3>1 DEF Sound
    <3>6. <<i, p>> \in claims /\ <<i, p>> \in head.claims
      BY <1>2 DEF Knows
    <3>7. Lasts(p, i, y.lapses)
      BY <3>1, <3>3 DEF Lasts
    <3>. QED
      BY <3>3, <3>4, <3>5, <3>6, <3>7 DEF Knows
  <2>. QED
    BY <2>1, <2>2
<1>6. Knows(y, p)'
  BY <1>4, <1>5, StillKnows
<1>7. Idle \in Process /\ Sound(Idle, y, p)'
  BY <1>6 DEF Idle, Process, Sound, Claiming, Beating, Ending
<1>. QED
  BY <1>4, <1>5, <1>7, Fields, WorkerReads DEF IInv, Commits

-----------------------------------------------------------------------------
(* Releasing.                                                              *)

LEMMA StartReleaseKeeps ==
  ASSUME IInv, NEW p \in Session, StartRelease(p)
  PROVE  IInv'
<1>1. PICK i : i = told[p].item
  OBVIOUS
<1>2. i \in Item /\ i # Null
  BY <1>1, Fields, Constants DEF StartRelease, IInv, Grant
<1>3. PICK x : x = [Idle EXCEPT !.at = "delete", !.item = i]
  OBVIOUS
<1>4. x \in Process /\ x.at = "delete" /\ x.item = i
  <2>1. Idle \in Process
    BY DEF Idle, Process
  <2>. QED
    BY <1>2, <1>3, <2>1 DEF Process, Statement
<1>5. session' = [session EXCEPT ![p] = x] /\ told' = [told EXCEPT ![p] = Null]
      /\ UNCHANGED <<leases, claims, head, now, faults>>
  BY <1>1, <1>3 DEF StartRelease
<1>6. Sound(x, Null, p)'
  BY <1>2, <1>4 DEF Sound, Knows, Claiming, Beating, Ending
<1>. QED
  BY <1>4, <1>5, <1>6, Fields, WorkerReads DEF IInv, Commits

(* The worker that releases: it no longer believes it holds anything.      *)
LEMMA Ends ==
  ASSUME IInv, NEW p \in Session, session[p].at \in Ending
  PROVE  session[p] \in Process /\ session[p].item \in Item /\ session[p].item # Null
         /\ told[p] = Null
<1>1. session[p] \in Process /\ Sound(session[p], told[p], p)
  BY Fields DEF IInv
<1>2. session[p].item # Null /\ told[p] = Null
  BY <1>1 DEF Sound
<1>. QED
  BY <1>1, <1>2 DEF Process

LEMMA DeleteKeeps ==
  ASSUME IInv, NEW p \in Session, Delete(p)
  PROVE  IInv'
<1>1. PICK i : i = session[p].item
  OBVIOUS
<1>2. session[p] \in Process /\ i \in Item /\ i # Null /\ told[p] = Null
  BY <1>1, Ends DEF Delete, At, Ending
<1>3. PICK x : x = [session[p] EXCEPT !.at = "close"]
  OBVIOUS
<1>4. x \in Process /\ x.at = "close" /\ x.item = i
  BY <1>1, <1>2, <1>3 DEF Process, Statement
<1>5. session' = [session EXCEPT ![p] = x] /\ told' = [told EXCEPT ![p] = Null]
      /\ UNCHANGED <<claims, head, now, told, faults>>
  BY <1>2, <1>3, Fields DEF Delete, IInv
<1>6. leases' = [leases EXCEPT ![i] = IF leases[i] # Null /\ leases[i].agent = p
                                      THEN Null ELSE leases[i]]
  BY <1>1 DEF Delete
<1>7. leases \in Table
  BY Fields DEF IInv
<1>8. leases' \in Table
      /\ \A j \in Item : leases'[j] = leases[j] \/ (leases'[j] = Null /\ Owns(leases, p, j))
  BY <1>2, <1>6, <1>7 DEF Table, Owns
<1>9. Dated'
  BY <1>5, <1>8 DEF IInv, Dated
<1>10. \A q \in Session \ {p} : Respects(q)
  BY <1>5, <1>8 DEF Respects, Owns
<1>11. Sound(x, Null, p)'
  BY <1>2, <1>4 DEF Sound, Knows, Claiming, Beating, Ending
<1>12. claims' \subseteq Item \X Session /\ faults' \in 0..MaxFaults
  BY <1>5, Fields DEF IInv
<1>. QED
  BY <1>4, <1>5, <1>8, <1>9, <1>10, <1>11, <1>12, WorkerMoves DEF Commits

LEMMA CloseKeeps ==
  ASSUME IInv, NEW p \in Session, Close(p)
  PROVE  IInv'
<1>1. session[p] \in Process /\ session[p].item # Null /\ told[p] = Null
  BY Ends DEF Close, At, Ending
<1>2. PICK x : x = [session[p] EXCEPT !.at = "close commit"]
  OBVIOUS
<1>3. x \in Process /\ x.at = "close commit" /\ x.item # Null
  BY <1>1, <1>2 DEF Process, Statement
<1>4. session' = [session EXCEPT ![p] = x] /\ told' = [told EXCEPT ![p] = Null]
      /\ claims' = claims \ {<<session[p].item, p>>}
      /\ UNCHANGED <<leases, head, now, told, faults>>
  BY <1>1, <1>2, Fields DEF Close, IInv
<1>5. /\ leases' \in Table /\ claims' \subseteq Item \X Session /\ faults' \in 0..MaxFaults
      /\ Dated' /\ Commits /\ now' = now
  BY <1>4, Fields DEF IInv, Dated, Commits
<1>6. \A q \in Session \ {p} : Respects(q)
  BY <1>4 DEF Respects, Owns
<1>7. Sound(x, Null, p)'
  BY <1>3 DEF Sound, Knows, Claiming, Beating, Ending
<1>. QED
  BY <1>3, <1>4, <1>5, <1>6, <1>7, WorkerMoves

-----------------------------------------------------------------------------
(* Commits.                                                                *)

(* A commit takes along whatever its worker was told, and tells it, after  *)
(* the audit, only what the commit has.                                    *)
LEMMA CommitKeeps ==
  ASSUME IInv, NEW p \in Session, Commit(p)
  PROVE  IInv'
<1>1. PICK s : s = session[p]
  OBVIOUS
<1>2. PICK t : t = told[p]
  OBVIOUS
<1>3. /\ s \in Process /\ t \in Grant \cup {Null} /\ Sound(s, t, p)
      /\ s.at \in {"reap commit", "latch commit", "audit commit", "heartbeat commit",
                   "close commit"}
  BY <1>1, <1>2, Fields DEF IInv, Commit
<1>4. /\ head' = [leases |-> leases, claims |-> claims]
      /\ UNCHANGED <<leases, claims, now, faults>>
  BY DEF Commit
<1>5. Commits /\ faults' \in 0..MaxFaults
  BY <1>4, Fields DEF Commits, IInv
<1>6. head'.leases = leases /\ head'.claims = claims
  BY <1>4
<1>7. Knows(t, p)'
  BY <1>3, <1>4, <1>6 DEF Sound, Knows, Lasts, Owns
<1>8. Idle \in Process
  BY DEF Idle, Process
<1>9. told = [told EXCEPT ![p] = t]
  BY <1>2, Fields DEF IInv
<1>10. CASE s.at = "reap commit"
  <2>1. PICK x : x = [s EXCEPT !.at = "latch"]
    OBVIOUS
  <2>2. session' = [session EXCEPT ![p] = x] /\ told' = [told EXCEPT ![p] = t]
    BY <1>1, <1>9, <1>10, <2>1 DEF Commit
  <2>3. x \in Process /\ x.at = "latch" /\ x.walk = s.walk
    BY <1>3, <2>1 DEF Process, Statement
  <2>4. Sound(x, t, p)'
    BY <1>3, <1>7, <1>10, <2>3 DEF Sound, Claiming, Beating, Ending
  <2>. QED
    BY <1>3, <1>4, <1>5, <2>2, <2>3, <2>4, WorkerReads
<1>11. CASE s.at = "latch commit"
  <2>1. PICK x : x = [s EXCEPT !.at = "read back"]
    OBVIOUS
  <2>2. session' = [session EXCEPT ![p] = x] /\ told' = [told EXCEPT ![p] = t]
    BY <1>1, <1>9, <1>11, <2>1 DEF Commit
  <2>3. x \in Process /\ x.at = "read back" /\ x.walk = s.walk
    BY <1>3, <2>1 DEF Process, Statement
  <2>4. Sound(x, t, p)'
    BY <1>3, <1>7, <1>11, <2>3 DEF Sound, Claiming, Beating, Ending
  <2>. QED
    BY <1>3, <1>4, <1>5, <2>2, <2>3, <2>4, WorkerReads
<1>12. CASE s.at = "heartbeat commit"
  <2>1. PICK x : x = [s EXCEPT !.at = "read live"]
    OBVIOUS
  <2>2. session' = [session EXCEPT ![p] = x] /\ told' = [told EXCEPT ![p] = t]
    BY <1>1, <1>9, <1>12, <2>1 DEF Commit
  <2>3. x \in Process /\ x.at = "read live" /\ x.item = s.item
    BY <1>3, <2>1 DEF Process, Statement
  <2>4. t # Null /\ s.item = t.item
    BY <1>3, <1>12 DEF Sound, Beating
  <2>5. Owns(leases, p, x.item)' => Owns(head.leases, p, x.item)'
    BY <1>4, <1>6 DEF Owns
  <2>6. Sound(x, t, p)'
    BY <1>7, <2>3, <2>4, <2>5 DEF Sound, Claiming, Beating, Ending
  <2>. QED
    BY <1>3, <1>4, <1>5, <2>2, <2>3, <2>6, WorkerReads
<1>13. CASE s.at = "close commit"
  <2>1. session' = [session EXCEPT ![p] = Idle] /\ told' = [told EXCEPT ![p] = t]
    BY <1>1, <1>9, <1>13 DEF Commit
  <2>2. Sound(Idle, t, p)'
    BY <1>7 DEF Idle, Sound, Claiming, Beating, Ending
  <2>. QED
    BY <1>3, <1>4, <1>5, <1>8, <2>1, <2>2, WorkerReads
<1>14. CASE s.at = "audit commit"
  <2>1. PICK y : y = [item |-> Head(s.walk), lapses |-> s.lapses]
    OBVIOUS
  <2>2. session' = [session EXCEPT ![p] = Idle] /\ told' = [told EXCEPT ![p] = y]
    BY <1>1, <1>14, <2>1 DEF Commit
  <2>3. Head(s.walk) \in Item
    BY <1>1, <1>14, Claims DEF Claiming
  <2>4. y \in Grant /\ y.item = Head(s.walk) /\ y.lapses = s.lapses
    BY <1>3, <2>1, <2>3 DEF Grant, Process
  <2>5. /\ y.lapses <= now + RenewTtl /\ <<y.item, p>> \in claims
        /\ now < y.lapses => Lasts(p, y.item, y.lapses)
    BY <1>3, <1>14, <2>4 DEF Sound
  <2>6. Knows(y, p)'
    BY <1>4, <1>6, <2>5 DEF Knows, Lasts, Owns
  <2>7. Sound(Idle, y, p)'
    BY <2>6 DEF Idle, Sound, Claiming, Beating, Ending
  <2>. QED
    BY <1>4, <1>5, <1>8, <2>2, <2>4, <2>7, WorkerReads
<1>. QED
  BY <1>3, <1>10, <1>11, <1>12, <1>13, <1>14

-----------------------------------------------------------------------------
(* Failures, and the clock.                                                *)

LEMMA ThrowKeeps ==
  ASSUME IInv, NEW p \in Session, Throw(p)
  PROVE  IInv'
<1>1. PICK y \in {told[p], Null} : told' = [told EXCEPT ![p] = y]
  BY DEF Throw
<1>2. /\ session' = [session EXCEPT ![p] = Idle] /\ UNCHANGED <<leases, claims, head, now>>
      /\ faults' \in 0..MaxFaults
  BY Fields, Constants DEF Throw, IInv
<1>3. y \in Grant \cup {Null} /\ Knows(y, p)
  BY Fields DEF IInv, Sound, Knows
<1>4. Knows(y, p)'
  BY <1>2, <1>3, StillKnows
<1>5. Idle \in Process /\ Sound(Idle, y, p)'
  BY <1>4 DEF Idle, Process, Sound, Claiming, Beating, Ending
<1>. QED
  BY <1>1, <1>2, <1>3, <1>5, WorkerReads DEF Commits

LEMMA RestartKeeps ==
  ASSUME IInv, NEW p \in Session, Restart(p)
  PROVE  IInv'
<1>1. /\ told' = [told EXCEPT ![p] = Null] /\ session[p] = Idle
      /\ UNCHANGED <<leases, claims, head, now, session>> /\ faults' \in 0..MaxFaults
  BY Fields, Constants DEF Restart, IInv
<1>2. session' = [session EXCEPT ![p] = Idle]
  BY <1>1, Fields DEF IInv
<1>3. Idle \in Process /\ Sound(Idle, Null, p)'
  BY DEF Idle, Process, Sound, Knows, Claiming, Beating, Ending
<1>. QED
  BY <1>1, <1>2, <1>3, WorkerReads DEF Commits

LEMMA TickKeeps ==
  ASSUME IInv, Tick
  PROVE  IInv'
<1>1. /\ now' = now + 1 /\ now' \in 0..MaxNow /\ now \in Nat
      /\ UNCHANGED <<leases, claims, head, session, told, faults>>
  BY Fields, Constants DEF Tick, IInv
<1>2. TypeOK /\ TypeOK' /\ now <= now'
  BY <1>1 DEF IInv, TypeOK
<1>3. Dated'
  BY <1>1, Fields DEF IInv, Dated
<1>4. ASSUME NEW q \in Session PROVE Sound(session[q], told[q], q)'
  <2>1. Respects(q) /\ Commits
    BY <1>1 DEF Respects, Owns, Commits
  <2>2. \A s \in Process, t \in Grant \cup {Null} : Sound(s, t, q) => Sound(s, t, q)'
    BY <1>2, <2>1, StaysSound
  <2>3. session[q] \in Process /\ told[q] \in Grant \cup {Null} /\ Sound(session[q], told[q], q)
    BY Fields DEF IInv
  <2>. QED
    BY <1>1, <2>2, <2>3
<1>. QED
  BY <1>2, <1>3, <1>4 DEF IInv

-----------------------------------------------------------------------------
(* Every step keeps the invariant.                                         *)
LEMMA NextKeeps == IInv /\ [Next]_vars => IInv'
<1>. SUFFICES ASSUME IInv, [Next]_vars PROVE IInv'
  OBVIOUS
<1>1. ASSUME NEW p \in Session, Work(p) PROVE IInv'
  BY <1>1, StartClaimKeeps, ReapKeeps, LatchKeeps, ReadBackKeeps, AuditKeeps, StartRenewKeeps,
     HeartbeatKeeps, ReadLiveKeeps, StartReleaseKeeps, DeleteKeeps, CloseKeeps, CommitKeeps
     DEF Work
<1>2. CASE UNCHANGED vars
  <2>1. UNCHANGED <<leases, claims, head, now, session, told, faults>>
    BY <1>2 DEF vars
  <2>2. TypeOK' /\ Dated'
    BY <2>1 DEF IInv, TypeOK, Dated
  <2>3. \A q \in Session : Sound(session[q], told[q], q)'
    BY <2>1 DEF IInv, Sound, Knows, Lasts, Owns
  <2>. QED
    BY <2>2, <2>3 DEF IInv
<1>. QED
  BY <1>1, <1>2, ThrowKeeps, RestartKeeps, TickKeeps DEF Next

LEMMA InvHolds == Spec => []IInv
BY InitHolds, NextKeeps, PTL DEF Spec

-----------------------------------------------------------------------------
(* Types, at all times; the ttl of every row positive (chk_ttl).           *)
THEOREM TypeCorrect == Spec => []TypeOK
<1>1. IInv => TypeOK
  BY DEF IInv
<1>. QED
  BY <1>1, InvHolds, PTL

(* No two workers were told they hold an item whose lease has not lapsed   *)
(* for either of them, wherever their statements, their failures and their *)
(* late releases fall.                                                     *)
THEOREM AtMostOneHolder == Spec => []OneHolder
<1>1. IInv => OneHolder
  <2>. SUFFICES ASSUME IInv, NEW p \in Session, NEW q \in Session,
                       told[p] # Null, told[q] # Null, told[p].item = told[q].item,
                       ~(told[p].lapses <= now), ~(told[q].lapses <= now)
                PROVE  p = q
    BY DEF OneHolder
  <2>1. now \in Nat /\ told[p].lapses \in Nat /\ told[q].lapses \in Nat
    BY Fields DEF IInv, Grant
  <2>2. Knows(told[p], p) /\ Knows(told[q], q)
    BY DEF IInv, Sound
  <2>3. leases[told[p].item].agent = p /\ leases[told[q].item].agent = q
    BY <2>1, <2>2 DEF Knows, Lasts, Owns
  <2>. QED
    BY <2>3
<1>. QED
  BY <1>1, InvHolds, PTL

(* A claim that was acknowledged is in the last commit, with its lease and *)
(* its open audit row, for as long as the lease lasts.                     *)
THEOREM AcknowledgedClaimsAreCommitted == Spec => []AcknowledgedIsCommitted
<1>1. IInv => AcknowledgedIsCommitted
  <2>. SUFFICES ASSUME IInv, NEW p \in Session, told[p] # Null, now < told[p].lapses
                PROVE  /\ head.leases[told[p].item] # Null
                       /\ head.leases[told[p].item].agent = p
                       /\ <<told[p].item, p>> \in head.claims
    BY DEF AcknowledgedIsCommitted
  <2>1. Knows(told[p], p)
    BY DEF IInv, Sound
  <2>. QED
    BY <2>1 DEF Knows, Owns
<1>. QED
  BY <1>1, InvHolds, PTL
=============================================================================
