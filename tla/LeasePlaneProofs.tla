--------------------------- MODULE LeasePlaneProofs ---------------------------
(***************************************************************************)
(* Theorems about LeasePlane, for any number of sessions, identities,      *)
(* items, referents, late requests and failures.                           *)
(*                                                                         *)
(* The argument.  The counter of an object only grows, and a token names   *)
(* one grant for good.  So a token somebody carries -- a session, a reply, *)
(* a request on its way, a sweep -- is either older than the object's, and *)
(* will be refused for ever, or it is the object's, and was given out with *)
(* the present grant.  Token and Evidence say so, Advances says what every *)
(* step does to the objects, and the rest is by cases on who acts.         *)
(***************************************************************************)
EXTENDS LeasePlane, FiniteSetTheorems, SequenceTheorems, TLAPS

LeaseState == [holder    : Agent \cup {Null},
               expiresAt : Nat \cup {Null},
               fencing   : 0..MaxFencing,
               referent  : Referent \cup {Null}]

Process == [item    : Item \cup {Null},
            fencing : 0..MaxFencing,
            walk    : Walk \cup {<<>>},
            call    : Request \cup {Null},
            reply   : Reply \cup {Null}]

Sweep == [phase    : {"rest", "probe", "reap"},
          fencing  : 0..MaxFencing,
          referent : Referent \cup {Null}]

-----------------------------------------------------------------------------
(* The inductive invariant.                                                *)

(* The token f of item i, if it is the current one, is session p's.        *)
Token(i, f, p) ==
  /\ f <= lease[i].fencing
  /\ f = lease[i].fencing => grantee[i] = p

(* Evidence that r is finished, collected under the token f of item i, is  *)
(* about the present grant if the token is.                                *)
Evidence(i, f, r) ==
  /\ f <= lease[i].fencing
  /\ f = lease[i].fencing => r \in finished[i]

(* A request on its way may be acted on only for the one who sent it.      *)
Genuine(m) ==
  /\ m.kind \in {"bind", "renew", "release"} => Token(m.item, m.fencing, m.from)
  /\ m.kind = "reap" => Evidence(m.item, m.fencing, m.referent)

(* Whatever process p with the local state s was told is about p itself.   *)
Told(s, p) ==
  /\ s.item # Null => Token(s.item, s.fencing, p)
  /\ s.call # Null => s.call.from = p /\ Genuine(s.call)
  /\ s.reply # Null /\ s.call.kind = "claim" /\ s.reply.ok
       => Token(s.call.item, s.reply.fencing, p)

Swept(i) ==
  /\ sweep[i].phase # "rest" =>
       sweep[i].referent # Null /\ sweep[i].fencing <= lease[i].fencing
  /\ sweep[i].phase = "reap" => Evidence(i, sweep[i].fencing, sweep[i].referent)

(* What is finished now was finished at some time during every grant.      *)
Seen == \A i \in Item, r \in Referent : Finished(r) => r \in finished[i]

Carried ==
  /\ \A p \in Session : Told(session[p], p)
  /\ \A m \in late : Genuine(m)
  /\ \A i \in Item : Swept(i)
  /\ Seen

IInv == TypeOK /\ IsFiniteSet(late) /\ Carried

-----------------------------------------------------------------------------
(* Types of the parts a step handles.                                      *)

LEMMA Constants ==
  /\ MaxFencing \in Nat /\ MaxLate \in Nat /\ MaxNow \in Nat /\ MaxFaults \in Nat
  /\ ClaimTtl \in Nat /\ BindTtl \in Nat
  /\ Null \notin Nat /\ Null \notin Session /\ Null \notin Item
  /\ Null \notin Referent /\ Null \notin Agent
  /\ \A p \in Session : AgentOf[p] \in Agent
BY PlaneAssumption DEF Agent

LEMMA Fields ==
  ASSUME TypeOK
  PROVE  /\ \A i \in Item : lease[i] \in LeaseState
         /\ \A p \in Session : session[p] \in Process
         /\ \A i \in Item : sweep[i] \in Sweep
BY DEF TypeOK, LeaseState, Process, Sweep

(* The rest of a walk is a walk, or empty.                                 *)
LEMMA WalkOn ==
  ASSUME NEW w \in Walk
  PROVE  /\ Head(w) \in Item
         /\ Tail(w) \in Walk \cup {<<>>}
<1>1. Cardinality(Item) \in Nat
  BY PlaneAssumption, FS_CardinalityType
<1>2. PICK n \in 1..Cardinality(Item) : w \in [1..n -> Item]
  BY DEF Walk
<1>3. n \in Nat /\ n >= 1 /\ n <= Cardinality(Item)
  BY <1>1, <1>2
<1>4. w \in Seq(Item) /\ Len(w) = n /\ DOMAIN w = 1..n
  BY <1>2, <1>3
<1>5. Head(w) = w[1] /\ w[1] \in Item
  BY <1>3, <1>4
<1>6. /\ Tail(w) \in Seq(Item) /\ Len(Tail(w)) = n - 1
      /\ \A k \in 1..(n - 1) : Tail(w)[k] = w[k + 1]
  BY <1>3, <1>4, HeadTailProperties
<1>7. CASE n = 1
  <2>1. Tail(w) = <<>>
    <3>1. Tail(w) \in Seq(Item) /\ Len(Tail(w)) = 0
      BY <1>6, <1>7
    <3>. QED
      BY <3>1, EmptySeq
  <2>. QED
    BY <1>5, <2>1
<1>8. CASE n # 1
  <2>1. n - 1 \in 1..Cardinality(Item)
    BY <1>1, <1>3, <1>8
  <2>0. Tail(w) \in [1..(n - 1) -> Item] /\ DOMAIN Tail(w) = 1..(n - 1)
    BY <1>6, LenProperties
  <2>2. \A j, k \in DOMAIN Tail(w) : j # k => Tail(w)[j] # Tail(w)[k]
    <3>. SUFFICES ASSUME NEW j \in 1..(n - 1), NEW k \in 1..(n - 1), j # k
                  PROVE  Tail(w)[j] # Tail(w)[k]
      BY <2>0
    <3>1. j + 1 \in 1..n /\ k + 1 \in 1..n /\ j + 1 # k + 1
      BY <1>3
    <3>2. w[j + 1] # w[k + 1]
      BY <1>4, <3>1 DEF Walk
    <3>. QED
      BY <1>6, <3>2
  <2>3. Tail(w) \in UNION {[1..m -> Item] : m \in 1..Cardinality(Item)}
    BY <2>0, <2>1
  <2>. QED
    BY <1>5, <2>2, <2>3 DEF Walk
<1>. QED
  BY <1>7, <1>8

LEMMA AskIsRequest ==
  ASSUME NEW p \in Session, NEW kind \in {"claim", "bind", "renew", "release"},
         NEW i \in Item, NEW f \in 0..MaxFencing, NEW r \in Referent \cup {Null}
  PROVE  /\ Ask(p, kind, i, f, r) \in Request
         /\ Ask(p, kind, i, f, r) =
              [kind |-> kind, from |-> p, agent |-> AgentOf[p], item |-> i,
               fencing |-> f, referent |-> r]
BY Constants DEF Ask, Request

LEMMA ReapRequestType ==
  ASSUME TypeOK, NEW i \in Item
  PROVE  /\ ReapRequest(i) \in Request
         /\ ReapRequest(i).kind = "reap" /\ ReapRequest(i).item = i
         /\ ReapRequest(i).fencing = sweep[i].fencing
         /\ ReapRequest(i).referent = sweep[i].referent
         /\ ReapRequest(i).from = Null
BY Fields DEF ReapRequest, Request, Sweep

-----------------------------------------------------------------------------
(* What an object decides.                                                 *)

(* Passing the gate means presenting the current token of a live lease.    *)
LEMMA GatePass ==
  ASSUME NEW s \in LeaseState, NEW a, NEW f, NEW t, NEW dead \in Reason
  PROVE  /\ HolderGate(s, a, f, t, dead) \in Reason \cup {"pass"}
         /\ HolderGate(s, a, f, t, dead) = "pass" =>
              IsLive(s, t) /\ s.holder = a /\ f = s.fencing
BY DEF HolderGate, Reason

(* What a decision d on request m may be: a refusal, which leaves the      *)
(* lease as it is; the grant of a lease that is not live, with the next    *)
(* token; or a change of the live lease whose token m presents.            *)
Refusal(d, s) == \E why \in Reason : d = Refuse(s, why)

Grant(d, s, m) ==
  /\ m.kind = "claim" /\ ~IsLive(s, now)
  /\ \E why \in Reason :
       d = Accept([holder |-> m.agent, expiresAt |-> now + ClaimTtl,
                   fencing |-> s.fencing + 1, referent |-> Null], why)

Change(d, s, m) ==
  /\ m.kind # "claim" /\ IsLive(s, now) /\ m.fencing = s.fencing
  /\ m.kind = "reap" => m.referent = s.referent
  /\ \E why \in Reason, after \in LeaseState :
       after.fencing = s.fencing /\ d = Accept(after, why)

LEMMA DecisionCases ==
  ASSUME NEW m \in Request, lease[m.item] \in LeaseState, now \in Nat
  PROVE  LET s == lease[m.item]
             d == Decision(m)
         IN  Refusal(d, s) \/ Grant(d, s, m) \/ Change(d, s, m)
<1>. DEFINE s == lease[m.item]
            d == Decision(m)
<1>0. /\ m.kind \in {"claim", "bind", "renew", "release", "reap"}
      /\ m.referent \in Referent \cup {Null}
      /\ s \in LeaseState
  BY DEF Request
<1>1. CASE m.kind = "claim"
  <2>1. d = DecideClaim(s, m.agent, ClaimTtl, now)
    BY <1>1 DEF Decision
  <2>. HIDE DEF s, d
  <2>2. CASE IsLive(s, now)
    <3>1. d = Refuse(s, IF s.holder = m.agent THEN "already-held-by-you" ELSE "held")
      BY <2>1, <2>2 DEF DecideClaim
    <3>. QED
      BY <3>1 DEF Refusal, Reason, s, d
  <2>3. CASE ~IsLive(s, now)
    <3>1. d = Accept([holder |-> m.agent, expiresAt |-> now + ClaimTtl,
                      fencing |-> s.fencing + 1, referent |-> Null],
                     IF s.holder = Null THEN "free" ELSE "expired")
      BY <2>1, <2>3 DEF DecideClaim
    <3>. QED
      BY <1>1, <2>3, <3>1 DEF Grant, Reason, s, d
  <2>. QED
    BY <2>2, <2>3
<1>2. CASE m.kind = "bind"
  <2>. DEFINE gate == HolderGate(s, m.agent, m.fencing, now, "expired")
              after == [s EXCEPT !.referent = m.referent, !.expiresAt = now + BindTtl]
  <2>1. d = IF gate # "pass" THEN Refuse(s, gate) ELSE Accept(after, "bound")
    BY <1>2 DEF Decision, DecideBind
  <2>2. now + BindTtl \in Nat
    BY Constants
  <2>3. after \in LeaseState /\ after.fencing = s.fencing
    <3>. HIDE DEF s
    <3>. QED
      BY <1>0, <2>2 DEF LeaseState
  <2>4. gate \in Reason \cup {"pass"} /\ (gate = "pass" => IsLive(s, now) /\ m.fencing = s.fencing)
    BY <1>0, GatePass DEF Reason
  <2>. HIDE DEF s, d, gate, after
  <2>. QED
    BY <1>2, <2>1, <2>3, <2>4 DEF s, d, Refusal, Change, Reason
<1>3. CASE m.kind = "renew"
  <2>. DEFINE gate == HolderGate(s, m.agent, m.fencing, now, "expired")
              after == [s EXCEPT !.expiresAt = now + ClaimTtl]
  <2>1. d = IF gate # "pass" THEN Refuse(s, gate) ELSE Accept(after, "renewed")
    BY <1>3 DEF Decision, DecideRenew
  <2>2. now + ClaimTtl \in Nat
    BY Constants
  <2>3. after \in LeaseState /\ after.fencing = s.fencing
    <3>. HIDE DEF s
    <3>. QED
      BY <1>0, <2>2 DEF LeaseState
  <2>4. gate \in Reason \cup {"pass"} /\ (gate = "pass" => IsLive(s, now) /\ m.fencing = s.fencing)
    BY <1>0, GatePass DEF Reason
  <2>. HIDE DEF s, d, gate, after
  <2>. QED
    BY <1>3, <2>1, <2>3, <2>4 DEF s, d, Refusal, Change, Reason
<1>4. Freed(s) \in LeaseState /\ Freed(s).fencing = s.fencing
  <2>. HIDE DEF s
  <2>. QED
    BY <1>0 DEF Freed, EmptyState, LeaseState
<1>5. CASE m.kind = "release"
  <2>. DEFINE gate == HolderGate(s, m.agent, m.fencing, now, "not-held")
  <2>1. d = IF gate # "pass" THEN Refuse(s, gate) ELSE Accept(Freed(s), "released")
    BY <1>5 DEF Decision, DecideRelease
  <2>2. gate \in Reason \cup {"pass"} /\ (gate = "pass" => IsLive(s, now) /\ m.fencing = s.fencing)
    BY <1>0, GatePass DEF Reason
  <2>. HIDE DEF s, d, gate
  <2>. QED
    BY <1>4, <1>5, <2>1, <2>2 DEF s, d, Refusal, Change, Reason
<1>6. CASE m.kind = "reap"
  <2>. DEFINE fits == IsLive(s, now) /\ m.fencing = s.fencing /\ s.referent = m.referent
  <2>1. d = DecideReap(s, m.fencing, m.referent, now)
    BY <1>6 DEF Decision
  <2>. HIDE DEF s, d
  <2>2. Refusal(d, s) \/ (fits /\ d = Accept(Freed(s), "reaped"))
    BY <2>1 DEF DecideReap, Refusal, Reason
  <2>. QED
    BY <1>4, <1>6, <2>2 DEF s, d, Change, Reason
<1>. QED
  BY <1>0, <1>1, <1>2, <1>3, <1>5, <1>6

(* The same, field by field.                                               *)
LEMMA DecisionFields ==
  ASSUME NEW m \in Request, lease[m.item] \in LeaseState, now \in Nat
  PROVE  /\ Decision(m).ok \in BOOLEAN /\ Decision(m).reason \in Reason
         /\ ~Decision(m).ok => Decision(m).state = lease[m.item]
         /\ Decision(m).ok /\ m.kind = "claim" =>
              /\ ~IsLive(lease[m.item], now)
              /\ Decision(m).state =
                   [holder |-> m.agent, expiresAt |-> now + ClaimTtl,
                    fencing |-> lease[m.item].fencing + 1, referent |-> Null]
         /\ Decision(m).ok /\ m.kind # "claim" =>
              /\ IsLive(lease[m.item], now) /\ m.fencing = lease[m.item].fencing
              /\ m.kind = "reap" => m.referent = lease[m.item].referent
              /\ Decision(m).state \in LeaseState
              /\ Decision(m).state.fencing = lease[m.item].fencing
<1>. DEFINE s == lease[m.item]
            d == Decision(m)
<1>1. Refusal(d, s) \/ Grant(d, s, m) \/ Change(d, s, m)
  BY DecisionCases
<1>. HIDE DEF s, d
<1>2. CASE Refusal(d, s)
  <2>1. ~d.ok /\ d.ok \in BOOLEAN /\ d.reason \in Reason /\ d.state = s
    BY <1>2 DEF Refusal, Refuse
  <2>. QED
    BY <2>1 DEF s, d
<1>3. CASE Grant(d, s, m)
  <2>1. /\ d.ok \in BOOLEAN /\ d.reason \in Reason /\ m.kind = "claim" /\ ~IsLive(s, now) /\ d.ok
        /\ d.state = [holder |-> m.agent, expiresAt |-> now + ClaimTtl,
                      fencing |-> s.fencing + 1, referent |-> Null]
    BY <1>3 DEF Grant, Accept
  <2>. QED
    BY <2>1 DEF s, d
<1>4. CASE Change(d, s, m)
  <2>1. /\ d.ok \in BOOLEAN /\ d.reason \in Reason /\ m.kind # "claim" /\ d.ok
        /\ IsLive(s, now) /\ m.fencing = s.fencing
        /\ m.kind = "reap" => m.referent = s.referent
        /\ d.state \in LeaseState /\ d.state.fencing = s.fencing
    BY <1>4 DEF Change, Accept
  <2>. QED
    BY <2>1 DEF s, d
<1>. QED
  BY <1>1, <1>2, <1>3, <1>4

(* No step takes a token back; one that leaves it also leaves its grantee  *)
(* and whatever was finished in its time.                                  *)
Advances ==
  \A i \in Item :
    \/ lease'[i].fencing > lease[i].fencing
    \/ /\ lease'[i].fencing = lease[i].fencing
       /\ grantee'[i] = grantee[i]
       /\ finished[i] \subseteq finished'[i]

LEMMA ServeStep ==
  ASSUME TypeOK, Seen, NEW m \in Request, Serve(m)
  PROVE  /\ lease' \in [Item -> LeaseState]
         /\ grantee' \in [Item -> Session \cup {Null}]
         /\ finished' \in [Item -> SUBSET Referent]
         /\ Advances
         /\ Seen'
         /\ Decision(m).ok \in BOOLEAN /\ Decision(m).reason \in Reason
         /\ Decision(m).state.fencing \in 0..MaxFencing
         /\ lease'[m.item] = Decision(m).state
         /\ m.kind = "claim" /\ Decision(m).ok =>
              Decision(m).state.fencing = lease'[m.item].fencing /\ grantee'[m.item] = m.from
<1>. DEFINE i == m.item
            d == Decision(m)
<1>1. i \in Item /\ m.from \in Session \cup {Null} /\ m.agent \in Agent \cup {Null}
  BY DEF Request
<1>2. /\ lease \in [Item -> LeaseState] /\ lease[i] \in LeaseState /\ now \in Nat
      /\ now' = now /\ pr' = pr
  BY <1>1, Fields, Constants DEF TypeOK, Serve, LeaseState
<1>3. /\ d.state.fencing <= MaxFencing
      /\ lease' = [lease EXCEPT ![i] = d.state]
      /\ grantee' = IF m.kind = "claim" /\ d.ok THEN [grantee EXCEPT ![i] = m.from] ELSE grantee
      /\ finished' = IF m.kind = "claim" /\ d.ok
                     THEN [finished EXCEPT ![i] = {r \in Referent : Finished(r)}] ELSE finished
  BY DEF Serve
<1>4. /\ d.ok \in BOOLEAN /\ d.reason \in Reason
      /\ ~d.ok => d.state = lease[i]
      /\ d.ok /\ m.kind = "claim" =>
           d.state = [holder |-> m.agent, expiresAt |-> now + ClaimTtl,
                      fencing |-> lease[i].fencing + 1, referent |-> Null]
      /\ d.ok /\ m.kind # "claim" => d.state \in LeaseState /\ d.state.fencing = lease[i].fencing
  BY <1>2, DecisionFields
<1>. HIDE DEF i, d
<1>5. d.state \in LeaseState
  <2>1. lease[i].fencing \in Nat
    BY <1>2, Constants DEF LeaseState
  <2>. QED
    BY <1>1, <1>2, <1>3, <1>4, <2>1, Constants DEF LeaseState
<1>6. lease' \in [Item -> LeaseState] /\ lease'[i] = d.state
  BY <1>1, <1>2, <1>3, <1>5
<1>7. grantee' \in [Item -> Session \cup {Null}] /\ finished' \in [Item -> SUBSET Referent]
  BY <1>1, <1>3 DEF TypeOK
<1>8. Advances
  <2>. SUFFICES ASSUME NEW j \in Item
                PROVE  \/ lease'[j].fencing > lease[j].fencing
                       \/ /\ lease'[j].fencing = lease[j].fencing
                          /\ grantee'[j] = grantee[j] /\ finished[j] \subseteq finished'[j]
    BY DEF Advances
  <2>0. lease[j].fencing \in Nat
    BY <1>2, Constants DEF LeaseState
  <2>1. CASE j # i
    BY <1>1, <1>2, <1>3, <2>1 DEF TypeOK
  <2>2. CASE j = i /\ m.kind = "claim" /\ d.ok
    BY <1>4, <1>6, <2>0, <2>2
  <2>3. CASE j = i /\ ~(m.kind = "claim" /\ d.ok)
    BY <1>3, <1>4, <1>6, <2>3
  <2>. QED
    BY <2>1, <2>2, <2>3
<1>9. Seen'
  <2>1. \A r : Finished(r)' <=> Finished(r)
    BY <1>2 DEF Finished
  <2>. QED
    BY <1>1, <1>3, <2>1 DEF Seen, TypeOK
<1>10. d.state.fencing \in 0..MaxFencing
  BY <1>5 DEF LeaseState
<1>11. m.kind = "claim" /\ d.ok => d.state.fencing = lease'[i].fencing /\ grantee'[i] = m.from
  BY <1>1, <1>3, <1>6 DEF TypeOK
<1>. QED
  BY <1>4, <1>6, <1>7, <1>8, <1>9, <1>10, <1>11 DEF i, d

-----------------------------------------------------------------------------
(* What was true of a token stays true while the objects advance.          *)
LEMMA Onward ==
  ASSUME TypeOK, Advances, lease' \in [Item -> LeaseState]
  PROVE  /\ \A i \in Item, f \in Nat, p \in Session : Token(i, f, p) => Token(i, f, p)'
         /\ \A i \in Item, f \in Nat, r \in Referent \cup {Null} :
              Evidence(i, f, r) => Evidence(i, f, r)'
         /\ \A m \in Request : Genuine(m) => Genuine(m)'
         /\ \A i \in Item, f \in Nat : f <= lease[i].fencing => f <= lease'[i].fencing
<1>1. \A i \in Item : lease[i].fencing \in Nat /\ lease'[i].fencing \in Nat
  BY Fields, Constants DEF LeaseState
<1>2. ASSUME NEW i \in Item, NEW f \in Nat, f <= lease[i].fencing
      PROVE  /\ f <= lease'[i].fencing
             /\ f = lease'[i].fencing =>
                  /\ f = lease[i].fencing /\ grantee'[i] = grantee[i]
                  /\ finished[i] \subseteq finished'[i]
  BY <1>1, <1>2 DEF Advances
<1>3. ASSUME NEW i \in Item, NEW f \in Nat, NEW p, Token(i, f, p)
      PROVE  Token(i, f, p)'
  BY <1>2, <1>3 DEF Token
<1>4. ASSUME NEW i \in Item, NEW f \in Nat, NEW r, Evidence(i, f, r)
      PROVE  Evidence(i, f, r)'
  BY <1>2, <1>4 DEF Evidence
<1>5. ASSUME NEW m \in Request, Genuine(m)
      PROVE  Genuine(m)'
  <2>1. m.item \in Item /\ m.fencing \in Nat
    BY Constants DEF Request
  <2>. QED
    BY <1>3, <1>4, <1>5, <2>1 DEF Genuine
<1>. QED
  BY <1>2, <1>3, <1>4, <1>5

(* So does everything a process was told, in whatever state x it is.       *)
LEMMA StillTold ==
  ASSUME TypeOK, Advances, lease' \in [Item -> LeaseState],
         NEW x \in Process, x.reply # Null => x.call # Null,
         NEW p \in Session, Told(x, p)
  PROVE  Told(x, p)'
<1>1. /\ x.fencing \in Nat
      /\ x.item # Null => x.item \in Item
      /\ x.call # Null => x.call \in Request /\ x.call.item \in Item
      /\ x.reply # Null => x.call # Null /\ x.reply.fencing \in Nat
  BY Constants DEF Process, Reply, Request
<1>2. x.item # Null => Token(x.item, x.fencing, p)'
  BY <1>1, Onward DEF Told
<1>3. x.call # Null => x.call.from = p /\ Genuine(x.call)'
  BY <1>1, Onward DEF Told
<1>4. x.reply # Null /\ x.call.kind = "claim" /\ x.reply.ok
        => Token(x.call.item, x.reply.fencing, p)'
  BY <1>1, Onward DEF Told
<1>. QED
  BY <1>2, <1>3, <1>4 DEF Told

(* The parts of the invariant a step leaves alone but for the objects.     *)
LEMMA Untouched ==
  ASSUME IInv, Advances, lease' \in [Item -> LeaseState]
  PROVE  /\ \A p \in Session : session'[p] = session[p] => Told(session[p], p)'
         /\ \A m \in late : Genuine(m)'
         /\ \A i \in Item : sweep'[i] = sweep[i] => Swept(i)'
<1>1. ASSUME NEW p \in Session, session'[p] = session[p]
      PROVE  Told(session[p], p)'
  <2>1. session[p] \in Process /\ (session[p].reply # Null => session[p].call # Null)
    BY Fields DEF IInv, TypeOK
  <2>2. \A x \in Process : (x.reply # Null => x.call # Null) /\ Told(x, p) => Told(x, p)'
    BY StillTold DEF IInv
  <2>. QED
    BY <1>1, <2>1, <2>2 DEF IInv, Carried
<1>2. \A m \in late : Genuine(m)'
  BY Onward DEF IInv, TypeOK, Carried
<1>3. ASSUME NEW i \in Item, sweep'[i] = sweep[i]
      PROVE  Swept(i)'
  <2>1. sweep[i].fencing \in Nat /\ sweep[i].referent \in Referent \cup {Null}
    BY Fields, Constants DEF IInv, Sweep
  <2>2. Swept(i)
    BY DEF IInv, Carried
  <2>. QED
    BY <1>3, <2>1, <2>2, Onward DEF IInv, Swept
<1>. QED
  BY <1>1, <1>2, <1>3

(* Most steps leave the objects alone.                                     *)
LEMMA Quiet ==
  ASSUME TypeOK, UNCHANGED <<lease, grantee, finished>>
  PROVE  Advances /\ lease' \in [Item -> LeaseState]
BY DEF TypeOK, Advances, LeaseState

-----------------------------------------------------------------------------
(* The invariant holds initially.                                          *)
LEMMA InitHolds == Init => IInv
<1>. SUFFICES ASSUME Init PROVE IInv
  OBVIOUS
<1>1. TypeOK
  <2>1. EmptyState \in LeaseState
    BY Constants DEF EmptyState, LeaseState
  <2>2. Idle \in Process /\ Idle.reply = Null
    BY Constants DEF Idle, Process
  <2>3. Rest \in Sweep
    BY Constants DEF Rest, Sweep
  <2>4. lease \in [Item -> LeaseState] /\ session \in [Session -> Process]
        /\ sweep \in [Item -> Sweep] /\ \A p \in Session : session[p].reply = Null
    BY <2>1, <2>2, <2>3 DEF Init
  <2>5. late \subseteq Request /\ Cardinality(late) <= MaxLate
    BY FS_EmptySet, Constants DEF Init
  <2>6. /\ now \in 0..MaxNow /\ faults \in 0..MaxFaults
        /\ pr \in [Referent -> {"open", "closed", "merged"}]
        /\ grantee \in [Item -> Session \cup {Null}] /\ finished \in [Item -> SUBSET Referent]
    BY Constants DEF Init
  <2>. QED
    BY <2>4, <2>5, <2>6 DEF TypeOK, LeaseState, Process, Sweep
<1>2. IsFiniteSet(late)
  BY FS_EmptySet DEF Init
<1>3. ASSUME NEW p \in Session PROVE Told(session[p], p)
  <2>1. session[p] = Idle
    BY DEF Init
  <2>. QED
    BY <2>1 DEF Idle, Told
<1>4. ASSUME NEW i \in Item PROVE Swept(i)
  <2>1. sweep[i] = Rest
    BY DEF Init
  <2>. QED
    BY <2>1 DEF Rest, Swept
<1>5. Seen
  BY DEF Init, Seen, Finished
<1>. QED
  BY <1>1, <1>2, <1>3, <1>4, <1>5 DEF Init, IInv, Carried

-----------------------------------------------------------------------------
(* The steps of the sessions.                                              *)

(* A process may move to any honest state: the objects are not involved.   *)
LEMMA SessionMoves ==
  ASSUME IInv, NEW p \in Session, NEW x \in Process,
         session' = [session EXCEPT ![p] = x],
         x.reply # Null => x.call # Null, Told(x, p),
         late' \subseteq Request, IsFiniteSet(late'), Cardinality(late') <= MaxLate,
         \A m \in late' : Genuine(m),
         UNCHANGED <<lease, now, pr, sweep, faults, grantee, finished>>
  PROVE  IInv'
<1>1. Advances /\ lease' \in [Item -> LeaseState]
  BY Quiet DEF IInv
<1>2. session \in [Session -> Process]
  BY DEF IInv, TypeOK, Process
<1>3. session' \in [Session -> Process] /\ session'[p] = x
      /\ \A q \in Session \ {p} : session'[q] = session[q]
  BY <1>2
<1>4. TypeOK'
  <2>1. \A q \in Session : session'[q].reply # Null => session'[q].call # Null
    BY <1>3 DEF IInv, TypeOK
  <2>. QED
    BY <1>3, <2>1 DEF IInv, TypeOK, Process
<1>5. ASSUME NEW q \in Session PROVE Told(session[q], q)'
  <2>1. CASE q = p
    <3>1. Told(x, p)'
      BY <1>1, StillTold DEF IInv
    <3>. QED
      BY <1>3, <2>1, <3>1
  <2>2. CASE q # p
    BY <1>1, <1>3, <2>2, Untouched
  <2>. QED
    BY <2>1, <2>2
<1>6. \A m \in late' : Genuine(m)'
  BY <1>1, Onward DEF IInv
<1>7. \A i \in Item : Swept(i)'
  BY <1>1, Untouched
<1>8. Seen'
  BY DEF IInv, Carried, Seen, Finished
<1>. QED
  BY <1>4, <1>5, <1>6, <1>7, <1>8 DEF IInv, Carried

(* What an abandoned request leaves behind is genuine.                     *)
LEMMA Abandoned ==
  ASSUME IInv, NEW m \in Request, Genuine(m), Abandon(m)
  PROVE  /\ late' \subseteq Request /\ IsFiniteSet(late') /\ Cardinality(late') <= MaxLate
         /\ \A n \in late' : Genuine(n)
<1>1. /\ late \subseteq Request /\ IsFiniteSet(late) /\ Cardinality(late) <= MaxLate
      /\ \A n \in late : Genuine(n)
  BY DEF IInv, TypeOK, Carried
<1>2. IsFiniteSet(late \cup {m})
  BY <1>1, FS_AddElement
<1>. QED
  BY <1>1, <1>2 DEF Abandon

LEMMA LateStays ==
  ASSUME IInv, late' = late
  PROVE  /\ late' \subseteq Request /\ IsFiniteSet(late') /\ Cardinality(late') <= MaxLate
         /\ \A n \in late' : Genuine(n)
BY DEF IInv, TypeOK, Carried

LEMMA IdleHolds ==
  /\ Idle \in Process /\ Idle.item = Null /\ Idle.call = Null /\ Idle.reply = Null
  /\ \A p : Told(Idle, p)
BY Constants DEF Idle, Process, Told

(* A claim is sent for the first item of a walk, by whoever holds nothing. *)
LEMMA Claiming ==
  ASSUME IInv, NEW p \in Session, NEW w \in Walk, NEW y \in Process, NEW x,
         y.item = Null, y.reply = Null,
         x = [y EXCEPT !.call = Ask(p, "claim", Head(w), 0, Null), !.walk = Tail(w)]
  PROVE  x \in Process /\ x.reply = Null /\ Told(x, p)
<1>1. Head(w) \in Item /\ Tail(w) \in Walk \cup {<<>>}
  BY WalkOn
<1>2. 0 \in 0..MaxFencing
  BY Constants
<1>. DEFINE m == Ask(p, "claim", Head(w), 0, Null)
            rest == Tail(w)
<1>3. m \in Request /\ m.kind = "claim" /\ m.from = p
  BY <1>1, <1>2, AskIsRequest
<1>4. rest \in Walk \cup {<<>>} /\ x = [y EXCEPT !.call = m, !.walk = rest]
  BY <1>1
<1>. HIDE DEF m, rest
<1>5. x \in Process /\ x.item = Null /\ x.call = m /\ x.reply = Null
  BY <1>3, <1>4 DEF Process
<1>6. Genuine(m)
  BY <1>3 DEF Genuine
<1>. QED
  BY <1>3, <1>5, <1>6 DEF Told

LEMMA StartClaimKeeps ==
  ASSUME IInv, NEW p \in Session, NEW w \in Walk, StartClaim(p, w)
  PROVE  IInv'
<1>. DEFINE x == [session[p] EXCEPT !.call = Ask(p, "claim", Head(w), 0, Null), !.walk = Tail(w)]
<1>1. session[p] \in Process /\ session[p].item = Null /\ session[p].call = Null
      /\ session[p].reply = Null
  BY Fields DEF IInv, TypeOK, StartClaim
<1>4. session' = [session EXCEPT ![p] = x]
  BY <1>1 DEF StartClaim, Calls, Process, IInv, TypeOK
<1>. HIDE DEF x
<1>5. x \in Process /\ x.reply = Null /\ Told(x, p)
  BY <1>1, Claiming DEF x
<1>. QED
  BY <1>4, <1>5, LateStays, SessionMoves DEF StartClaim

LEMMA StartVerbKeeps ==
  ASSUME IInv, NEW p \in Session, NEW kind \in {"bind", "renew", "release"},
         NEW r \in Referent \cup {Null}, StartVerb(p, kind, r)
  PROVE  IInv'
<1>. DEFINE m == Ask(p, kind, session[p].item, session[p].fencing, r)
            x == [session[p] EXCEPT !.call = m, !.walk = <<>>]
<1>1. session[p] \in Process /\ session[p].item \in Item /\ session[p].call = Null
      /\ session[p].reply = Null /\ session[p].fencing \in 0..MaxFencing
  BY Fields DEF IInv, TypeOK, StartVerb, Process
<1>2. /\ m \in Request /\ m.kind = kind /\ m.from = p
      /\ m.item = session[p].item /\ m.fencing = session[p].fencing
  BY <1>1, AskIsRequest
<1>3. Token(session[p].item, session[p].fencing, p)
  BY <1>1, Constants DEF IInv, Carried, Told
<1>4. Genuine(m)
  BY <1>2, <1>3 DEF Genuine
<1>5. session' = [session EXCEPT ![p] = x]
  BY <1>1 DEF StartVerb, Calls, Process, IInv, TypeOK
<1>. HIDE DEF m
<1>6. x \in Process /\ x.reply = Null /\ x.call = m
      /\ x.item = session[p].item /\ x.fencing = session[p].fencing
  BY <1>1, <1>2 DEF Process
<1>. HIDE DEF x
<1>7. Told(x, p)
  BY <1>2, <1>3, <1>4, <1>6 DEF Told
<1>. QED
  BY <1>5, <1>6, <1>7, LateStays, SessionMoves DEF StartVerb

LEMMA ReceiveKeeps ==
  ASSUME IInv, NEW p \in Session, Receive(p)
  PROVE  IInv'
<1>. DEFINE s == session[p]
            m == s.call
<1>1. /\ s \in Process /\ s.reply \in Reply /\ m \in Request /\ Told(s, p)
      /\ s.reply # Null /\ s.call # Null
  BY Fields DEF IInv, TypeOK, Receive, Process, Carried
<1>. DEFINE granted == [Idle EXCEPT !.item = m.item, !.fencing = s.reply.fencing]
            onward == [Idle EXCEPT !.call = Ask(p, "claim", Head(s.walk), 0, Null),
                                   !.walk = Tail(s.walk)]
            settled == [s EXCEPT !.call = Null, !.reply = Null]
            after == IF m.kind = "claim" /\ s.reply.ok THEN granted
                     ELSE IF m.kind = "claim" /\ s.walk # <<>> THEN onward
                     ELSE IF m.kind = "claim" \/ (m.kind = "release" /\ s.reply.ok) THEN Idle
                     ELSE settled
<1>2. session' = [session EXCEPT ![p] = after]
  BY DEF Receive
<1>3. CASE m.kind = "claim" /\ s.reply.ok
  <2>1. m.item \in Item /\ s.reply.fencing \in 0..MaxFencing
    BY <1>1 DEF Request, Reply
  <2>2. granted \in Process /\ granted.item = m.item /\ granted.fencing = s.reply.fencing
        /\ granted.call = Null /\ granted.reply = Null
    BY <2>1 DEF Idle, Process
  <2>3. Token(m.item, s.reply.fencing, p)
    BY <1>1, <1>3 DEF Told
  <2>4. session' = [session EXCEPT ![p] = granted]
    BY <1>2, <1>3
  <2>. HIDE DEF granted, s, m
  <2>5. Told(granted, p)
    BY <2>2, <2>3 DEF Told
  <2>. QED
    BY <2>2, <2>4, <2>5, LateStays, SessionMoves DEF Receive
<1>4. CASE m.kind = "claim" /\ ~s.reply.ok /\ s.walk # <<>>
  <2>1. s.walk \in Walk
    BY <1>1, <1>4 DEF Process
  <2>3. session' = [session EXCEPT ![p] = onward]
    BY <1>2, <1>4
  <2>4. onward \in Process /\ onward.reply = Null /\ Told(onward, p)
    BY <2>1, IdleHolds, Claiming
  <2>. HIDE DEF onward, s, m
  <2>. QED
    BY <2>3, <2>4, LateStays, SessionMoves DEF Receive
<1>5. CASE /\ m.kind = "claim" => ~s.reply.ok /\ s.walk = <<>>
           /\ m.kind = "claim" \/ (m.kind = "release" /\ s.reply.ok)
  <2>1. session' = [session EXCEPT ![p] = Idle]
    BY <1>2, <1>5
  <2>. QED
    BY <2>1, IdleHolds, LateStays, SessionMoves DEF Receive
<1>6. CASE m.kind # "claim" /\ ~(m.kind = "release" /\ s.reply.ok)
  <2>1. session' = [session EXCEPT ![p] = settled]
    BY <1>2, <1>6
  <2>2. settled \in Process /\ settled.item = s.item /\ settled.fencing = s.fencing
        /\ settled.call = Null /\ settled.reply = Null
    BY <1>1 DEF Process
  <2>. HIDE DEF settled
  <2>3. Told(settled, p)
    BY <1>1, <2>2 DEF Told
  <2>. QED
    BY <2>1, <2>2, <2>3, LateStays, SessionMoves DEF Receive
<1>. QED
  BY <1>3, <1>4, <1>5, <1>6

LEMMA TransportFailureKeeps ==
  ASSUME IInv, NEW p \in Session, TransportFailure(p)
  PROVE  IInv'
<1>. DEFINE s == session[p]
            x == [Idle EXCEPT !.item = s.item, !.fencing = s.fencing]
<1>1. s \in Process /\ Told(s, p) /\ s.call # Null
  BY Fields DEF IInv, Carried, TransportFailure
<1>2. s.call \in Request /\ Genuine(s.call)
  BY <1>1 DEF Process, Told
<1>3. session' = [session EXCEPT ![p] = x]
  BY DEF TransportFailure
<1>4. /\ x \in Process /\ x.item = s.item /\ x.fencing = s.fencing
      /\ x.call = Null /\ x.reply = Null
  BY <1>1, Constants DEF Idle, Process
<1>5. late' = late \/ Abandon(s.call)
  BY DEF TransportFailure
<1>6. /\ late' \subseteq Request /\ IsFiniteSet(late') /\ Cardinality(late') <= MaxLate
      /\ \A n \in late' : Genuine(n)
  BY <1>2, <1>5, LateStays, Abandoned
<1>. HIDE DEF x
<1>7. Told(x, p)
  BY <1>1, <1>4 DEF Told
<1>. QED
  BY <1>3, <1>4, <1>6, <1>7, SessionMoves DEF TransportFailure

LEMMA ForgetKeeps ==
  ASSUME IInv, NEW p \in Session, Forget(p)
  PROVE  IInv'
BY IdleHolds, LateStays, SessionMoves DEF Forget

-----------------------------------------------------------------------------
(* The steps of the objects.                                               *)

(* Serving a genuine request carries everything nobody else touches.       *)
LEMMA Served ==
  ASSUME IInv, NEW m \in Request, Serve(m)
  PROVE  /\ Advances /\ lease' \in [Item -> LeaseState]
         /\ grantee' \in [Item -> Session \cup {Null}]
         /\ finished' \in [Item -> SUBSET Referent]
         /\ UNCHANGED <<now, pr, faults>>
         /\ Seen'
BY ServeStep DEF IInv, Carried, Serve

(* The answer to a claim that is granted is about the one who asked.       *)
LEMMA Answered ==
  ASSUME TypeOK, Advances, lease' \in [Item -> LeaseState],
         NEW p \in Session, NEW y \in Process, y.call # Null, y.reply = Null, Told(y, p),
         NEW r \in Reply, NEW x, x = [y EXCEPT !.reply = r],
         y.call.kind = "claim" /\ r.ok =>
           r.fencing = lease'[y.call.item].fencing /\ grantee'[y.call.item] = y.call.from
  PROVE  x \in Process /\ x.call # Null /\ Told(x, p)'
<1>1. /\ x \in Process /\ x.call = y.call /\ x.reply = r
      /\ x.item = y.item /\ x.fencing = y.fencing
  BY DEF Process
<1>2. Told(y, p)'
  BY StillTold
<1>3. r.fencing \in Nat
  BY Constants DEF Reply
<1>4. y.call.kind = "claim" /\ r.ok => Token(y.call.item, r.fencing, p)'
  BY <1>3 DEF Token, Told
<1>. QED
  BY <1>1, <1>2, <1>4 DEF Told

LEMMA ServeCallKeeps ==
  ASSUME IInv, NEW p \in Session, ServeCall(p)
  PROVE  IInv'
<1>1. PICK y : y = session[p]
  OBVIOUS
<1>2. PICK r : r = [ok |-> Decision(y.call).ok, reason |-> Decision(y.call).reason,
                    fencing |-> Decision(y.call).state.fencing]
  OBVIOUS
<1>3. PICK x : x = [y EXCEPT !.reply = r]
  OBVIOUS
<1>4. /\ y \in Process /\ y.call \in Request /\ y.call # Null /\ y.reply = Null
      /\ Told(y, p) /\ Serve(y.call)
  BY <1>1, Fields DEF IInv, Carried, ServeCall, Process
<1>5. session' = [session EXCEPT ![p] = x]
  BY <1>1, <1>2, <1>3 DEF ServeCall
<1>6. /\ Advances /\ lease' \in [Item -> LeaseState]
      /\ grantee' \in [Item -> Session \cup {Null}]
      /\ finished' \in [Item -> SUBSET Referent]
      /\ UNCHANGED <<now, pr, faults, late, sweep>>
      /\ Seen'
  BY <1>4, Served DEF ServeCall
<1>7. /\ r \in Reply
      /\ y.call.kind = "claim" /\ r.ok =>
           r.fencing = lease'[y.call.item].fencing /\ grantee'[y.call.item] = y.call.from
  BY <1>2, <1>4, ServeStep DEF IInv, Carried, Reply
<1>8. x \in Process /\ x.call # Null /\ Told(x, p)'
  BY <1>3, <1>4, <1>6, <1>7, Answered DEF IInv
<1>9. session \in [Session -> Process]
  BY DEF IInv, TypeOK, Process
<1>10. session' \in [Session -> Process] /\ session'[p] = x
       /\ \A q \in Session \ {p} : session'[q] = session[q]
  BY <1>5, <1>8, <1>9
<1>11. TypeOK'
  <2>1. \A q \in Session : session'[q].reply # Null => session'[q].call # Null
    BY <1>8, <1>10 DEF IInv, TypeOK
  <2>. QED
    BY <1>6, <1>10, <2>1 DEF IInv, TypeOK, Process, LeaseState
<1>12. ASSUME NEW q \in Session PROVE Told(session[q], q)'
  <2>1. CASE q = p
    BY <1>8, <1>10, <2>1
  <2>2. CASE q # p
    BY <1>6, <1>10, <2>2, Untouched
  <2>. QED
    BY <2>1, <2>2
<1>13. \A n \in late' : Genuine(n)'
  BY <1>6, Untouched
<1>14. \A i \in Item : Swept(i)'
  BY <1>6, Untouched
<1>. QED
  BY <1>6, <1>11, <1>12, <1>13, <1>14 DEF IInv, Carried

LEMMA ServeLateKeeps ==
  ASSUME IInv, NEW m \in late, ServeLate(m)
  PROVE  IInv'
<1>1. m \in Request /\ Serve(m) /\ UNCHANGED <<session, sweep>> /\ late' = late \ {m}
  BY DEF IInv, TypeOK, ServeLate
<1>2. /\ Advances /\ lease' \in [Item -> LeaseState]
      /\ grantee' \in [Item -> Session \cup {Null}]
      /\ finished' \in [Item -> SUBSET Referent]
      /\ UNCHANGED <<now, pr, faults>>
      /\ Seen'
  BY <1>1, Served
<1>3. IsFiniteSet(late') /\ late' \subseteq late /\ Cardinality(late') <= MaxLate
  <2>1. IsFiniteSet(late) /\ Cardinality(late) <= MaxLate
    BY DEF IInv, TypeOK
  <2>2. late' \subseteq late
    BY <1>1
  <2>3. IsFiniteSet(late') /\ Cardinality(late') <= Cardinality(late)
    BY <2>1, <2>2, FS_Subset
  <2>4. Cardinality(late') \in Nat /\ Cardinality(late) \in Nat
    BY <2>1, <2>3, FS_CardinalityType
  <2>. QED
    BY <2>1, <2>2, <2>3, <2>4, Constants
<1>4. TypeOK'
  BY <1>1, <1>2, <1>3 DEF IInv, TypeOK, LeaseState
<1>5. \A p \in Session : Told(session[p], p)'
  BY <1>1, <1>2, Untouched
<1>6. \A n \in late' : Genuine(n)'
  BY <1>2, <1>3, Untouched
<1>7. \A i \in Item : Swept(i)'
  BY <1>1, <1>2, Untouched
<1>. QED
  BY <1>2, <1>3, <1>4, <1>5, <1>6, <1>7 DEF IInv, Carried

-----------------------------------------------------------------------------
(* The steps of the reaper.                                                *)

(* A sweep may move to any state that rests on the object or on evidence.  *)
LEMMA SweepMoves ==
  ASSUME IInv, NEW i \in Item, NEW x \in Sweep,
         sweep' = [sweep EXCEPT ![i] = x],
         Advances, lease' \in [Item -> LeaseState],
         grantee' \in [Item -> Session \cup {Null}],
         finished' \in [Item -> SUBSET Referent],
         x.phase # "rest" => x.referent # Null /\ x.fencing <= lease'[i].fencing,
         x.phase = "reap" => Evidence(i, x.fencing, x.referent)',
         Seen',
         late' \subseteq Request, IsFiniteSet(late'), Cardinality(late') <= MaxLate,
         \A m \in late' : Genuine(m)',
         faults' \in 0..MaxFaults,
         UNCHANGED <<now, session, pr>>
  PROVE  IInv'
<1>1. sweep \in [Item -> Sweep]
  BY DEF IInv, TypeOK, Sweep
<1>2. sweep' \in [Item -> Sweep] /\ sweep'[i] = x
      /\ \A j \in Item \ {i} : sweep'[j] = sweep[j]
  BY <1>1
<1>3. TypeOK'
  BY <1>2 DEF IInv, TypeOK, LeaseState, Sweep
<1>4. \A p \in Session : Told(session[p], p)'
  BY Untouched
<1>5. ASSUME NEW j \in Item PROVE Swept(j)'
  <2>1. CASE j = i
    BY <1>2, <2>1 DEF Swept
  <2>2. CASE j # i
    BY <1>2, <2>2, Untouched
  <2>. QED
    BY <2>1, <2>2
<1>. QED
  BY <1>3, <1>4, <1>5 DEF IInv, Carried

LEMMA RestHolds == Rest \in Sweep /\ Rest.phase = "rest"
BY Constants DEF Rest, Sweep

(* What a sweep starts from when it leaves the objects and `late' alone.   *)
LEMMA SweepQuiet ==
  ASSUME IInv, UNCHANGED <<lease, pr, grantee, finished>>
  PROVE  /\ Advances /\ lease' \in [Item -> LeaseState]
         /\ grantee' \in [Item -> Session \cup {Null}]
         /\ finished' \in [Item -> SUBSET Referent]
         /\ Seen'
         /\ \A m \in Request : Genuine(m) => Genuine(m)'
         /\ late' = late => /\ late' \subseteq Request /\ IsFiniteSet(late')
                            /\ Cardinality(late') <= MaxLate
                            /\ \A m \in late' : Genuine(m)'
<1>1. Advances /\ lease' \in [Item -> LeaseState]
  BY Quiet DEF IInv
<1>2. Seen'
  BY DEF IInv, Carried, Seen, Finished
<1>3. \A m \in Request : Genuine(m) => Genuine(m)'
  BY <1>1, Onward DEF IInv
<1>. QED
  BY <1>1, <1>2, <1>3 DEF IInv, TypeOK, Carried

LEMMA PollKeeps ==
  ASSUME IInv, NEW i \in Item, Poll(i)
  PROVE  IInv'
<1>. DEFINE x == [phase |-> "probe", fencing |-> lease[i].fencing,
                  referent |-> lease[i].referent]
<1>1. /\ sweep' = [sweep EXCEPT ![i] = x] /\ lease[i].referent # Null
      /\ UNCHANGED <<lease, now, session, late, pr, faults, grantee, finished>>
  BY DEF Poll, Describe
<1>2. lease[i] \in LeaseState
  BY Fields DEF IInv
<1>3. /\ x \in Sweep /\ x.phase = "probe" /\ x.referent # Null /\ x.fencing <= lease'[i].fencing
  BY <1>1, <1>2, Constants DEF Sweep, LeaseState
<1>. HIDE DEF x
<1>. QED
  BY <1>1, <1>3, SweepQuiet, SweepMoves DEF IInv, TypeOK

(* A finished referent was finished during the grant the sweep asked about, *)
(* unless that grant is over.                                              *)
LEMMA ProbeKeeps ==
  ASSUME IInv, NEW i \in Item, Probe(i)
  PROVE  IInv'
<1>1. PICK y : y = sweep[i]
  OBVIOUS
<1>2. y \in Sweep /\ y.referent \in Referent /\ y.fencing <= lease[i].fencing
  BY <1>1, Fields DEF IInv, Carried, Probe, Swept, Sweep
<1>3. UNCHANGED <<lease, now, session, late, pr, faults, grantee, finished>>
  BY DEF Probe
<1>4. CASE Finished(y.referent)
  <2>1. PICK x : x = [y EXCEPT !.phase = "reap"]
    OBVIOUS
  <2>2. sweep' = [sweep EXCEPT ![i] = x]
    BY <1>1, <1>4, <2>1 DEF Probe, IInv, TypeOK
  <2>3. x \in Sweep /\ x.fencing = y.fencing /\ x.referent = y.referent
    BY <1>2, <2>1 DEF Sweep
  <2>4. x.referent # Null /\ x.fencing <= lease'[i].fencing /\ x.referent \in finished'[i]
    BY <1>2, <1>3, <1>4, <2>3, Constants DEF IInv, Carried, Seen
  <2>5. Evidence(i, x.fencing, x.referent)'
    BY <2>4 DEF Evidence
  <2>. QED
    BY <1>3, <2>2, <2>3, <2>4, <2>5, SweepQuiet, SweepMoves DEF IInv, TypeOK
<1>5. CASE ~Finished(y.referent)
  <2>1. sweep' = [sweep EXCEPT ![i] = Rest]
    BY <1>1, <1>5 DEF Probe, IInv, TypeOK
  <2>. QED
    BY <1>3, <2>1, RestHolds, SweepQuiet, SweepMoves DEF IInv, TypeOK
<1>. QED
  BY <1>4, <1>5

LEMMA ReapIsGenuine ==
  ASSUME IInv, NEW i \in Item, sweep[i].phase = "reap"
  PROVE  ReapRequest(i) \in Request /\ Genuine(ReapRequest(i))
BY ReapRequestType DEF IInv, Carried, Swept, Genuine

LEMMA ServeReapKeeps ==
  ASSUME IInv, NEW i \in Item, ServeReap(i)
  PROVE  IInv'
<1>1. ReapRequest(i) \in Request /\ Serve(ReapRequest(i))
  BY ReapIsGenuine DEF ServeReap
<1>2. sweep' = [sweep EXCEPT ![i] = Rest] /\ UNCHANGED <<session, late>>
  BY DEF ServeReap
<1>3. /\ Advances /\ lease' \in [Item -> LeaseState]
      /\ grantee' \in [Item -> Session \cup {Null}]
      /\ finished' \in [Item -> SUBSET Referent]
      /\ UNCHANGED <<now, pr, faults>>
      /\ Seen'
  BY <1>1, Served
<1>4. \A n \in late' : Genuine(n)'
  BY <1>2, <1>3, Untouched
<1>. QED
  BY <1>2, <1>3, <1>4, RestHolds, SweepMoves DEF IInv, TypeOK

LEMMA SweepFailsKeeps ==
  ASSUME IInv, NEW i \in Item, SweepFails(i)
  PROVE  IInv'
<1>1. /\ sweep' = [sweep EXCEPT ![i] = Rest] /\ faults' \in 0..MaxFaults
      /\ UNCHANGED <<lease, now, session, pr, grantee, finished>>
  BY Constants DEF SweepFails, IInv, TypeOK
<1>2. CASE late' = late
  BY <1>1, <1>2, RestHolds, SweepQuiet, SweepMoves
<1>3. CASE sweep[i].phase = "reap" /\ Abandon(ReapRequest(i))
  <2>1. /\ late' \subseteq Request /\ IsFiniteSet(late') /\ Cardinality(late') <= MaxLate
        /\ \A n \in late' : Genuine(n)
    BY <1>3, ReapIsGenuine, Abandoned
  <2>2. \A n \in late' : Genuine(n)'
    BY <1>1, <2>1, SweepQuiet
  <2>. QED
    BY <1>1, <2>1, <2>2, RestHolds, SweepQuiet, SweepMoves
<1>. QED
  BY <1>2, <1>3 DEF SweepFails

-----------------------------------------------------------------------------
(* The steps of the world.                                                 *)

(* Nobody who carries a token is touched by a step of the world.           *)
LEMMA WorldTurns ==
  ASSUME IInv, TypeOK', Seen', Advances, UNCHANGED <<lease, session, late, sweep>>
  PROVE  IInv'
<1>1. lease' \in [Item -> LeaseState]
  BY DEF IInv, TypeOK, LeaseState
<1>2. /\ \A p \in Session : Told(session[p], p)'
      /\ \A m \in late' : Genuine(m)'
      /\ \A i \in Item : Swept(i)'
  BY <1>1, Untouched
<1>. QED
  BY <1>2 DEF IInv, Carried

LEMMA CloseKeeps ==
  ASSUME IInv, NEW r \in Referent, NEW how \in {"closed", "merged"}, Close(r, how)
  PROVE  IInv'
<1>1. finished' = [i \in Item |-> finished[i] \cup {r}] /\ pr' = [pr EXCEPT ![r] = how]
      /\ UNCHANGED <<lease, now, session, late, sweep, faults, grantee>>
  BY DEF Close
<1>2. TypeOK'
  BY <1>1 DEF IInv, TypeOK
<1>3. Advances
  BY <1>1 DEF Advances
<1>4. Seen'
  BY <1>1 DEF IInv, TypeOK, Carried, Seen, Finished
<1>. QED
  BY <1>1, <1>2, <1>3, <1>4, WorldTurns

LEMMA ReopenKeeps ==
  ASSUME IInv, NEW r \in Referent, Reopen(r)
  PROVE  IInv'
<1>1. pr' = [pr EXCEPT ![r] = "open"]
      /\ UNCHANGED <<lease, now, session, late, sweep, faults, grantee, finished>>
  BY DEF Reopen
<1>2. TypeOK'
  BY <1>1 DEF IInv, TypeOK
<1>3. Advances
  BY <1>1 DEF Advances
<1>4. Seen'
  BY <1>1 DEF IInv, TypeOK, Carried, Seen, Finished
<1>. QED
  BY <1>1, <1>2, <1>3, <1>4, WorldTurns

LEMMA TickKeeps ==
  ASSUME IInv, Tick
  PROVE  IInv'
<1>1. now' \in 0..MaxNow
      /\ UNCHANGED <<lease, session, late, pr, sweep, faults, grantee, finished>>
  BY Constants DEF Tick, IInv, TypeOK
<1>2. TypeOK'
  BY <1>1 DEF IInv, TypeOK
<1>3. Advances
  BY <1>1 DEF Advances
<1>4. Seen'
  BY <1>1 DEF IInv, Carried, Seen, Finished
<1>. QED
  BY <1>1, <1>2, <1>3, <1>4, WorldTurns

-----------------------------------------------------------------------------
(* Every step keeps the invariant.                                         *)
LEMMA NextKeeps == IInv /\ [Next]_vars => IInv'
<1>. SUFFICES ASSUME IInv, [Next]_vars PROVE IInv'
  OBVIOUS
<1>1. ASSUME NEW p \in Session, SessionStep(p) PROVE IInv'
  <2>1. Verbs \subseteq {"bind", "renew", "release"}
    BY PlaneAssumption
  <2>. QED
    BY <1>1, <2>1, StartClaimKeeps, StartVerbKeeps, ReceiveKeeps, TransportFailureKeeps,
       ForgetKeeps DEF SessionStep
<1>2. ASSUME NEW i \in Item, Poll(i) \/ Probe(i) \/ ServeReap(i) \/ SweepFails(i)
      PROVE  IInv'
  BY <1>2, PollKeeps, ProbeKeeps, ServeReapKeeps, SweepFailsKeeps
<1>3. ASSUME NEW r \in Referent, Close(r, "closed") \/ Close(r, "merged") \/ Reopen(r)
      PROVE  IInv'
  BY <1>3, CloseKeeps, ReopenKeeps
<1>4. CASE UNCHANGED vars
  <2>1. UNCHANGED <<lease, now, session, late, pr, sweep, faults, grantee, finished>>
    BY <1>4 DEF vars
  <2>2. TypeOK' /\ Seen' /\ Advances
    BY <2>1 DEF IInv, TypeOK, Carried, Seen, Finished, Advances
  <2>. QED
    BY <2>1, <2>2, WorldTurns
<1>. QED
  BY <1>1, <1>2, <1>3, <1>4, ServeCallKeeps, ServeLateKeeps, TickKeeps DEF Next

LEMMA InvHolds == Spec => []IInv
BY InitHolds, NextKeeps, PTL DEF Spec

-----------------------------------------------------------------------------
(* Types, at all times.                                                    *)
THEOREM TypeCorrect == Spec => []TypeOK
<1>1. IInv => TypeOK
  BY DEF IInv
<1>. QED
  BY <1>1, InvHolds, PTL

(* Of all the sessions that think they hold an item, the object obeys at   *)
(* most one, and it is the one the present grant was made to -- even when  *)
(* they share an identity, so that the holder gate cannot tell them apart. *)
THEOREM AtMostOneObeyed == Spec => []OneObeyed
<1>1. IInv => OneObeyed
  <2>. SUFFICES ASSUME IInv, NEW p \in Session, session[p].item # Null,
                       HolderGate(lease[session[p].item], AgentOf[p],
                                  session[p].fencing, now, "dead") = "pass"
                PROVE  grantee[session[p].item] = p
    BY DEF OneObeyed
  <2>1. Token(session[p].item, session[p].fencing, p)
    BY DEF IInv, Carried, Told
  <2>2. session[p].fencing = lease[session[p].item].fencing
    BY DEF HolderGate
  <2>. QED
    BY <2>1, <2>2 DEF Token
<1>. QED
  BY <1>1, InvHolds, PTL

(* A genuine request that changes a live lease was entitled to, and what   *)
(* it asked for was honoured.                                              *)
LEMMA HonouredIsEntitled ==
  ASSUME IInv, NEW m \in Request, Genuine(m), Serve(m),
         NEW i \in Item, IsLive(lease[i], now), lease'[i] # lease[i]
  PROVE  /\ Entitled(m, i)
         /\ lease'[i] = Decision(m).state
         /\ m.kind = "reap" => m.referent = lease[i].referent /\ m.referent \in finished[i]
<1>1. lease \in [Item -> LeaseState] /\ now \in Nat /\ m.item \in Item
  BY Constants DEF IInv, TypeOK, LeaseState, Request
<1>2. lease' = [lease EXCEPT ![m.item] = Decision(m).state]
  BY DEF Serve
<1>3. m.item = i /\ lease'[i] = Decision(m).state
  BY <1>1, <1>2
<1>4. Decision(m).ok /\ m.kind # "claim"
  BY <1>1, <1>3, DecisionFields
<1>5. m.fencing = lease[i].fencing /\ (m.kind = "reap" => m.referent = lease[i].referent)
  BY <1>1, <1>3, <1>4, DecisionFields
<1>6. m.kind \in {"bind", "renew", "release"} => m.from = grantee[i]
  BY <1>3, <1>5 DEF Genuine, Token
<1>7. m.kind = "reap" => m.referent \in finished[i]
  BY <1>3, <1>5 DEF Genuine, Evidence
<1>. QED
  BY <1>3, <1>4, <1>5, <1>6, <1>7 DEF Entitled, Request

(* Whoever changes an object serves a genuine request that was in flight.  *)
LEMMA ChangeIsServed ==
  ASSUME IInv, [Next]_vars, NEW i \in Item, lease'[i] # lease[i]
  PROVE  \E m \in InFlight : m \in Request /\ Genuine(m) /\ Serve(m)
<1>1. ASSUME NEW p \in Session, ServeCall(p)
      PROVE  \E m \in InFlight : m \in Request /\ Genuine(m) /\ Serve(m)
  BY <1>1, Fields DEF IInv, Carried, Told, Process, ServeCall, InFlight
<1>2. ASSUME NEW m \in late, ServeLate(m)
      PROVE  m \in InFlight /\ m \in Request /\ Genuine(m) /\ Serve(m)
  BY <1>2 DEF IInv, TypeOK, Carried, ServeLate, InFlight
<1>3. ASSUME NEW j \in Item, ServeReap(j)
      PROVE  \E m \in InFlight : m \in Request /\ Genuine(m) /\ Serve(m)
  BY <1>3, ReapIsGenuine DEF ServeReap, InFlight
<1>4. ASSUME NEW p \in Session, SessionStep(p)
      PROVE  lease' = lease
  BY <1>4 DEF SessionStep, StartClaim, StartVerb, Receive, TransportFailure, Forget
<1>5. ASSUME NEW j \in Item, Poll(j) \/ Probe(j) \/ SweepFails(j)
      PROVE  lease' = lease
  BY <1>5 DEF Poll, Probe, SweepFails
<1>6. ASSUME NEW r \in Referent, Close(r, "closed") \/ Close(r, "merged") \/ Reopen(r)
      PROVE  lease' = lease
  BY <1>6 DEF Close, Reopen
<1>7. Tick \/ UNCHANGED vars => lease' = lease
  BY DEF Tick, vars
<1>. QED
  BY <1>1, <1>2, <1>3, <1>4, <1>5, <1>6, <1>7 DEF Next

(* No zombie, late or foreign request disturbs a live grant: a step that   *)
(* changes one serves a request of the very session it was made to, or a   *)
(* reap whose referent was finished at some time during that grant.        *)
THEOREM LiveGrantsAreUndisturbed == Spec => LiveGrantUndisturbed
<1>1. ASSUME IInv, [Next]_vars, NEW i \in Item, IsLive(lease[i], now), lease'[i] # lease[i]
      PROVE  \E m \in InFlight : Entitled(m, i) /\ lease'[i] = Decision(m).state
  <2>1. PICK m \in InFlight : m \in Request /\ Genuine(m) /\ Serve(m)
    BY <1>1, ChangeIsServed
  <2>. QED
    BY <1>1, <2>1, HonouredIsEntitled
<1>2. IInv /\ [Next]_vars =>
        [\A i \in Item :
           IsLive(lease[i], now) /\ lease'[i] # lease[i] =>
             \E m \in InFlight : Entitled(m, i) /\ lease'[i] = Decision(m).state]_vars
  BY <1>1
<1>. QED
  BY <1>2, InvHolds, PTL DEF Spec, LiveGrantUndisturbed

(* The reaper, on time or late, frees a lease only on evidence about that  *)
(* very grant: its referent was finished at some time during it.           *)
THEOREM CollectionsRestOnEvidence == Spec => CollectedOnEvidence
<1>1. ASSUME IInv, NEW i \in Item, Collects(i)
      PROVE  lease[i].referent \in finished[i]
  <2>1. PICK m \in Request : m.kind = "reap" /\ Genuine(m) /\ Serve(m)
    <3>1. CASE ServeReap(i)
      BY <1>1, <3>1, ReapIsGenuine, ReapRequestType DEF ServeReap, IInv
    <3>2. CASE \E m \in late : m.kind = "reap" /\ m.item = i /\ ServeLate(m)
      BY <1>1, <3>2 DEF IInv, TypeOK, Carried, ServeLate
    <3>. QED
      BY <1>1, <3>1, <3>2 DEF Collects
  <2>2. IsLive(lease[i], now) /\ lease'[i] # lease[i]
    BY <1>1, <2>1 DEF Collects, Serve
  <2>. QED
    BY <1>1, <2>1, <2>2, HonouredIsEntitled
<1>2. IInv /\ [Next]_vars =>
        [\A i \in Item : Collects(i) => lease[i].referent \in finished[i]]_vars
  BY <1>1
<1>. QED
  BY <1>2, InvHolds, PTL DEF Spec, CollectedOnEvidence
=============================================================================
