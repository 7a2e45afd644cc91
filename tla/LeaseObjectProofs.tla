-------------------------- MODULE LeaseObjectProofs --------------------------
(***************************************************************************)
(* Theorems about LeaseObject, for every set of agents, referents and      *)
(* durations and every bound.                                              *)
(*                                                                         *)
(* The argument.  HistoryMatchesLease makes `fencing' the index of a       *)
(* record, so the folds of historyStep, which rewrite every record whose   *)
(* token matches, rewrite at most the last one.  StepCases uses this once  *)
(* to reduce the requests to four kinds of step -- a grant, an extension   *)
(* of the live grant, an end of the live grant, a tick of the clock -- and *)
(* every later proof is by those four cases.                               *)
(***************************************************************************)
EXTENDS ExpiryWatch, TLAPS

(* The inductive invariant: the three invariants need one another.  That   *)
(* intervals stay disjoint rests on a stored expiry bounding the open      *)
(* record (HistoryMatchesLease), and both need the types of the fields.    *)
IInv == TypeOK /\ HistoryMatchesLease /\ IntervalsDisjoint

-----------------------------------------------------------------------------
(* Facts about sequences.                                                  *)

(* A function on 1..n is a sequence of length n.                           *)
LEMMA SequenceOfFunction ==
  ASSUME NEW S, NEW n \in Nat, NEW f \in [1..n -> S]
  PROVE  f \in Seq(S) /\ Len(f) = n /\ DOMAIN f = 1..n
OBVIOUS

(* g is h with its last element replaced by e.                             *)
LastReplaced(h, g, e) ==
  /\ g \in Seq(Record)
  /\ Len(g) = Len(h)
  /\ \A i \in 1..Len(h) : g[i] = IF i = Len(h) THEN e ELSE h[i]

(* In a history whose i-th record has token i, a fold that rewrites the    *)
(* records whose token is the length of the history rewrites the last one. *)
LEMMA FoldRewritesLast ==
  ASSUME NEW h \in Seq(Record), NEW e \in Record, NEW g,
         \A i \in 1..Len(h) : h[i].fencing = i,
         g = [i \in DOMAIN h |-> IF h[i].fencing = Len(h) THEN e ELSE h[i]]
  PROVE  LastReplaced(h, g, e)
<1>1. /\ Len(h) \in Nat
      /\ DOMAIN h = 1..Len(h)
      /\ \A i \in 1..Len(h) : h[i] \in Record
  OBVIOUS
<1>2. g \in [1..Len(h) -> Record]
  BY <1>1
<1>3. g \in Seq(Record) /\ Len(g) = Len(h)
  BY <1>1, <1>2, SequenceOfFunction
<1>. QED
  BY <1>1, <1>3 DEF LastReplaced

-----------------------------------------------------------------------------
(* The four kinds of step.                                                 *)

LastRecord == history[Len(history)]

GrantStep(a, ms, why) ==
  /\ ~IsLive(lease, now)
  /\ lease' = [holder |-> a, expiresAt |-> now + ms,
               fencing |-> lease.fencing + 1, referent |-> Null]
  /\ now' = now
  /\ history' \in Seq(Record)
  /\ Len(history') = Len(history) + 1
  /\ history'[Len(history) + 1] =
       [fencing |-> lease.fencing + 1, agent |-> a, grantedAt |-> now,
        expiresAt |-> now + ms, releasedAt |-> Null, status |-> "active",
        reason |-> why, referent |-> Null]
  /\ \A i \in 1..Len(history) :
       history'[i] =
         IF history[i].status = "active"
         THEN [history[i] EXCEPT !.status = "expired",
                                 !.releasedAt = history[i].expiresAt]
         ELSE history[i]

ExtendStep(ms, ref) ==
  /\ IsLive(lease, now)
  /\ ref \in {lease.referent} \cup Referent
  /\ lease' = [lease EXCEPT !.expiresAt = now + ms, !.referent = ref]
  /\ now' = now
  /\ LastReplaced(history, history',
       [LastRecord EXCEPT !.expiresAt = now + ms, !.referent = ref])

(* The ends that somebody asks for; the other one is the clock's.          *)
Asked == {"released", "completed", "reaped"}

EndStep(st) ==
  /\ IsLive(lease, now)
  /\ st = "reaped" => lease.referent # Null
  /\ lease' = Freed(lease)
  /\ now' = now
  /\ LastReplaced(history, history',
       [LastRecord EXCEPT !.status = st, !.releasedAt = now])

AnyStep ==
  \/ \E a \in Agent, ms \in Nat, why \in {"free", "expired"} : GrantStep(a, ms, why)
  \/ \E ms \in Nat, ref \in Referent \cup {Null} : ExtendStep(ms, ref)
  \/ \E st \in Asked : EndStep(st)
  \/ Tick
  \/ UNCHANGED vars

(* While the lease is live the last record is the open record of its grant. *)
LEMMA LiveRecord ==
  ASSUME TypeOK, HistoryMatchesLease, IsLive(lease, now)
  PROVE  /\ lease.fencing = Len(history)
         /\ Len(history) \in 1..Len(history)
         /\ lease.expiresAt \in Nat
         /\ now < lease.expiresAt
         /\ lease.holder \in Agent
         /\ LastRecord \in Record
         /\ LastRecord.fencing = lease.fencing
         /\ LastRecord.status = "active"
         /\ LastRecord.releasedAt = Null
         /\ LastRecord.agent = lease.holder
         /\ LastRecord.expiresAt = lease.expiresAt
         /\ LastRecord.referent = lease.referent
<1>1. lease.holder # Null /\ now < lease.expiresAt
  BY DEF IsLive
<1>2. /\ Len(history) \in Nat
      /\ Len(history) = lease.fencing
      /\ lease.fencing > 0
      /\ lease.expiresAt \in Nat
      /\ lease.holder \in Agent
  BY <1>1 DEF HistoryMatchesLease, TypeOK, LeaseState
<1>3. LastRecord \in Record
  BY <1>2 DEF TypeOK, LastRecord
<1>. QED
  BY <1>1, <1>2, <1>3 DEF HistoryMatchesLease, LastRecord

(* A claim on a lease that is not live appends the record of its grant and *)
(* closes whatever record was still open.                                  *)
LEMMA ClaimStep ==
  ASSUME NEW a \in Agent, NEW ms \in Nat, TypeOK, HistoryMatchesLease,
         Claim(a, ms), ~IsLive(lease, now)
  PROVE  \E why \in {"free", "expired"} : GrantStep(a, ms, why)
<1>. DEFINE why == IF lease.holder = Null THEN "free" ELSE "expired"
            d == DecideClaim(lease, a, ms, now)
            closed == CloseLapsed(history, lease)
            new == [fencing |-> lease.fencing + 1, agent |-> a,
                    grantedAt |-> now, expiresAt |-> now + ms,
                    releasedAt |-> Null, status |-> "active",
                    reason |-> why, referent |-> Null]
<1>1. /\ d.ok
      /\ d.reason = why
      /\ d.state = [holder |-> a, expiresAt |-> now + ms,
                    fencing |-> lease.fencing + 1, referent |-> Null]
  BY DEF DecideClaim, Accept
<1>2. /\ now \in Nat
      /\ lease.fencing = Len(history)
      /\ Len(history) \in Nat
      /\ DOMAIN history = 1..Len(history)
      /\ \A i \in 1..Len(history) : history[i] \in Record
  BY DEF TypeOK, HistoryMatchesLease
<1>3. new \in Record
  BY <1>2 DEF Record, Status
<1>4. closed \in [1..Len(history) -> Record]
  <2>. SUFFICES ASSUME NEW i \in 1..Len(history)
                PROVE  closed[i] \in Record
    BY <1>2 DEF CloseLapsed
  <2>. QED
    BY <1>2 DEF CloseLapsed, Record, Status, Terminal
<1>5. closed \in Seq(Record) /\ Len(closed) = Len(history)
  BY <1>2, <1>4, SequenceOfFunction
<1>6. \A i \in 1..Len(history) :
        closed[i] = IF history[i].status = "active"
                    THEN [history[i] EXCEPT !.status = "expired",
                                            !.releasedAt = history[i].expiresAt]
                    ELSE history[i]
  BY <1>2 DEF CloseLapsed, HistoryMatchesLease
<1>7. lease' = d.state /\ history' = Append(closed, new) /\ now' = now
  BY <1>1 DEF Claim, Apply, RecordGrant
<1>8. /\ history' \in Seq(Record)
      /\ Len(history') = Len(history) + 1
      /\ history'[Len(history) + 1] = new
      /\ \A i \in 1..Len(history) : history'[i] = closed[i]
  BY <1>3, <1>5, <1>7
<1>9. lease' = [holder |-> a, expiresAt |-> now + ms,
               fencing |-> lease.fencing + 1, referent |-> Null]
  BY <1>1, <1>7
<1>10. \A i \in 1..Len(history) :
         history'[i] = IF history[i].status = "active"
                       THEN [history[i] EXCEPT !.status = "expired",
                                               !.releasedAt = history[i].expiresAt]
                       ELSE history[i]
  BY <1>6, <1>8
<1>11. history'[Len(history) + 1] =
         [fencing |-> lease.fencing + 1, agent |-> a, grantedAt |-> now,
          expiresAt |-> now + ms, releasedAt |-> Null, status |-> "active",
          reason |-> why, referent |-> Null]
  BY <1>8
<1>. HIDE DEF new, closed, d, why
<1>12. GrantStep(a, ms, why)
  BY <1>7, <1>8, <1>9, <1>10, <1>11 DEF GrantStep
<1>13. why \in {"free", "expired"}
  BY DEF why
<1>. QED
  BY <1>12, <1>13

(* An honoured renew extends the live grant and keeps its referent.        *)
LEMMA RenewStep ==
  ASSUME NEW a \in Agent, NEW f \in Nat, NEW ms \in Nat,
         TypeOK, HistoryMatchesLease, Renew(a, f, ms)
  PROVE  ExtendStep(ms, lease.referent) \/ UNCHANGED vars
<1>. DEFINE gate == HolderGate(lease, a, f, now, "expired")
            after == [lease EXCEPT !.expiresAt = now + ms]
<1>1. CASE gate # "pass"
  BY <1>1 DEF Renew, Apply, DecideRenew, Refuse, vars
<1>2. CASE gate = "pass"
  <2>1. IsLive(lease, now)
    BY <1>2 DEF HolderGate
  <2>2. lease' = after /\ history' = RecordRenew(history, after) /\ now' = now
    BY <1>2 DEF Renew, Apply, DecideRenew, Accept
  <2>. DEFINE e == [LastRecord EXCEPT !.expiresAt = now + ms]
  <2>3. /\ lease \in LeaseState
        /\ LastRecord \in Record
        /\ now + ms \in Nat
        /\ lease.fencing = Len(history)
        /\ LastRecord.referent = lease.referent
    BY <2>1, LiveRecord DEF TypeOK
  <2>4. /\ after.fencing = Len(history)
        /\ after.expiresAt = now + ms
        /\ e \in Record
    BY <2>3 DEF LeaseState, Record
  <2>5. history' = [i \in DOMAIN history |->
                      IF history[i].fencing = Len(history) THEN e ELSE history[i]]
    <3>1. \A i \in DOMAIN history :
            history[i].fencing = Len(history) => history[i] = LastRecord
      BY DEF HistoryMatchesLease, TypeOK, LastRecord
    <3>. QED
      BY <2>2, <2>4, <3>1 DEF RecordRenew
  <2>6. LastReplaced(history, history', e)
    BY <2>4, <2>5, FoldRewritesLast DEF HistoryMatchesLease, TypeOK
  <2>7. after = [lease EXCEPT !.expiresAt = now + ms, !.referent = lease.referent]
    BY <2>3 DEF LeaseState
  <2>8. e = [LastRecord EXCEPT !.expiresAt = now + ms, !.referent = lease.referent]
    BY <2>3 DEF Record
  <2>. QED
    BY <2>1, <2>2, <2>6, <2>7, <2>8 DEF ExtendStep
<1>. QED
  BY <1>1, <1>2

(* An honoured bind extends the live grant and replaces its referent.      *)
LEMMA BindStep ==
  ASSUME NEW a \in Agent, NEW f \in Nat, NEW ms \in Nat, NEW r \in Referent,
         TypeOK, HistoryMatchesLease, Bind(a, f, ms, r)
  PROVE  ExtendStep(ms, r) \/ UNCHANGED vars
<1>. DEFINE gate == HolderGate(lease, a, f, now, "expired")
            after == [lease EXCEPT !.referent = r, !.expiresAt = now + ms]
<1>1. CASE gate # "pass"
  BY <1>1 DEF Bind, Apply, DecideBind, Refuse, vars
<1>2. CASE gate = "pass"
  <2>1. IsLive(lease, now)
    BY <1>2 DEF HolderGate
  <2>2. lease' = after /\ history' = RecordBind(history, after) /\ now' = now
    BY <1>2 DEF Bind, Apply, DecideBind, Accept
  <2>. DEFINE e == [LastRecord EXCEPT !.expiresAt = now + ms, !.referent = r]
  <2>3. /\ lease \in LeaseState
        /\ LastRecord \in Record
        /\ now + ms \in Nat
        /\ lease.fencing = Len(history)
    BY <2>1, LiveRecord DEF TypeOK
  <2>4. /\ after.fencing = Len(history)
        /\ after.expiresAt = now + ms
        /\ after.referent = r
        /\ e \in Record
    BY <2>3 DEF LeaseState, Record
  <2>5. history' = [i \in DOMAIN history |->
                      IF history[i].fencing = Len(history) THEN e ELSE history[i]]
    <3>1. \A i \in DOMAIN history :
            history[i].fencing = Len(history) => history[i] = LastRecord
      BY DEF HistoryMatchesLease, TypeOK, LastRecord
    <3>. QED
      BY <2>2, <2>4, <3>1 DEF RecordBind
  <2>6. LastReplaced(history, history', e)
    BY <2>4, <2>5, FoldRewritesLast DEF HistoryMatchesLease, TypeOK
  <2>7. after = [lease EXCEPT !.expiresAt = now + ms, !.referent = r]
    BY <2>3 DEF LeaseState
  <2>. QED
    BY <2>1, <2>2, <2>6, <2>7 DEF ExtendStep
<1>. QED
  BY <1>1, <1>2

(* Closing the record of the live grant is what release and reap share.    *)
LEMMA CloseStep ==
  ASSUME NEW st \in Asked, TypeOK, HistoryMatchesLease, IsLive(lease, now),
         st = "reaped" => lease.referent # Null,
         lease' = Freed(lease), now' = now,
         history' = RecordClose(history, lease, st, now)
  PROVE  EndStep(st)
<1>. DEFINE e == [LastRecord EXCEPT !.status = st, !.releasedAt = now]
<1>1. LastRecord \in Record /\ now \in Nat /\ lease.fencing = Len(history)
  BY LiveRecord DEF TypeOK
<1>2. e \in Record
  BY <1>1 DEF Record, Status, Terminal, Asked
<1>3. history' = [i \in DOMAIN history |->
                    IF history[i].fencing = Len(history) THEN e ELSE history[i]]
  <2>1. \A i \in DOMAIN history :
          history[i].fencing = Len(history) => history[i] = LastRecord
    BY DEF HistoryMatchesLease, TypeOK, LastRecord
  <2>. QED
    BY <1>1, <2>1 DEF RecordClose
<1>4. LastReplaced(history, history', e)
  BY <1>2, <1>3, FoldRewritesLast DEF HistoryMatchesLease, TypeOK
<1>. QED
  BY <1>4 DEF EndStep

LEMMA ReleaseStep ==
  ASSUME NEW a \in Agent, NEW f \in Nat, NEW st \in {"released", "completed"},
         TypeOK, HistoryMatchesLease, Release(a, f, st)
  PROVE  EndStep(st) \/ UNCHANGED vars
<1>. DEFINE gate == HolderGate(lease, a, f, now, "not-held")
<1>1. CASE gate # "pass"
  BY <1>1 DEF Release, Apply, DecideRelease, Refuse, vars
<1>2. CASE gate = "pass"
  <2>1. IsLive(lease, now)
    BY <1>2 DEF HolderGate
  <2>2. /\ lease' = Freed(lease) /\ now' = now
        /\ history' = RecordClose(history, lease, st, now)
    BY <1>2 DEF Release, Apply, DecideRelease, Accept
  <2>. QED
    BY <2>1, <2>2, CloseStep DEF Asked
<1>. QED
  BY <1>1, <1>2

LEMMA ReapStep ==
  ASSUME NEW f \in Nat, NEW r \in Referent,
         TypeOK, HistoryMatchesLease, Reap(f, r)
  PROVE  EndStep("reaped") \/ UNCHANGED vars
<1>. DEFINE collects == /\ IsLive(lease, now)
                        /\ f = lease.fencing
                        /\ lease.referent # Null
                        /\ lease.referent = r
<1>1. CASE ~collects
  BY <1>1 DEF Reap, Apply, DecideReap, Refuse, vars
<1>2. CASE collects
  <2>1. /\ lease' = Freed(lease) /\ now' = now
        /\ history' = RecordClose(history, lease, "reaped", now)
    BY <1>2 DEF Reap, Apply, DecideReap, Accept
  <2>. QED
    BY <1>2, <2>1, CloseStep DEF Asked
<1>. QED
  BY <1>1, <1>2

(* Every step of the object is one of the four kinds, or changes nothing.  *)
LEMMA StepCases ==
  ASSUME TypeOK, HistoryMatchesLease, [Next]_vars
  PROVE  AnyStep
<1>. USE ConstantAssumption DEF AnyStep
<1>1. ASSUME NEW a \in Agent, NEW ms \in Duration, Claim(a, ms)
      PROVE  AnyStep
  <2>1. CASE IsLive(lease, now)
    BY <1>1, <2>1 DEF Claim, Apply, DecideClaim, Refuse, vars
  <2>2. CASE ~IsLive(lease, now)
    BY <1>1, <2>2, ClaimStep
  <2>. QED
    BY <2>1, <2>2
<1>2. ASSUME NEW a \in Agent, NEW f \in 0..MaxFencing, NEW ms \in Duration,
             Renew(a, f, ms)
      PROVE  AnyStep
  BY <1>2, RenewStep DEF TypeOK, LeaseState
<1>3. ASSUME NEW a \in Agent, NEW f \in 0..MaxFencing, NEW ms \in Duration,
             NEW r \in Referent, Bind(a, f, ms, r)
      PROVE  AnyStep
  BY <1>3, BindStep
<1>4. ASSUME NEW f \in 0..MaxFencing, NEW r \in Referent, Reap(f, r)
      PROVE  AnyStep
  BY <1>4, ReapStep DEF Asked
<1>5. ASSUME NEW a \in Agent, NEW f \in 0..MaxFencing,
             NEW st \in {"released", "completed"}, Release(a, f, st)
      PROVE  AnyStep
  BY <1>5, ReleaseStep DEF Asked
<1>. QED
  BY <1>1, <1>2, <1>3, <1>4, <1>5 DEF Next

-----------------------------------------------------------------------------
(* The invariant.                                                          *)

LEMMA InitIInv == Init => IInv
<1>. SUFFICES ASSUME Init PROVE IInv
  OBVIOUS
<1>. USE DEF Init, EmptyState
<1>1. TypeOK
  BY DEF TypeOK, LeaseState
<1>2. HistoryMatchesLease
  BY DEF HistoryMatchesLease
<1>3. IntervalsDisjoint
  BY DEF IntervalsDisjoint
<1>. QED
  BY <1>1, <1>2, <1>3 DEF IInv

LEMMA TypeStep == ASSUME IInv, AnyStep PROVE TypeOK'
<1>. USE DEF IInv
<1>1. ASSUME NEW a \in Agent, NEW ms \in Nat, NEW why \in {"free", "expired"},
             GrantStep(a, ms, why)
      PROVE  TypeOK'
  <2>1. lease.fencing + 1 \in Nat /\ now + ms \in Nat
    BY DEF TypeOK, LeaseState
  <2>2. lease' = [holder |-> a, expiresAt |-> now + ms,
                  fencing |-> lease.fencing + 1, referent |-> Null]
    BY <1>1 DEF GrantStep
  <2>3. lease' \in LeaseState
    BY <2>1, <2>2 DEF LeaseState
  <2>4. history' \in Seq(Record) /\ now' \in Nat
    BY <1>1 DEF GrantStep, TypeOK
  <2>. QED
    BY <2>3, <2>4 DEF TypeOK
<1>2. ASSUME NEW ms \in Nat, NEW ref \in Referent \cup {Null}, ExtendStep(ms, ref)
      PROVE  TypeOK'
  <2>1. lease \in LeaseState /\ now + ms \in Nat
    BY DEF TypeOK
  <2>2. lease' = [lease EXCEPT !.expiresAt = now + ms, !.referent = ref]
    BY <1>2 DEF ExtendStep
  <2>3. lease' \in LeaseState
    BY <2>1, <2>2 DEF LeaseState
  <2>4. history' \in Seq(Record) /\ now' \in Nat
    BY <1>2 DEF ExtendStep, LastReplaced, TypeOK
  <2>. QED
    BY <2>3, <2>4 DEF TypeOK
<1>3. ASSUME NEW st \in Asked, EndStep(st)
      PROVE  TypeOK'
  BY <1>3 DEF EndStep, LastReplaced, Freed, EmptyState, TypeOK, LeaseState
<1>4. CASE Tick
  BY <1>4 DEF Tick, TypeOK
<1>5. CASE UNCHANGED vars
  BY <1>5 DEF vars, TypeOK
<1>. QED
  BY <1>1, <1>2, <1>3, <1>4, <1>5 DEF AnyStep

LEMMA HistoryStepInv == ASSUME IInv, AnyStep PROVE HistoryMatchesLease'
<1>. USE DEF IInv
<1>0. /\ Len(history) \in Nat
      /\ \A i \in 1..Len(history) : history[i] \in Record
      /\ lease \in LeaseState /\ now \in Nat
  BY DEF TypeOK
<1>1. ASSUME NEW a \in Agent, NEW ms \in Nat, NEW why \in {"free", "expired"},
             GrantStep(a, ms, why)
      PROVE  HistoryMatchesLease'
  <2>1. /\ Len(history') = lease'.fencing
        /\ lease'.fencing = Len(history) + 1
        /\ lease'.holder = a /\ a # Null
        /\ lease'.expiresAt = now + ms /\ now + ms \in Nat
        /\ lease'.referent = Null
    <3>1. a # Null /\ now + ms \in Nat
      BY <1>0, ConstantAssumption
    <3>2. /\ lease' = [holder |-> a, expiresAt |-> now + ms,
                        fencing |-> lease.fencing + 1, referent |-> Null]
          /\ Len(history') = Len(history) + 1
      BY <1>1 DEF GrantStep
    <3>3. Len(history) = lease.fencing
      BY DEF HistoryMatchesLease
    <3>. QED
      BY <3>1, <3>2, <3>3
  <2>2. \A i \in 1..Len(history) :
          history'[i].fencing = i /\ history'[i].status # "active"
    <3>. TAKE i \in 1..Len(history)
    <3>1. history[i] \in Record /\ history[i].fencing = i
      BY <1>0 DEF HistoryMatchesLease
    <3>2. CASE history[i].status = "active"
      <4>1. history'[i] = [history[i] EXCEPT !.status = "expired",
                                             !.releasedAt = history[i].expiresAt]
        BY <1>1, <3>2 DEF GrantStep
      <4>. QED
        BY <3>1, <4>1 DEF Record
    <3>3. CASE history[i].status # "active"
      BY <1>1, <3>1, <3>3 DEF GrantStep
    <3>. QED
      BY <3>2, <3>3
  <2>3. history'[Len(history) + 1] =
          [fencing |-> Len(history) + 1, agent |-> a, grantedAt |-> now,
           expiresAt |-> now + ms, releasedAt |-> Null, status |-> "active",
           reason |-> why, referent |-> Null]
    BY <1>1 DEF GrantStep, HistoryMatchesLease
  <2>4. \A i \in 1..(Len(history) + 1) :
          i \in 1..Len(history) \/ i = Len(history) + 1
    BY <1>0
  <2>5. /\ \A i \in 1..Len(history) : i # Len(history) + 1
        /\ Len(history) + 1 > 0
    BY <1>0
  <2>. QED
    BY <2>1, <2>2, <2>3, <2>4, <2>5 DEF HistoryMatchesLease
<1>2. ASSUME NEW ms \in Nat, NEW ref \in Referent \cup {Null}, ExtendStep(ms, ref)
      PROVE  HistoryMatchesLease'
  <2>1. /\ lease'.holder = lease.holder
        /\ lease'.fencing = lease.fencing
        /\ lease'.expiresAt = now + ms /\ now + ms \in Nat
        /\ lease'.referent = ref
        /\ lease.holder # Null
    BY <1>0, <1>2 DEF ExtendStep, LeaseState, IsLive
  <2>2. /\ lease.fencing = Len(history)
        /\ LastRecord \in Record
        /\ LastRecord.fencing = Len(history)
        /\ LastRecord.status = "active" /\ LastRecord.releasedAt = Null
        /\ LastRecord.agent = lease.holder
    BY <1>2, LiveRecord DEF ExtendStep
  <2>. DEFINE e == [LastRecord EXCEPT !.expiresAt = now + ms, !.referent = ref]
  <2>3. /\ e.fencing = Len(history) /\ e.status = "active"
        /\ e.releasedAt = Null
        /\ e.agent = lease.holder /\ e.expiresAt = now + ms /\ e.referent = ref
    BY <2>2 DEF Record
  <2>4. /\ Len(history') = Len(history)
        /\ \A i \in 1..Len(history) :
             history'[i] = IF i = Len(history) THEN e ELSE history[i]
    BY <1>2 DEF ExtendStep, LastReplaced
  <2>. HIDE DEF e
  <2>. QED
    BY <1>0, <2>1, <2>2, <2>3, <2>4 DEF HistoryMatchesLease
<1>3. ASSUME NEW st \in Asked, EndStep(st)
      PROVE  HistoryMatchesLease'
  <2>1. /\ lease'.holder = Null
        /\ lease'.fencing = lease.fencing
        /\ lease'.expiresAt = Null
        /\ lease'.referent = Null
    BY <1>3 DEF EndStep, Freed, EmptyState
  <2>2. /\ lease.fencing = Len(history)
        /\ LastRecord \in Record
        /\ LastRecord.fencing = Len(history)
    BY <1>3, LiveRecord DEF EndStep
  <2>. DEFINE e == [LastRecord EXCEPT !.status = st, !.releasedAt = now]
  <2>3. e.fencing = Len(history) /\ e.status # "active"
    BY <2>2 DEF Record, Asked
  <2>4. /\ Len(history') = Len(history)
        /\ \A i \in 1..Len(history) :
             history'[i] = IF i = Len(history) THEN e ELSE history[i]
    BY <1>3 DEF EndStep, LastReplaced
  <2>. HIDE DEF e
  <2>. QED
    BY <1>0, <2>1, <2>2, <2>3, <2>4 DEF HistoryMatchesLease
<1>4. CASE Tick
  BY <1>4 DEF Tick, HistoryMatchesLease
<1>5. CASE UNCHANGED vars
  BY <1>5 DEF vars, HistoryMatchesLease
<1>. QED
  BY <1>1, <1>2, <1>3, <1>4, <1>5 DEF AnyStep

(* The intervals.  A grant begins at `now', where every recorded interval  *)
(* has ended: closed ones by the invariant, a lapsed one because the lease *)
(* is not live.                                                            *)
LEMMA IntervalsStepInv == ASSUME IInv, AnyStep PROVE IntervalsDisjoint'
<1>. USE DEF IInv
<1>0. /\ Len(history) \in Nat
      /\ \A i \in 1..Len(history) : history[i] \in Record
      /\ lease \in LeaseState /\ now \in Nat
      /\ Len(history) = lease.fencing
  BY DEF TypeOK, HistoryMatchesLease
<1>1. ASSUME NEW a \in Agent, NEW ms \in Nat, NEW why \in {"free", "expired"},
             GrantStep(a, ms, why)
      PROVE  IntervalsDisjoint'
  <2>. DEFINE n == Len(history)
  <2>1. \A i \in 1..n :
          /\ history'[i].grantedAt = history[i].grantedAt
          /\ history'[i].expiresAt = history[i].expiresAt
          /\ history'[i].status # "active"
          /\ history'[i].releasedAt = IntervalEnd(history[i])
          /\ IntervalEnd(history[i]) \in Nat
          /\ IntervalEnd(history[i]) <= now
    <3>. TAKE i \in 1..n
    <3>1. history[i] \in Record
      BY <1>0
    <3>2. CASE history[i].status = "active"
      <4>1. history'[i] = [history[i] EXCEPT !.status = "expired",
                                             !.releasedAt = history[i].expiresAt]
        BY <1>1, <3>2 DEF GrantStep
      <4>2. /\ history[i].expiresAt = lease.expiresAt
            /\ lease.holder # Null /\ lease.expiresAt \in Nat
        BY <3>2 DEF HistoryMatchesLease
      <4>3. lease.expiresAt <= now
        <5>1. ~IsLive(lease, now)
          BY <1>1 DEF GrantStep
        <5>2. lease.expiresAt # Null
          BY <4>2, ConstantAssumption
        <5>. QED
          BY <1>0, <4>2, <5>1, <5>2 DEF IsLive
      <4>. QED
        BY <3>1, <3>2, <4>1, <4>2, <4>3 DEF Record, IntervalEnd
    <3>3. CASE history[i].status # "active"
      BY <1>1, <3>1, <3>3 DEF GrantStep, IntervalEnd, IntervalsDisjoint
    <3>. QED
      BY <3>2, <3>3
  <2>2. /\ Len(history') = n + 1 /\ now' = now
        /\ history'[n + 1].grantedAt = now
        /\ history'[n + 1].expiresAt = now + ms
        /\ history'[n + 1].status = "active"
    <3>1. history'[n + 1] =
            [fencing |-> lease.fencing + 1, agent |-> a, grantedAt |-> now,
             expiresAt |-> now + ms, releasedAt |-> Null, status |-> "active",
             reason |-> why, referent |-> Null]
      BY <1>1 DEF GrantStep
    <3>2. Len(history') = n + 1 /\ now' = now
      BY <1>1 DEF GrantStep
    <3>. QED
      BY <3>1, <3>2
  <2>3. \A i \in 1..n :
          /\ history[i].grantedAt \in Nat /\ history[i].grantedAt <= now
          /\ history[i].grantedAt <= IntervalEnd(history[i])
          /\ IntervalEnd(history[i]) <= history[i].expiresAt
    BY <1>0 DEF IntervalsDisjoint, Record
  <2>4. \A i, j \in 1..n :
          i < j => IntervalEnd(history[i]) <= history[j].grantedAt
    BY DEF IntervalsDisjoint
  <2>5. \A i \in 1..(n + 1) : i \in 1..n \/ i = n + 1
    BY <1>0
  <2>6. \A i, j \in 1..(n + 1) : i < j => i \in 1..n
    BY <1>0
  <2>7. now <= now + ms /\ now <= now /\ now + ms <= now + ms
    BY <1>0
  <2>8. \A i \in 1..n : IntervalEnd(history'[i]) = IntervalEnd(history[i])
    BY <2>1 DEF IntervalEnd
  <2>9. IntervalEnd(history'[n + 1]) = now + ms
    BY <2>2 DEF IntervalEnd
  <2>10. \A i \in 1..Len(history') :
           /\ history'[i].grantedAt <= now'
           /\ history'[i].status # "active" => history'[i].releasedAt \in Nat
           /\ history'[i].status # "active" => history'[i].releasedAt <= now'
           /\ history'[i].grantedAt <= IntervalEnd(history'[i])
           /\ IntervalEnd(history'[i]) <= history'[i].expiresAt
    BY <2>1, <2>2, <2>3, <2>5, <2>7, <2>8, <2>9
  <2>11. \A i, j \in 1..Len(history') :
           i < j => IntervalEnd(history'[i]) <= history'[j].grantedAt
    BY <2>1, <2>2, <2>4, <2>5, <2>6, <2>8
  <2>. QED
    BY <2>10, <2>11 DEF IntervalsDisjoint, IntervalEnd
<1>2. ASSUME NEW ms \in Nat, NEW ref \in Referent \cup {Null}, ExtendStep(ms, ref)
      PROVE  IntervalsDisjoint'
  <2>. DEFINE n == Len(history)
              e == [LastRecord EXCEPT !.expiresAt = now + ms, !.referent = ref]
  <2>1. /\ n \in 1..n /\ LastRecord \in Record /\ LastRecord = history[n]
        /\ LastRecord.status = "active"
    BY <1>2, LiveRecord DEF ExtendStep, LastRecord
  <2>2. /\ e.grantedAt = history[n].grantedAt
        /\ e.status = "active" /\ e.expiresAt = now + ms
    BY <2>1 DEF Record
  <2>3. /\ Len(history') = n /\ now' = now
        /\ \A i \in 1..n : history'[i] = IF i = n THEN e ELSE history[i]
    BY <1>2 DEF ExtendStep, LastReplaced
  <2>4. IntervalEnd(e) = now + ms
    BY <2>2 DEF IntervalEnd
  <2>. HIDE DEF e
  <2>5. history[n].grantedAt <= now + ms /\ now + ms <= now + ms
    BY <1>0, <2>1 DEF IntervalsDisjoint, Record
  <2>6. \A i \in 1..n :
          /\ history'[i].grantedAt <= now'
          /\ history'[i].status # "active" => history'[i].releasedAt \in Nat
          /\ history'[i].status # "active" => history'[i].releasedAt <= now'
          /\ history'[i].grantedAt <= IntervalEnd(history'[i])
          /\ IntervalEnd(history'[i]) <= history'[i].expiresAt
    BY <2>2, <2>3, <2>4, <2>5 DEF IntervalsDisjoint
  <2>7. \A i, j \in 1..n :
          i < j => IntervalEnd(history'[i]) <= history'[j].grantedAt
    BY <1>0, <2>2, <2>3 DEF IntervalsDisjoint
  <2>. QED
    BY <2>3, <2>6, <2>7 DEF IntervalsDisjoint, IntervalEnd
<1>3. ASSUME NEW st \in Asked, EndStep(st)
      PROVE  IntervalsDisjoint'
  <2>. DEFINE n == Len(history)
              e == [LastRecord EXCEPT !.status = st, !.releasedAt = now]
  <2>1. /\ n \in 1..n /\ LastRecord \in Record /\ LastRecord = history[n]
        /\ LastRecord.expiresAt = lease.expiresAt
        /\ lease.expiresAt \in Nat /\ now < lease.expiresAt
    BY <1>3, LiveRecord DEF EndStep, LastRecord
  <2>2. /\ e.grantedAt = history[n].grantedAt
        /\ e.expiresAt = lease.expiresAt
        /\ e.status # "active" /\ e.releasedAt = now
    BY <2>1 DEF Record, Asked
  <2>3. /\ Len(history') = n /\ now' = now
        /\ \A i \in 1..n : history'[i] = IF i = n THEN e ELSE history[i]
    BY <1>3 DEF EndStep, LastReplaced
  <2>4. IntervalEnd(e) = now
    BY <2>2 DEF IntervalEnd
  <2>. HIDE DEF e
  <2>5. now <= lease.expiresAt /\ now <= now /\ history[n].grantedAt <= now
    BY <1>0, <2>1 DEF IntervalsDisjoint
  <2>6. \A i \in 1..n :
          /\ history'[i].grantedAt <= now'
          /\ history'[i].status # "active" => history'[i].releasedAt \in Nat
          /\ history'[i].status # "active" => history'[i].releasedAt <= now'
          /\ history'[i].grantedAt <= IntervalEnd(history'[i])
          /\ IntervalEnd(history'[i]) <= history'[i].expiresAt
    BY <1>0, <2>2, <2>3, <2>4, <2>5 DEF IntervalsDisjoint
  <2>7. \A i, j \in 1..n :
          i < j => IntervalEnd(history'[i]) <= history'[j].grantedAt
    BY <1>0, <2>2, <2>3 DEF IntervalsDisjoint
  <2>. QED
    BY <2>3, <2>6, <2>7 DEF IntervalsDisjoint, IntervalEnd
<1>4. CASE Tick
  <2>1. \A i \in 1..Len(history) :
          /\ history[i].grantedAt <= now + 1
          /\ history[i].status # "active" => history[i].releasedAt <= now + 1
    BY <1>0 DEF IntervalsDisjoint, Record
  <2>. QED
    BY <1>4, <2>1 DEF Tick, IntervalsDisjoint, IntervalEnd
<1>5. CASE UNCHANGED vars
  BY <1>5 DEF vars, IntervalsDisjoint, IntervalEnd
<1>. QED
  BY <1>1, <1>2, <1>3, <1>4, <1>5 DEF AnyStep

(* The types, the agreement of record and state, and the disjointness of   *)
(* the recorded intervals are preserved together by every step.            *)
THEOREM InductiveInvariant == Spec => []IInv
<1>1. IInv /\ [Next]_vars => IInv'
  <2>. SUFFICES ASSUME IInv, [Next]_vars
                PROVE  IInv'
    OBVIOUS
  <2>1. AnyStep
    BY StepCases DEF IInv
  <2>. QED
    BY <2>1, TypeStep, HistoryStepInv, IntervalsStepInv DEF IInv
<1>. QED
  BY InitIInv, <1>1, PTL DEF Spec

(* Whatever requests arrive, lease, history and clock keep their types.    *)
THEOREM TypeCorrect == Spec => []TypeOK
BY InductiveInvariant, PTL DEF IInv

(* applyTransition's record never disagrees with the lease it records.     *)
THEOREM RecordAgrees == Spec => []HistoryMatchesLease
BY InductiveInvariant, PTL DEF IInv

(* No two grants of one item ever overlap in time: the S1 the scheduler    *)
(* relies on, for any number of agents, grants and bounds.                 *)
THEOREM GrantsDisjoint == Spec => []IntervalsDisjoint
BY InductiveInvariant, PTL DEF IInv

-----------------------------------------------------------------------------
(* What a reader of the object may rely on: a live grant is not taken over, *)
(* a reported end is final, the object implements GrantLedger, and an alarm *)
(* rests on a lapse.  All follow from IInv by the four kinds of step.       *)

(* Every step of the specification is one of the four kinds.               *)
LEMMA SpecSteps == Spec => [][IInv /\ IInv' /\ AnyStep]_vars
<1>1. IInv /\ IInv' /\ [Next]_vars => [IInv /\ IInv' /\ AnyStep]_vars
  BY StepCases DEF IInv
<1>. QED
  BY <1>1, InductiveInvariant, PTL DEF Spec

(* A live grant is never replaced by another without ending first.         *)
THEOREM LiveGrantKept == Spec => NoTakeover
<1>. DEFINE kept == IsLive(lease, now) /\ IsLive(lease', now') =>
                      /\ lease'.fencing = lease.fencing
                      /\ lease'.holder = lease.holder
<1>1. ASSUME IInv, AnyStep
      PROVE  kept
  <2>1. ASSUME NEW a \in Agent, NEW ms \in Nat, NEW why \in {"free", "expired"},
               GrantStep(a, ms, why)
        PROVE  kept
    BY <2>1 DEF GrantStep
  <2>2. ASSUME NEW ms \in Nat, NEW ref \in Referent \cup {Null}, ExtendStep(ms, ref)
        PROVE  kept
    BY <1>1, <2>2 DEF ExtendStep, IInv, TypeOK, LeaseState
  <2>3. ASSUME NEW st \in Asked, EndStep(st)
        PROVE  kept
    BY <2>3 DEF EndStep, Freed, EmptyState, IsLive
  <2>4. CASE Tick
    BY <2>4 DEF Tick
  <2>5. CASE UNCHANGED vars
    BY <2>5 DEF vars
  <2>. QED
    BY <1>1, <2>1, <2>2, <2>3, <2>4, <2>5 DEF AnyStep
<1>2. [IInv /\ IInv' /\ AnyStep]_vars => [kept]_vars
  BY <1>1
<1>3. Spec => [][kept]_vars
  BY <1>2, SpecSteps, PTL
<1>. QED
  BY <1>3 DEF NoTakeover

-----------------------------------------------------------------------------
(* The reported view of each record after a step.                          *)

(* What any step may do to record r, seen with nothing open in it: leave   *)
(* it, or write down the expiry that had already ended it.                 *)
KeptOrLapsed(r, q) ==
  \/ q = r
  \/ /\ r.status = "active"
     /\ q = [r EXCEPT !.status = "expired", !.releasedAt = r.expiresAt]

(* A record reported as ended is never the live one.                       *)
LEMMA EndedIsNotLive ==
  ASSUME IInv, IsLive(lease, now)
  PROVE  EffectiveStatus(LastRecord, now) = "active"
<1>1. /\ LastRecord.status = "active"
      /\ now < LastRecord.expiresAt
      /\ LastRecord.expiresAt \in Nat
      /\ now \in Nat
  BY LiveRecord DEF IInv, TypeOK
<1>2. ~(now >= LastRecord.expiresAt)
  BY <1>1
<1>. QED
  BY <1>1, <1>2 DEF EffectiveStatus

(* Such a record is kept, or its lapse is written down, by every step.     *)
LEMMA OldRecords ==
  ASSUME IInv, AnyStep, NEW i \in 1..Len(history),
         EffectiveStatus(history[i], now) # "active"
  PROVE  /\ i \in 1..Len(history')
         /\ KeptOrLapsed(history[i], history'[i])
         /\ now <= now'
<1>. USE DEF IInv, KeptOrLapsed
<1>0. /\ Len(history) \in Nat /\ now \in Nat
      /\ history[i] \in Record
      /\ Len(history) = lease.fencing
  BY DEF TypeOK, HistoryMatchesLease
<1>1. ASSUME IsLive(lease, now)
      PROVE  i # Len(history)
  BY <1>1, EndedIsNotLive DEF LastRecord
<1>2. ASSUME NEW a \in Agent, NEW ms \in Nat, NEW why \in {"free", "expired"},
             GrantStep(a, ms, why)
      PROVE  /\ i \in 1..Len(history')
             /\ KeptOrLapsed(history[i], history'[i])
             /\ now <= now'
  <2>1. history'[i] = IF history[i].status = "active"
                      THEN [history[i] EXCEPT !.status = "expired",
                                              !.releasedAt = history[i].expiresAt]
                      ELSE history[i]
    BY <1>2 DEF GrantStep
  <2>2. Len(history') = Len(history) + 1 /\ now' = now
    BY <1>2 DEF GrantStep
  <2>3. KeptOrLapsed(history[i], history'[i])
    BY <2>1
  <2>. QED
    BY <1>0, <2>2, <2>3
<1>3. ASSUME NEW ms \in Nat, NEW ref \in Referent \cup {Null}, ExtendStep(ms, ref)
      PROVE  i \in 1..Len(history') /\ history'[i] = history[i] /\ now <= now'
  BY <1>0, <1>1, <1>3 DEF ExtendStep, LastReplaced
<1>4. ASSUME NEW st \in Asked, EndStep(st)
      PROVE  i \in 1..Len(history') /\ history'[i] = history[i] /\ now <= now'
  BY <1>0, <1>1, <1>4 DEF EndStep, LastReplaced
<1>5. CASE Tick
  BY <1>0, <1>5 DEF Tick
<1>6. CASE UNCHANGED vars
  BY <1>0, <1>6 DEF vars
<1>. QED
  BY <1>2, <1>3, <1>4, <1>5, <1>6 DEF AnyStep

(* What /history reports of an ended grant, every later answer repeats.    *)
Repeats(r, q) ==
  /\ EffectiveStatus(q, now') = EffectiveStatus(r, now)
  /\ EffectiveEnd(q, now') = EffectiveEnd(r, now)
  /\ q.referent = r.referent
  /\ q.agent = r.agent

LEMMA EndedRepeats ==
  ASSUME IInv, AnyStep, NEW i \in 1..Len(history),
         EffectiveStatus(history[i], now) # "active"
  PROVE  Repeats(history[i], history'[i])
<1>0. now \in Nat /\ now' \in Nat
  <2>1. TypeOK'
    BY TypeStep
  <2>. QED
    BY <2>1 DEF IInv, TypeOK
<1>1. history[i] \in Record
  BY DEF IInv, TypeOK
<1>2. history[i].expiresAt \in Nat
  BY <1>1 DEF Record
<1>3. now <= now' /\ KeptOrLapsed(history[i], history'[i])
  BY OldRecords
<1>4. history[i].status = "active" =>
        /\ now >= history[i].expiresAt /\ now' >= history[i].expiresAt
        /\ history[i].releasedAt = Null
  <2>1. history[i].status = "active" => now >= history[i].expiresAt
    BY <1>1 DEF EffectiveStatus
  <2>2. history[i].status = "active" => history[i].releasedAt = Null
    BY DEF IInv, HistoryMatchesLease
  <2>. QED
    BY <1>0, <1>2, <1>3, <2>1, <2>2
<1>5. CASE history'[i] = history[i]
  BY <1>0, <1>2, <1>4, <1>5 DEF EffectiveStatus, EffectiveEnd, Repeats
<1>6. CASE /\ history[i].status = "active"
           /\ history'[i] = [history[i] EXCEPT !.status = "expired",
                                               !.releasedAt = history[i].expiresAt]
  <2>1. /\ history'[i].status = "expired"
        /\ history'[i].releasedAt = history[i].expiresAt
        /\ history'[i].referent = history[i].referent
        /\ history'[i].agent = history[i].agent
    BY <1>1, <1>6 DEF Record
  <2>2. history[i].expiresAt # Null
    BY <1>2, ConstantAssumption
  <2>. QED
    BY <1>0, <1>2, <1>4, <1>6, <2>1, <2>2
       DEF EffectiveStatus, EffectiveEnd, Repeats
<1>. QED
  BY <1>3, <1>5, <1>6 DEF KeptOrLapsed

(* Once /history reports a grant as ended, it reports the same end forever: *)
(* a projected terminal row never needs to be read again.                  *)
THEOREM EndsAreFinal == Spec => ReportedEndIsFinal
<1>. DEFINE final ==
       \A i \in 1..Len(history) :
         EffectiveStatus(history[i], now) # "active" =>
           Repeats(history[i], history'[i])
<1>1. IInv /\ AnyStep => final
  BY EndedRepeats
<1>2. [IInv /\ IInv' /\ AnyStep]_vars => [final]_vars
  BY <1>1
<1>3. Spec => [][final]_vars
  BY <1>2, SpecSteps, PTL
<1>. QED
  BY <1>3 DEF ReportedEndIsFinal, Repeats

-----------------------------------------------------------------------------
(* The object implements the ledger.                                       *)

View(r, t) == [agent    |-> r.agent,
               status   |-> EffectiveStatus(r, t),
               referent |-> r.referent]

Shown == [agent : Agent, status : Status, referent : Referent \cup {Null}]

(* The ledger a history h shows at time t.                                 *)
LedgerOf(h, t) == [i \in 1..Len(h) |-> View(h[i], t)]

IsLedgerOf(g, h, t) ==
  /\ Len(h) \in Nat
  /\ g \in Seq(Shown)
  /\ Len(g) = Len(h)
  /\ DOMAIN g = 1..Len(h)
  /\ \A i \in 1..Len(h) : g[i] = View(h[i], t)

LEMMA LedgerOfHistory ==
  ASSUME NEW h \in Seq(Record), NEW t
  PROVE  IsLedgerOf(LedgerOf(h, t), h, t)
<1>1. /\ Len(h) \in Nat
      /\ \A i \in 1..Len(h) : h[i] \in Record
  OBVIOUS
<1>2. \A i \in 1..Len(h) : View(h[i], t) \in Shown
  <2>. TAKE i \in 1..Len(h)
  <2>1. EffectiveStatus(h[i], t) \in Status
    BY <1>1 DEF EffectiveStatus, Record, Status, Terminal
  <2>. QED
    BY <1>1, <2>1 DEF View, Record, Shown
<1>3. LedgerOf(h, t) \in [1..Len(h) -> Shown]
  BY <1>2 DEF LedgerOf
<1>4. \A i \in 1..Len(h) : LedgerOf(h, t)[i] = View(h[i], t)
  BY DEF LedgerOf
<1>. QED
  BY <1>1, <1>3, <1>4, SequenceOfFunction DEF IsLedgerOf

LEMMA LedgerShape ==
  ASSUME IInv
  PROVE  IsLedgerOf(ReportedLedger, history, now)
<1>1. ReportedLedger = LedgerOf(history, now)
  BY DEF ReportedLedger, LedgerOf, View
<1>. QED
  BY <1>1, LedgerOfHistory DEF IInv, TypeOK

LEMMA LedgerShapeNext ==
  ASSUME IInv, AnyStep
  PROVE  IsLedgerOf(ReportedLedger', history', now')
<1>1. ReportedLedger' = LedgerOf(history', now')
  BY DEF ReportedLedger, LedgerOf, View
<1>2. TypeOK'
  BY TypeStep
<1>. QED
  BY <1>1, <1>2, LedgerOfHistory DEF TypeOK

(* The ledger's last entry is open exactly while the lease is live, and no *)
(* other entry is ever open.                                               *)
LEMMA OpenIsLive ==
  ASSUME IInv
  PROVE  /\ Ledger!Open <=> IsLive(lease, now)
         /\ \A i \in 1..Len(history) :
              EffectiveStatus(history[i], now) = "active" =>
                i = Len(history) /\ IsLive(lease, now)
<1>0. /\ Len(history) \in Nat /\ now \in Nat
      /\ Len(ReportedLedger) = Len(history)
      /\ \A i \in 1..Len(history) : ReportedLedger[i] = View(history[i], now)
      /\ DOMAIN ReportedLedger = 1..Len(history)
      /\ ReportedLedger \in Seq(Shown)
  BY LedgerShape DEF IInv, TypeOK, IsLedgerOf
<1>1. ASSUME NEW i \in 1..Len(history), EffectiveStatus(history[i], now) = "active"
      PROVE  i = Len(history) /\ IsLive(lease, now)
  <2>1. history[i].status = "active" /\ ~(now >= history[i].expiresAt)
    BY <1>1 DEF EffectiveStatus
  <2>2. /\ i = lease.fencing /\ lease.holder # Null
        /\ history[i].expiresAt = lease.expiresAt
        /\ lease.expiresAt \in Nat
        /\ Len(history) = lease.fencing
    BY <2>1 DEF IInv, HistoryMatchesLease
  <2>3. lease.expiresAt # Null
    BY <2>2, ConstantAssumption
  <2>. QED
    BY <1>0, <2>1, <2>2, <2>3 DEF IsLive
<1>2. ASSUME IsLive(lease, now)
      PROVE  Ledger!Open
  <2>1. EffectiveStatus(LastRecord, now) = "active"
    BY <1>2, EndedIsNotLive
  <2>2. Len(history) \in 1..Len(history)
    BY <1>2, LiveRecord DEF IInv
  <2>3. ReportedLedger[Len(history)].status = "active"
    BY <1>0, <2>1, <2>2 DEF View, LastRecord
  <2>4. ReportedLedger # <<>>
    BY <1>0, <2>2
  <2>. QED
    BY <1>0, <2>3, <2>4 DEF Ledger!Open, Ledger!Last
<1>3. ASSUME Ledger!Open
      PROVE  IsLive(lease, now)
  <2>1. ReportedLedger # <<>> /\ ReportedLedger[Len(history)].status = "active"
    BY <1>0, <1>3 DEF Ledger!Open, Ledger!Last
  <2>2. Len(history) \in 1..Len(history)
    BY <1>0, <2>1
  <2>3. EffectiveStatus(history[Len(history)], now) = "active"
    BY <1>0, <2>1, <2>2 DEF View
  <2>. QED
    BY <1>1, <2>2, <2>3
<1>. QED
  BY <1>1, <1>2, <1>3

(* Entries other than an open last one are the same after the step.        *)
LEMMA RestKept ==
  ASSUME IInv, AnyStep, NEW i \in 1..Len(history),
         i # Len(history) \/ ~IsLive(lease, now)
  PROVE  View(history'[i], now') = ReportedLedger[i]
<1>1. EffectiveStatus(history[i], now) # "active"
  BY OpenIsLive
<1>2. Repeats(history[i], history'[i])
  BY <1>1, EndedRepeats
<1>. QED
  BY <1>2, LedgerShape DEF Repeats, View, IsLedgerOf

(* Two sequences of the same length with the same elements are equal.      *)
LEMMA SameSequence ==
  ASSUME NEW S, NEW f \in Seq(S), NEW g \in Seq(S), Len(f) = Len(g),
         \A i \in 1..Len(f) : f[i] = g[i]
  PROVE  f = g
OBVIOUS

(* A step that adds no record changes at most the open entry.              *)
LEMMA OnlyLastChanges ==
  ASSUME IInv, IInv', AnyStep, Len(history') = Len(history)
  PROVE  IF IsLive(lease, now)
         THEN ReportedLedger' = [ReportedLedger EXCEPT
                ![Len(ReportedLedger)] = View(history'[Len(history)], now')]
         ELSE ReportedLedger' = ReportedLedger
<1>. DEFINE n == Len(history)
            v == View(history'[n], now')
<1>1. /\ n \in Nat
      /\ ReportedLedger \in Seq(Shown) /\ Len(ReportedLedger) = n
      /\ DOMAIN ReportedLedger = 1..n
  BY LedgerShape DEF IsLedgerOf
<1>2. /\ ReportedLedger' \in Seq(Shown) /\ Len(ReportedLedger') = n
      /\ DOMAIN ReportedLedger' = 1..n
      /\ \A i \in 1..n : ReportedLedger'[i] = View(history'[i], now')
  BY LedgerShapeNext DEF IsLedgerOf
<1>3. CASE IsLive(lease, now)
  <2>1. n \in 1..n
    BY <1>3, LiveRecord DEF IInv
  <2>2. v \in Shown
    <3>1. v = ReportedLedger'[n] /\ n \in DOMAIN ReportedLedger'
      BY <1>2, <2>1
    <3>. QED
      BY <1>2, <2>1, <3>1
  <2>. HIDE DEF v
  <2>. DEFINE g == [ReportedLedger EXCEPT ![n] = v]
  <2>3. g \in Seq(Shown) /\ Len(g) = n
    BY <1>1, <2>1, <2>2
  <2>4. \A i \in 1..n : g[i] = IF i = n THEN v ELSE ReportedLedger[i]
    BY <1>1
  <2>5. \A i \in 1..n : i # n => View(history'[i], now') = ReportedLedger[i]
    BY RestKept
  <2>6. \A i \in 1..n : ReportedLedger'[i] = g[i]
    BY <1>2, <2>4, <2>5 DEF v
  <2>. HIDE DEF g
  <2>7. ReportedLedger' = g
    BY <1>2, <2>3, <2>6, SameSequence
  <2>. QED
    BY <1>1, <1>3, <2>7 DEF g, v
<1>4. CASE ~IsLive(lease, now)
  <2>1. \A i \in 1..n : ReportedLedger'[i] = ReportedLedger[i]
    BY <1>2, <1>4, RestKept
  <2>2. ReportedLedger' = ReportedLedger
    BY <1>1, <1>2, <2>1, SameSequence
  <2>. QED
    BY <1>4, <2>2
<1>. QED
  BY <1>3, <1>4

LEMMA GrantRefines ==
  ASSUME IInv, IInv', NEW a \in Agent, NEW ms \in Nat,
         NEW why \in {"free", "expired"}, GrantStep(a, ms, why)
  PROVE  Ledger!Grant(a)
<1>. DEFINE n == Len(history)
            st == IF ms = 0 THEN "expired" ELSE "active"
            new == [agent |-> a, status |-> st, referent |-> Null]
<1>1. /\ n \in Nat /\ now \in Nat
      /\ ReportedLedger \in Seq(Shown) /\ Len(ReportedLedger) = n
  BY LedgerShape DEF IInv, TypeOK, IsLedgerOf
<1>2. Len(history') = n + 1 /\ now' = now /\ ~IsLive(lease, now)
  BY <1>1 DEF GrantStep
<1>3. /\ ReportedLedger' \in Seq(Shown) /\ Len(ReportedLedger') = n + 1
      /\ \A i \in 1..(n + 1) : ReportedLedger'[i] = View(history'[i], now')
  <2>1. AnyStep
    BY DEF AnyStep
  <2>. QED
    BY <1>2, <2>1, LedgerShapeNext DEF IsLedgerOf
<1>4. View(history'[n + 1], now') = new
  <2>1. history'[n + 1] =
          [fencing |-> lease.fencing + 1, agent |-> a, grantedAt |-> now,
           expiresAt |-> now + ms, releasedAt |-> Null, status |-> "active",
           reason |-> why, referent |-> Null]
    BY DEF GrantStep
  <2>2. /\ history'[n + 1].agent = a /\ history'[n + 1].referent = Null
        /\ history'[n + 1].status = "active"
        /\ history'[n + 1].expiresAt = now + ms
    BY <2>1
  <2>3. now >= now + ms <=> ms = 0
    BY <1>1
  <2>4. EffectiveStatus(history'[n + 1], now') = st
    BY <1>2, <2>2, <2>3 DEF EffectiveStatus
  <2>. QED
    BY <2>2, <2>4 DEF View
<1>5. \A i \in 1..n : ReportedLedger'[i] = ReportedLedger[i]
  <2>1. AnyStep
    BY DEF AnyStep
  <2>2. \A i \in 1..n : View(history'[i], now') = ReportedLedger[i]
    BY <1>2, <2>1, RestKept
  <2>3. \A i \in 1..n : i \in 1..(n + 1)
    BY <1>1
  <2>. QED
    BY <1>3, <2>2, <2>3
<1>6. new \in Shown
  BY DEF Shown, Status, Terminal
<1>. HIDE DEF new
<1>. DEFINE g == Append(ReportedLedger, new)
<1>7. /\ g \in Seq(Shown) /\ Len(g) = n + 1
      /\ g[n + 1] = new
      /\ \A i \in 1..n : g[i] = ReportedLedger[i]
  BY <1>1, <1>6
<1>8. \A i \in 1..(n + 1) : ReportedLedger'[i] = g[i]
  <2>1. \A i \in 1..(n + 1) : i \in 1..n \/ i = n + 1
    BY <1>1
  <2>2. n + 1 \in 1..(n + 1)
    BY <1>1
  <2>. QED
    BY <1>3, <1>4, <1>5, <1>7, <2>1, <2>2
<1>. HIDE DEF g
<1>9. ReportedLedger' = g
  BY <1>3, <1>7, <1>8, SameSequence
<1>10. ~Ledger!Open
  BY <1>2, OpenIsLive
<1>. QED
  BY <1>9, <1>10 DEF Ledger!Grant, g, new

(* While the lease is live, the last entry is its grant.                   *)
LEMMA LiveView ==
  ASSUME IInv, IsLive(lease, now)
  PROVE  /\ Ledger!Open
         /\ Len(ReportedLedger) = Len(history)
         /\ Len(history) \in 1..Len(history)
         /\ DOMAIN ReportedLedger = 1..Len(history)
         /\ ReportedLedger[Len(history)] =
              [agent |-> lease.holder, status |-> "active",
               referent |-> lease.referent]
<1>1. /\ Ledger!Open
      /\ Len(ReportedLedger) = Len(history)
      /\ DOMAIN ReportedLedger = 1..Len(history)
      /\ \A i \in 1..Len(history) : ReportedLedger[i] = View(history[i], now)
  BY LedgerShape, OpenIsLive DEF IsLedgerOf
<1>2. /\ Len(history) \in 1..Len(history)
      /\ LastRecord.agent = lease.holder
      /\ LastRecord.referent = lease.referent
  BY LiveRecord DEF IInv
<1>3. EffectiveStatus(LastRecord, now) = "active"
  BY EndedIsNotLive
<1>. QED
  BY <1>1, <1>2, <1>3 DEF View, LastRecord

(* Rewriting fields of the open entry is rewriting the entry.              *)
LEMMA OpenEntryUpdate ==
  ASSUME IInv, IsLive(lease, now), NEW s, NEW r
  PROVE  /\ [ReportedLedger EXCEPT ![Len(history)].status = s] =
              [ReportedLedger EXCEPT ![Len(history)] =
                 [agent |-> lease.holder, status |-> s,
                  referent |-> lease.referent]]
         /\ [ReportedLedger EXCEPT ![Len(history)].referent = r,
                                   ![Len(history)].status = s] =
              [ReportedLedger EXCEPT ![Len(history)] =
                 [agent |-> lease.holder, status |-> s, referent |-> r]]
<1>. DEFINE n == Len(history)
            open == [agent |-> lease.holder, status |-> "active",
                     referent |-> lease.referent]
            bound == [agent |-> lease.holder, status |-> "active", referent |-> r]
<1>1. ReportedLedger[n] = open /\ DOMAIN ReportedLedger = 1..n /\ n \in 1..n
  BY LiveView
<1>2. [ReportedLedger[n] EXCEPT !.status = s] =
        [agent |-> lease.holder, status |-> s, referent |-> lease.referent]
  BY <1>1
<1>3. [ReportedLedger EXCEPT ![n].referent = r] = [ReportedLedger EXCEPT ![n] = bound]
  <2>1. [ReportedLedger[n] EXCEPT !.referent = r] = bound
    BY <1>1
  <2>. HIDE DEF bound
  <2>. QED
    BY <2>1
<1>4. [ReportedLedger EXCEPT ![n] = bound][n] = bound
  BY <1>1
<1>5. [bound EXCEPT !.status = s] =
        [agent |-> lease.holder, status |-> s, referent |-> r]
  OBVIOUS
<1>. HIDE DEF open, bound, n
<1>. DEFINE h == [ReportedLedger EXCEPT ![n] = bound]
<1>6. [h EXCEPT ![n].status = s] =
        [h EXCEPT ![n] = [agent |-> lease.holder, status |-> s, referent |-> r]]
  BY <1>4, <1>5
<1>7. [h EXCEPT ![n] = [agent |-> lease.holder, status |-> s, referent |-> r]] =
      [ReportedLedger EXCEPT ![n] =
         [agent |-> lease.holder, status |-> s, referent |-> r]]
  OBVIOUS
<1>. QED
  BY <1>2, <1>3, <1>6, <1>7 DEF n

LEMMA ExtendRefines ==
  ASSUME IInv, IInv', NEW ms \in Nat, NEW ref \in Referent \cup {Null},
         ExtendStep(ms, ref)
  PROVE  Ledger!Next \/ ReportedLedger' = ReportedLedger
<1>. DEFINE n == Len(history)
            st == IF ms = 0 THEN "expired" ELSE "active"
<1>1. IsLive(lease, now) /\ Len(history') = n /\ now' = now /\ AnyStep
  BY DEF ExtendStep, LastReplaced, AnyStep
<1>2. View(history'[n], now') =
        [agent |-> lease.holder, status |-> st, referent |-> ref]
  <2>1. /\ LastRecord \in Record /\ n \in 1..n /\ now \in Nat
        /\ LastRecord.status = "active" /\ LastRecord.agent = lease.holder
    BY <1>1, LiveRecord DEF IInv, TypeOK
  <2>2. history'[n] = [LastRecord EXCEPT !.expiresAt = now + ms, !.referent = ref]
    BY <2>1 DEF ExtendStep, LastReplaced
  <2>3. /\ history'[n].agent = lease.holder /\ history'[n].referent = ref
        /\ history'[n].status = "active" /\ history'[n].expiresAt = now + ms
    BY <2>1, <2>2 DEF Record
  <2>4. now >= now + ms <=> ms = 0
    BY <2>1
  <2>5. EffectiveStatus(history'[n], now') = st
    BY <1>1, <2>3, <2>4 DEF EffectiveStatus
  <2>. QED
    BY <2>3, <2>5 DEF View
<1>. HIDE DEF st
<1>3. ReportedLedger' = [ReportedLedger EXCEPT
        ![n] = [agent |-> lease.holder, status |-> st, referent |-> ref]]
  BY <1>1, <1>2, OnlyLastChanges, LiveView
<1>4. st \in {"active", "expired"}
  BY DEF st
<1>5. CASE ref \in Referent
  <2>1. ReportedLedger' = [ReportedLedger EXCEPT
          ![n].referent = ref, ![n].status = st]
    BY <1>1, <1>3, LiveView, OpenEntryUpdate
  <2>2. Ledger!Bind(ref)
    BY <1>1, <1>4, <2>1, LiveView DEF Ledger!Bind, Ledger!Last
  <2>. QED
    BY <1>5, <2>2 DEF Ledger!Next
<1>6. CASE ref \notin Referent
  <2>1. ref = Null /\ ref = lease.referent
    BY <1>6 DEF ExtendStep
  <2>2. ReportedLedger' = [ReportedLedger EXCEPT ![n].status = st]
    BY <1>1, <1>3, <2>1, LiveView, OpenEntryUpdate
  <2>3. CASE st = "active"
    <3>1. [ReportedLedger EXCEPT ![n].status = st] = ReportedLedger
      BY <1>1, <2>3, LiveView, LedgerShape DEF IsLedgerOf
    <3>. QED
      BY <2>2, <3>1
  <2>4. CASE st = "expired"
    <3>1. Ledger!Close("expired")
      BY <1>1, <2>2, <2>4, LiveView DEF Ledger!Close, Ledger!Last
    <3>. QED
      BY <3>1 DEF Ledger!Next, Ledger!Closed
  <2>. QED
    BY <1>4, <2>3, <2>4
<1>. QED
  BY <1>5, <1>6

LEMMA EndRefines ==
  ASSUME IInv, IInv', NEW st \in Asked, EndStep(st)
  PROVE  Ledger!Next
<1>. DEFINE n == Len(history)
<1>1. IsLive(lease, now) /\ Len(history') = n /\ now' = now /\ AnyStep
  BY DEF EndStep, LastReplaced, AnyStep
<1>2. View(history'[n], now') =
        [agent |-> lease.holder, status |-> st, referent |-> lease.referent]
  <2>1. /\ LastRecord \in Record /\ n \in 1..n
        /\ LastRecord.agent = lease.holder
        /\ LastRecord.referent = lease.referent
    BY <1>1, LiveRecord DEF IInv
  <2>2. history'[n] = [LastRecord EXCEPT !.status = st, !.releasedAt = now]
    BY <2>1 DEF EndStep, LastReplaced
  <2>3. /\ history'[n].agent = lease.holder
        /\ history'[n].referent = lease.referent
        /\ history'[n].status = st /\ st # "active"
    BY <2>1, <2>2 DEF Record, Asked
  <2>. QED
    BY <2>3 DEF View, EffectiveStatus
<1>3. ReportedLedger' = [ReportedLedger EXCEPT
        ![n] = [agent |-> lease.holder, status |-> st,
                referent |-> lease.referent]]
  BY <1>1, <1>2, OnlyLastChanges, LiveView
<1>4. ReportedLedger' = [ReportedLedger EXCEPT ![n].status = st]
  BY <1>1, <1>3, LiveView, OpenEntryUpdate
<1>5. st = "reaped" => ReportedLedger[n].referent # Null
  BY <1>1, LiveView DEF EndStep
<1>6. Ledger!Close(st)
  BY <1>1, <1>4, <1>5, LiveView DEF Ledger!Close, Ledger!Last
<1>. QED
  BY <1>6 DEF Ledger!Next, Ledger!Closed, Asked

LEMMA TickRefines ==
  ASSUME IInv, IInv', Tick
  PROVE  Ledger!Next \/ ReportedLedger' = ReportedLedger
<1>. DEFINE n == Len(history)
            st == EffectiveStatus(LastRecord, now + 1)
<1>1. history' = history /\ now' = now + 1 /\ AnyStep
  BY DEF Tick, AnyStep
<1>2. CASE ~IsLive(lease, now)
  BY <1>1, <1>2, OnlyLastChanges
<1>3. CASE IsLive(lease, now)
  <2>1. /\ LastRecord.status = "active"
        /\ LastRecord.agent = lease.holder
        /\ LastRecord.referent = lease.referent
    BY <1>3, LiveRecord DEF IInv
  <2>2. st \in {"active", "expired"}
    BY <2>1 DEF EffectiveStatus
  <2>3. View(history'[n], now') =
          [agent |-> lease.holder, status |-> st, referent |-> lease.referent]
    BY <1>1, <2>1 DEF View, LastRecord
  <2>. HIDE DEF st
  <2>4. ReportedLedger' = [ReportedLedger EXCEPT
          ![n] = [agent |-> lease.holder, status |-> st,
                  referent |-> lease.referent]]
    BY <1>1, <1>3, <2>3, OnlyLastChanges, LiveView
  <2>5. ReportedLedger' = [ReportedLedger EXCEPT ![n].status = st]
    BY <1>3, <2>4, LiveView, OpenEntryUpdate
  <2>6. CASE st = "active"
    <3>1. [ReportedLedger EXCEPT ![n].status = st] = ReportedLedger
      BY <1>3, <2>6, LiveView, LedgerShape DEF IsLedgerOf
    <3>. QED
      BY <2>5, <3>1
  <2>7. CASE st = "expired"
    <3>1. Ledger!Close("expired")
      BY <1>3, <2>5, <2>7, LiveView DEF Ledger!Close, Ledger!Last
    <3>. QED
      BY <3>1 DEF Ledger!Next, Ledger!Closed
  <2>. QED
    BY <2>2, <2>6, <2>7
<1>. QED
  BY <1>2, <1>3

(* The Durable Object implements the ledger: what /history answers, at any *)
(* moment, is an append-only list of grants of which only the last is open *)
(* -- the fact docs/queue-vs-log.md derives the claim log from.            *)
THEOREM ObjectImplementsLedger == Spec => ImplementsLedger
<1>1. Init => Ledger!Init
  BY DEF Init, Ledger!Init, ReportedLedger
<1>2. ASSUME IInv, IInv', AnyStep
      PROVE  Ledger!Next \/ ReportedLedger' = ReportedLedger
  <2>1. ASSUME NEW a \in Agent, NEW ms \in Nat, NEW why \in {"free", "expired"},
               GrantStep(a, ms, why)
        PROVE  Ledger!Next
    BY <1>2, <2>1, GrantRefines DEF Ledger!Next
  <2>2. ASSUME NEW ms \in Nat, NEW ref \in Referent \cup {Null}, ExtendStep(ms, ref)
        PROVE  Ledger!Next \/ ReportedLedger' = ReportedLedger
    BY <1>2, <2>2, ExtendRefines
  <2>3. ASSUME NEW st \in Asked, EndStep(st)
        PROVE  Ledger!Next
    BY <1>2, <2>3, EndRefines
  <2>4. CASE Tick
    BY <1>2, <2>4, TickRefines
  <2>5. CASE UNCHANGED vars
    BY <2>5 DEF vars, ReportedLedger, EffectiveStatus
  <2>. QED
    BY <1>2, <2>1, <2>2, <2>3, <2>4, <2>5 DEF AnyStep
<1>3. UNCHANGED vars => ReportedLedger' = ReportedLedger
  BY DEF vars, ReportedLedger, EffectiveStatus
<1>4. [IInv /\ IInv' /\ AnyStep]_vars => [Ledger!Next]_ReportedLedger
  BY <1>2, <1>3
<1>. QED
  BY <1>1, <1>4, SpecSteps, PTL DEF Spec, ImplementsLedger, Ledger!Spec

-----------------------------------------------------------------------------
(* The alarms of the expiry monitor.                                       *)

Alarm(r) == [fencing |-> r.fencing, closedAt |-> ClosedAt(r), referent |-> r.referent]

(* A bound lease that lapsed, whatever its age.                            *)
LapsedBound(r, t) == EffectiveStatus(r, t) = "expired" /\ r.referent # Null

IsAlarm(r, t) == LapsedBound(r, t) /\ t - ClosedAt(r) <= AlarmWindow

(* What the alarms at time t of a history h are.                           *)
AlarmsIn(h, t) ==
  {[fencing |-> r.fencing, closedAt |-> ClosedAt(r), referent |-> r.referent] :
     r \in {h[i] : i \in {j \in DOMAIN h : ClassifyExpiry(h[j], t) = "alarming"}}}

LEMMA AlarmsOfHistory ==
  ASSUME NEW h \in Seq(Record), NEW t \in Nat
  PROVE  \A x : x \in AlarmsIn(h, t) <=>
           \E j \in 1..Len(h) : IsAlarm(h[j], t) /\ x = Alarm(h[j])
<1>1. ASSUME NEW j \in 1..Len(h)
      PROVE  ClassifyExpiry(h[j], t) = "alarming" <=> IsAlarm(h[j], t)
  <2>1. h[j] \in Record
    OBVIOUS
  <2>2. ClosedAt(h[j]) \in Nat
    BY <2>1 DEF Record, ClosedAt
  <2>3. t - ClosedAt(h[j]) > AlarmWindow <=> ~(t - ClosedAt(h[j]) <= AlarmWindow)
    BY <2>2, WatchAssumption
  <2>. QED
    BY <2>3 DEF ClassifyExpiry, IsAlarm, LapsedBound
<1>2. DOMAIN h = 1..Len(h)
  OBVIOUS
<1>. QED
  BY <1>1, <1>2, Zenon DEF AlarmsIn, Alarm

(* An ended record makes the same alarm after the step, until it is old.   *)
LEMMA EndedAlarm ==
  ASSUME IInv, IInv', AnyStep, NEW j \in 1..Len(history),
         EffectiveStatus(history[j], now) # "active"
  PROVE  /\ j \in 1..Len(history')
         /\ Alarm(history'[j]) = Alarm(history[j])
         /\ IsAlarm(history'[j], now') <=> /\ IsAlarm(history[j], now)
                                           /\ now' - ClosedAt(history[j]) <= AlarmWindow
<1>1. /\ j \in 1..Len(history') /\ KeptOrLapsed(history[j], history'[j]) /\ now <= now'
      /\ Repeats(history[j], history'[j])
  BY OldRecords, EndedRepeats
<1>2. /\ now \in Nat /\ now' \in Nat /\ history[j] \in Record
      /\ history[j].status = "active" => history[j].releasedAt = Null
  BY DEF IInv, TypeOK, HistoryMatchesLease
<1>3. history'[j].fencing = history[j].fencing /\ ClosedAt(history'[j]) = ClosedAt(history[j])
  <2>1. CASE history'[j] = history[j]
    BY <2>1
  <2>2. CASE /\ history[j].status = "active"
             /\ history'[j] = [history[j] EXCEPT !.status = "expired",
                                                 !.releasedAt = history[j].expiresAt]
    <3>1. /\ history'[j].fencing = history[j].fencing
          /\ history'[j].releasedAt = history[j].expiresAt
          /\ history[j].expiresAt \in Nat
      BY <1>2, <2>2 DEF Record
    <3>. QED
      BY <1>2, <2>2, <3>1, ConstantAssumption DEF ClosedAt
  <2>. QED
    BY <1>1, <2>1, <2>2 DEF KeptOrLapsed
<1>4. ClosedAt(history[j]) \in Nat
  BY <1>2 DEF Record, ClosedAt
<1>5. now' - ClosedAt(history[j]) <= AlarmWindow => now - ClosedAt(history[j]) <= AlarmWindow
  BY <1>1, <1>2, <1>4, WatchAssumption
<1>. QED
  BY <1>1, <1>3, <1>5 DEF Repeats, Alarm, IsAlarm, LapsedBound

(* The live record makes an alarm with the step in which it lapses, and    *)
(* only then.                                                              *)
LEMMA LiveAlarm ==
  ASSUME IInv, IInv', AnyStep, IsLive(lease, now)
  PROVE  /\ Len(history') = Len(history) /\ Len(history) \in 1..Len(history)
         /\ ~IsAlarm(history[Len(history)], now)
         /\ IsAlarm(history'[Len(history)], now') <=> Lapses
         /\ Lapses => Alarm(history'[Len(history)]) = Lapse
         /\ Lapses => now' - lease'.expiresAt <= AlarmWindow
<1>. DEFINE n == Len(history)
<1>1. /\ n \in 1..n /\ LastRecord \in Record /\ LastRecord = history[n]
      /\ LastRecord.fencing = lease.fencing /\ LastRecord.status = "active"
      /\ LastRecord.releasedAt = Null /\ LastRecord.expiresAt = lease.expiresAt
      /\ LastRecord.referent = lease.referent
      /\ lease.expiresAt \in Nat /\ now < lease.expiresAt /\ now \in Nat
      /\ lease \in LeaseState /\ lease.holder # Null /\ lease.expiresAt # Null
  BY LiveRecord DEF IInv, TypeOK, LastRecord, IsLive
<1>2. EffectiveStatus(history[n], now) = "active"
  BY <1>1, EndedIsNotLive
<1>3. ~IsAlarm(history[n], now)
  BY <1>2 DEF IsAlarm, LapsedBound
<1>4. ASSUME NEW ms \in Nat, NEW ref \in Referent \cup {Null}, ExtendStep(ms, ref)
      PROVE  /\ Len(history') = n
             /\ IsAlarm(history'[n], now') <=> Lapses
             /\ Lapses => Alarm(history'[n]) = Lapse /\ now' - lease'.expiresAt <= AlarmWindow
  <2>1. /\ lease'.holder = lease.holder /\ lease'.expiresAt = now + ms
        /\ lease'.fencing = lease.fencing /\ lease'.referent = ref /\ now' = now
    BY <1>1, <1>4 DEF ExtendStep, LeaseState
  <2>2. /\ Len(history') = n
        /\ history'[n] = [LastRecord EXCEPT !.expiresAt = now + ms, !.referent = ref]
    BY <1>1, <1>4 DEF ExtendStep, LastReplaced
  <2>3. /\ history'[n].status = "active" /\ history'[n].expiresAt = now + ms
        /\ history'[n].releasedAt = Null /\ history'[n].referent = ref
        /\ history'[n].fencing = lease.fencing
    BY <1>1, <2>2 DEF Record
  <2>4. now + ms # Null
    BY <1>1, ConstantAssumption
  <2>5. Lapses <=> ms = 0 /\ ref # Null
    BY <1>1, <2>1, <2>4 DEF Lapses, IsLive
  <2>6. LapsedBound(history'[n], now') <=> ms = 0 /\ ref # Null
    BY <1>1, <2>1, <2>3 DEF LapsedBound, EffectiveStatus
  <2>7. ClosedAt(history'[n]) = now + ms
    BY <2>3 DEF ClosedAt
  <2>8. ms = 0 => now' - (now + ms) <= AlarmWindow
    BY <1>1, <2>1, WatchAssumption
  <2>. QED
    BY <2>1, <2>2, <2>3, <2>5, <2>6, <2>7, <2>8 DEF IsAlarm, Alarm, Lapse
<1>5. ASSUME NEW st \in Asked, EndStep(st)
      PROVE  Len(history') = n /\ ~IsAlarm(history'[n], now') /\ ~Lapses
  <2>1. lease'.holder = Null
    BY <1>5 DEF EndStep, Freed, EmptyState
  <2>2. Len(history') = n /\ history'[n] = [LastRecord EXCEPT !.status = st, !.releasedAt = now]
    BY <1>1, <1>5 DEF EndStep, LastReplaced
  <2>3. history'[n].status = st
    BY <1>1, <2>2 DEF Record
  <2>. QED
    BY <2>1, <2>2, <2>3 DEF Lapses, IsAlarm, LapsedBound, EffectiveStatus, Asked
<1>6. ASSUME UNCHANGED <<lease, history>>, now' \in {now, now + 1}
      PROVE  /\ Len(history') = n
             /\ IsAlarm(history'[n], now') <=> Lapses
             /\ Lapses => Alarm(history'[n]) = Lapse /\ now' - lease'.expiresAt <= AlarmWindow
  <2>1. Lapses <=> now' >= lease.expiresAt /\ lease.referent # Null
    BY <1>1, <1>6 DEF Lapses, IsLive
  <2>2. LapsedBound(history'[n], now') <=> now' >= lease.expiresAt /\ lease.referent # Null
    BY <1>1, <1>6 DEF LapsedBound, EffectiveStatus
  <2>3. ClosedAt(history'[n]) = lease.expiresAt
    BY <1>1, <1>6 DEF ClosedAt
  <2>4. now' >= lease.expiresAt => now' - lease.expiresAt <= AlarmWindow
    BY <1>1, <1>6, WatchAssumption
  <2>. QED
    BY <1>1, <1>6, <2>1, <2>2, <2>3, <2>4 DEF IsAlarm, Alarm, Lapse
<1>7. \A a \in Agent, ms \in Nat, why \in {"free", "expired"} : ~GrantStep(a, ms, why)
  BY DEF GrantStep
<1>. QED
  BY <1>1, <1>3, <1>4, <1>5, <1>6, <1>7 DEF AnyStep, Tick, vars

(* A grant's new record is no alarm, and nothing lapses with it.           *)
LEMMA NoOtherAlarm ==
  ASSUME IInv, IInv', AnyStep, NEW j \in 1..Len(history'), j \notin 1..Len(history)
  PROVE  ~IsAlarm(history'[j], now')
<1>0. Len(history) \in Nat /\ Len(history') \in Nat
  BY DEF IInv, TypeOK
<1>1. PICK a \in Agent, ms \in Nat, why \in {"free", "expired"} : GrantStep(a, ms, why)
  BY <1>0 DEF AnyStep, ExtendStep, EndStep, Tick, vars, LastReplaced
<1>2. Len(history') = Len(history) + 1 /\ history'[Len(history) + 1].referent = Null
  <2>1. Len(history') = Len(history) + 1
    BY <1>1 DEF GrantStep
  <2>2. history'[Len(history) + 1] =
          [fencing |-> lease.fencing + 1, agent |-> a, grantedAt |-> now,
           expiresAt |-> now + ms, releasedAt |-> Null, status |-> "active",
           reason |-> why, referent |-> Null]
    BY <1>1, Zenon DEF GrantStep
  <2>. QED
    BY <2>1, <2>2
<1>3. history'[j].referent = Null
  <2>1. j = Len(history) + 1
    BY <1>0, <1>2
  <2>. QED
    BY <1>2, <2>1
<1>. QED
  BY <1>3 DEF IsAlarm, LapsedBound

(* The monitor raises an alarm exactly when a bound lease runs out, and no *)
(* later claim, bind, renewal, release or stale reap makes one, hides one  *)
(* or moves its time: an alarm is evidence about the reaper alone          *)
(* (src/expiry-watch.ts, classifyExpiry).                                  *)
THEOREM AlarmsAreEvidence == Spec => AlarmsAreLapses
<1>. DEFINE New == Alarms \cup (IF Lapses THEN {Lapse} ELSE {})
<1>1. ASSUME IInv, IInv', AnyStep
      PROVE  Alarms' = {a \in New : now' - a.closedAt <= AlarmWindow}
  <2>0. /\ history \in Seq(Record) /\ now \in Nat /\ history' \in Seq(Record) /\ now' \in Nat
        /\ Alarms = AlarmsIn(history, now) /\ Alarms' = AlarmsIn(history', now')
    BY <1>1 DEF IInv, TypeOK, Alarms, AlarmsIn
  <2>1. \A x : x \in Alarms <=>
          \E j \in 1..Len(history) : IsAlarm(history[j], now) /\ x = Alarm(history[j])
    BY <2>0, AlarmsOfHistory
  <2>2. \A x : x \in Alarms' <=>
          \E j \in 1..Len(history') : IsAlarm(history'[j], now') /\ x = Alarm(history'[j])
    BY <2>0, AlarmsOfHistory
  <2>3. \A j \in 1..Len(history) : Alarm(history[j]).closedAt = ClosedAt(history[j])
    BY DEF Alarm
  <2>4. Lapses => IsLive(lease, now)
    BY DEF Lapses
  <2>5. \A j \in 1..Len(history) :
          EffectiveStatus(history[j], now) = "active" => j = Len(history) /\ IsLive(lease, now)
    BY <1>1, OpenIsLive
  <2>6. ASSUME NEW x \in Alarms' PROVE x \in New /\ now' - x.closedAt <= AlarmWindow
    <3>1. PICK j \in 1..Len(history') : IsAlarm(history'[j], now') /\ x = Alarm(history'[j])
      BY <2>2, <2>6
    <3>2. j \in 1..Len(history)
      BY <1>1, <3>1, NoOtherAlarm
    <3>3. CASE EffectiveStatus(history[j], now) = "active"
      <4>1. j = Len(history) /\ IsLive(lease, now)
        BY <2>5, <3>2, <3>3
      <4>2. Lapses /\ x = Lapse /\ now' - lease'.expiresAt <= AlarmWindow
        BY <1>1, <3>1, <4>1, LiveAlarm
      <4>. QED
        BY <4>2 DEF Lapse
    <3>4. CASE EffectiveStatus(history[j], now) # "active"
      BY <1>1, <2>1, <2>3, <3>1, <3>2, <3>4, EndedAlarm
    <3>. QED
      BY <3>3, <3>4
  <2>7. ASSUME NEW x \in New, now' - x.closedAt <= AlarmWindow PROVE x \in Alarms'
    <3>1. CASE Lapses /\ x = Lapse
      BY <1>1, <2>2, <2>4, <3>1, LiveAlarm
    <3>2. CASE x \in Alarms
      <4>1. PICK j \in 1..Len(history) : IsAlarm(history[j], now) /\ x = Alarm(history[j])
        BY <2>1, <3>2
      <4>2. EffectiveStatus(history[j], now) # "active"
        BY <4>1 DEF IsAlarm, LapsedBound
      <4>. QED
        BY <1>1, <2>2, <2>3, <2>7, <4>1, <4>2, EndedAlarm
    <3>. QED
      BY <2>7, <3>1, <3>2
  <2>. HIDE DEF New
  <2>. QED
    BY <2>6, <2>7
<1>2. [IInv /\ IInv' /\ AnyStep]_vars
        => [Alarms' = {a \in New : now' - a.closedAt <= AlarmWindow}]_vars
  BY <1>1
<1>. QED
  BY <1>2, SpecSteps, PTL DEF AlarmsAreLapses
=============================================================================
