------------------------------ MODULE LeasePlane ------------------------------
(***************************************************************************)
(* The lease plane end to end: the Durable Objects of several items, the   *)
(* sessions that claim, bind, renew and release through src/lease-client.ts *)
(* over a network that loses and delays, the pull requests leases are      *)
(* bound to, and the reaper (src/reaper.ts, scripts/reap-leases.ts) that   *)
(* collects a lease once its pull request is finished.                     *)
(*                                                                         *)
(* An HTTP call is one pending request per caller.  Serve is the object's  *)
(* side, Receive the caller reading the reply.  A transport failure throws *)
(* in the caller and tells it nothing: the request may be lost, may have   *)
(* been served with the reply lost, or may still arrive later (`late').    *)
(* One item's lease is the state of LeaseObject; its history, which never  *)
(* influences a decision, is left to that module.                          *)
(***************************************************************************)
EXTENDS LeaseCore, FiniteSets

CONSTANTS Session,      \* processes that hold, or try to hold, a lease
          AgentOf,      \* the identity each acts under; two may share one
          Item,         \* board items, one Durable Object each
          Referent,     \* pull requests
          Verbs,        \* what a holder does besides claiming
          ClaimTtl,     \* --ttl of claim: the time to produce a referent
          BindTtl,      \* --ttl of bind: the backstop
          MaxNow,       \* bound: the clock stops here
          MaxFencing,   \* bound: grants per item
          MaxLate,      \* bound: abandoned requests still travelling
          MaxFaults     \* bound: failures of a sweep (liveness needs one)

ASSUME PlaneAssumption ==
  /\ IsFiniteSet(Item)
  /\ AgentOf \in [Session -> {AgentOf[p] : p \in Session}]
  /\ Verbs \subseteq {"bind", "renew", "release"}
  /\ {ClaimTtl, BindTtl, MaxNow, MaxFencing, MaxLate, MaxFaults} \subseteq Nat
  /\ Null \notin Nat \cup Session \cup Item \cup Referent
                 \cup {AgentOf[p] : p \in Session}

VARIABLES lease,     \* [Item -> the object's stored lease]
          now,       \* the clock the objects share
          session,   \* [Session -> what the process knows and awaits]
          late,      \* requests whose caller has given up on them
          pr,        \* [Referent -> "open", "closed" or "merged"]
          sweep,     \* [Item -> how far the reaper is with it]
          faults,    \* failures the reaper has had
          grantee,   \* history: the session whose claim made the last grant
          finished   \* history: referents finished at some time during it

vars == <<lease, now, session, late, pr, sweep, faults, grantee, finished>>

Agent == {AgentOf[p] : p \in Session}

(* The candidate lists a claim can walk: rankings of some of the items, a  *)
(* single item when it is named.                                           *)
Walk == {w \in UNION {[1..n -> Item] : n \in 1..Cardinality(Item)} :
           \A i, j \in DOMAIN w : i # j => w[i] # w[j]}

Request == [kind     : {"claim", "bind", "renew", "release", "reap"},
            from     : Session \cup {Null},
            agent    : Agent \cup {Null},
            item     : Item,
            fencing  : 0..MaxFencing,
            referent : Referent \cup {Null}]

Reason == {"free", "expired", "held", "already-held-by-you", "not-held",
           "not-holder", "stale-fencing", "no-referent", "referent-mismatch",
           "bound", "renewed", "released", "reaped"}

Reply == [ok : BOOLEAN, reason : Reason, fencing : 0..MaxFencing]

Idle == [item |-> Null, fencing |-> 0, walk |-> <<>>, call |-> Null, reply |-> Null]

Rest == [phase |-> "rest", fencing |-> 0, referent |-> Null]

TypeOK ==
  /\ lease \in [Item -> [holder    : Agent \cup {Null},
                         expiresAt : Nat \cup {Null},
                         fencing   : 0..MaxFencing,
                         referent  : Referent \cup {Null}]]
  /\ now \in 0..MaxNow
  /\ session \in [Session -> [item    : Item \cup {Null},
                              fencing : 0..MaxFencing,
                              walk    : Walk \cup {<<>>},
                              call    : Request \cup {Null},
                              reply   : Reply \cup {Null}]]
  /\ \A p \in Session : session[p].reply # Null => session[p].call # Null
  /\ late \subseteq Request /\ Cardinality(late) <= MaxLate
  /\ pr \in [Referent -> {"open", "closed", "merged"}]
  /\ sweep \in [Item -> [phase    : {"rest", "probe", "reap"},
                         fencing  : 0..MaxFencing,
                         referent : Referent \cup {Null}]]
  /\ faults \in 0..MaxFaults
  /\ grantee \in [Item -> Session \cup {Null}]
  /\ finished \in [Item -> SUBSET Referent]

Init ==
  /\ lease = [i \in Item |-> EmptyState]
  /\ now = 0
  /\ session = [p \in Session |-> Idle]
  /\ late = {}
  /\ pr = [r \in Referent |-> "open"]
  /\ sweep = [i \in Item |-> Rest]
  /\ faults = 0
  /\ grantee = [i \in Item |-> Null]
  /\ finished = [i \in Item |-> {}]

(* Mutant: only a pull request closed unmerged is taken for finished.      *)
ClosedUnmerged(r) == pr[r] = "closed"

Finished(r) == pr[r] # "open"

-----------------------------------------------------------------------------
(* The sessions.                                                           *)

Ask(p, kind, item, fencing, referent) ==
  [kind |-> kind, from |-> p, agent |-> AgentOf[p], item |-> item,
   fencing |-> fencing, referent |-> referent]

Calls(p, m, rest) ==
  session' = [session EXCEPT ![p].call = m, ![p].walk = rest]

(* claimNext: ask for the first candidate, keep the rest of the list.      *)
StartClaim(p, w) ==
  /\ session[p].item = Null /\ session[p].call = Null
  /\ Calls(p, Ask(p, "claim", Head(w), 0, Null), Tail(w))
  /\ UNCHANGED <<lease, now, late, pr, sweep, faults, grantee, finished>>

(* bindReferent, renewLease, releaseClaim, with the item and token granted. *)
StartVerb(p, kind, r) ==
  /\ session[p].item # Null /\ session[p].call = Null
  /\ Calls(p, Ask(p, kind, session[p].item, session[p].fencing, r), <<>>)
  /\ UNCHANGED <<lease, now, late, pr, sweep, faults, grantee, finished>>

(* The reply is read.  A refused claim asks for the next candidate.        *)
Receive(p) ==
  LET s == session[p]
      m == s.call
      after ==
        IF m.kind = "claim" /\ s.reply.ok
        THEN [Idle EXCEPT !.item = m.item, !.fencing = s.reply.fencing]
        ELSE IF m.kind = "claim" /\ s.walk # <<>>
        THEN [Idle EXCEPT !.call = Ask(p, "claim", Head(s.walk), 0, Null),
                          !.walk = Tail(s.walk)]
        ELSE IF m.kind = "claim" \/ (m.kind = "release" /\ s.reply.ok)
        THEN Idle
        ELSE [s EXCEPT !.call = Null, !.reply = Null]
  IN  /\ s.reply # Null
      /\ session' = [session EXCEPT ![p] = after]
      /\ UNCHANGED <<lease, now, late, pr, sweep, faults, grantee, finished>>

(* A request nobody waits for any more is lost, or keeps travelling.       *)
Abandon(m) ==
  \/ late' = late
  \/ /\ Cardinality(late \cup {m}) <= MaxLate
     /\ late' = late \cup {m}

(* lease-client's call throws: the walk is over, the grant is not given up. *)
TransportFailure(p) ==
  LET s == session[p]
  IN  /\ s.call # Null
      /\ IF s.reply = Null THEN Abandon(s.call) ELSE late' = late
      /\ session' = [session EXCEPT ![p] =
           [Idle EXCEPT !.item = s.item, !.fencing = s.fencing]]
      /\ UNCHANGED <<lease, now, pr, sweep, faults, grantee, finished>>

(* The process dies, or its user loses the token: nothing is persisted.    *)
Forget(p) ==
  /\ session[p].item # Null /\ session[p].call = Null
  /\ session' = [session EXCEPT ![p] = Idle]
  /\ UNCHANGED <<lease, now, late, pr, sweep, faults, grantee, finished>>

-----------------------------------------------------------------------------
(* The objects.                                                            *)

Decision(m) ==
  LET s == lease[m.item]
  IN  CASE m.kind = "claim"   -> DecideClaim(s, m.agent, ClaimTtl, now)
        [] m.kind = "bind"    -> DecideBind(s, m.agent, m.fencing, BindTtl, m.referent, now)
        [] m.kind = "renew"   -> DecideRenew(s, m.agent, m.fencing, ClaimTtl, now)
        [] m.kind = "release" -> DecideRelease(s, m.agent, m.fencing, "released", now)
        [] m.kind = "reap"    -> DecideReap(s, m.fencing, m.referent, now)

(* One handler of the object: the stored lease and, when the request is a  *)
(* claim that is granted, whose grant it now is.                           *)
Serve(m) ==
  LET d == Decision(m)
      granted == m.kind = "claim" /\ d.ok
  IN  /\ d.state.fencing <= MaxFencing
      /\ lease' = [lease EXCEPT ![m.item] = d.state]
      /\ grantee' = IF granted THEN [grantee EXCEPT ![m.item] = m.from] ELSE grantee
      /\ finished' = IF granted
                     THEN [finished EXCEPT ![m.item] = {r \in Referent : Finished(r)}]
                     ELSE finished
      /\ UNCHANGED <<now, pr, faults>>

ServeCall(p) ==
  LET m == session[p].call
  IN  /\ m # Null /\ session[p].reply = Null
      /\ Serve(m)
      /\ session' = [session EXCEPT ![p].reply =
           [ok |-> Decision(m).ok, reason |-> Decision(m).reason,
            fencing |-> Decision(m).state.fencing]]
      /\ UNCHANGED <<late, sweep>>

(* A late request is served like any other; nobody reads the reply.        *)
ServeLate(m) ==
  /\ m \in late
  /\ Serve(m)
  /\ late' = late \ {m}
  /\ UNCHANGED <<session, sweep>>

-----------------------------------------------------------------------------
(* The reaper: for each candidate, /status, then the probe, then /reap.    *)

(* planReap on one /status snapshot: a live, bound lease is worth a probe; *)
(* anything else is skipped, which changes nothing.                        *)
Poll(i) ==
  LET view == Describe(lease[i], now)
  IN  /\ sweep[i] = Rest
      /\ view.live /\ view.referent # Null
      /\ sweep' = [sweep EXCEPT ![i] =
           [phase |-> "probe", fencing |-> view.fencing, referent |-> view.referent]]
      /\ UNCHANGED <<lease, now, session, late, pr, faults, grantee, finished>>

(* verdictFromPrProbe: only a positive observation collects.               *)
Probe(i) ==
  /\ sweep[i].phase = "probe"
  /\ sweep' = [sweep EXCEPT ![i] =
       IF Finished(@.referent) THEN [@ EXCEPT !.phase = "reap"] ELSE Rest]
  /\ UNCHANGED <<lease, now, session, late, pr, faults, grantee, finished>>

ReapRequest(i) ==
  [kind |-> "reap", from |-> Null, agent |-> Null, item |-> i,
   fencing |-> sweep[i].fencing, referent |-> sweep[i].referent]

(* Refused or honoured, the sweep is done with the item: never a retry.    *)
ServeReap(i) ==
  /\ sweep[i].phase = "reap"
  /\ Serve(ReapRequest(i))
  /\ sweep' = [sweep EXCEPT ![i] = Rest]
  /\ UNCHANGED <<session, late>>

(* The probe observes nothing, a fetch throws, or the run is cancelled.    *)
SweepFails(i) ==
  /\ sweep[i] # Rest
  /\ faults < MaxFaults
  /\ faults' = faults + 1
  /\ IF sweep[i].phase = "reap" THEN Abandon(ReapRequest(i)) ELSE late' = late
  /\ sweep' = [sweep EXCEPT ![i] = Rest]
  /\ UNCHANGED <<lease, now, session, pr, grantee, finished>>

-----------------------------------------------------------------------------
(* The world: pull requests and the clock.                                 *)

Close(r, how) ==
  /\ pr[r] = "open"
  /\ pr' = [pr EXCEPT ![r] = how]
  /\ finished' = [i \in Item |-> finished[i] \cup {r}]
  /\ UNCHANGED <<lease, now, session, late, sweep, faults, grantee>>

Reopen(r) ==
  /\ pr[r] = "closed"
  /\ pr' = [pr EXCEPT ![r] = "open"]
  /\ UNCHANGED <<lease, now, session, late, sweep, faults, grantee, finished>>

Tick ==
  /\ now < MaxNow
  /\ now' = now + 1
  /\ UNCHANGED <<lease, session, late, pr, sweep, faults, grantee, finished>>

-----------------------------------------------------------------------------
SessionStep(p) ==
  \/ \E w \in Walk : StartClaim(p, w)
  \/ "bind" \in Verbs /\ \E r \in Referent : StartVerb(p, "bind", r)
  \/ \E kind \in Verbs \ {"bind"} : StartVerb(p, kind, Null)
  \/ Receive(p)
  \/ TransportFailure(p)
  \/ Forget(p)

Next ==
  \/ \E p \in Session : SessionStep(p) \/ ServeCall(p)
  \/ \E m \in late : ServeLate(m)
  \/ \E i \in Item : Poll(i) \/ Probe(i) \/ ServeReap(i) \/ SweepFails(i)
  \/ \E r \in Referent : Close(r, "closed") \/ Close(r, "merged") \/ Reopen(r)
  \/ Tick

Spec == Init /\ [][Next]_vars

(* The scheduled sweep (reap-leases.yml) keeps coming back to every item,  *)
(* and what it asks for is answered.  Sessions and the clock owe nothing.  *)
FairSpec ==
  Spec /\ \A i \in Item : WF_vars(Poll(i)) /\ WF_vars(Probe(i)) /\ WF_vars(ServeReap(i))

-----------------------------------------------------------------------------
(* Exclusion as the sessions experience it: of all the sessions that think *)
(* they hold an item, at most one would be obeyed by the object now, even  *)
(* if several act under the same identity; and it is the grantee.          *)
OneObeyed ==
  \A p \in Session :
    LET i == session[p].item
    IN  /\ i # Null
        /\ HolderGate(lease[i], AgentOf[p], session[p].fencing, now, "dead") = "pass"
        => grantee[i] = p

(* A request that may change a live grant of item i: the grantee's own, or *)
(* a reap of a referent that was finished at some time during this grant.  *)
Entitled(m, i) ==
  /\ m.item = i
  /\ \/ m.from = grantee[i]
     \/ m.kind = "reap" /\ m.referent \in finished[i]

InFlight ==
  late \cup {session[p].call : p \in {q \in Session : session[q].call # Null}}
       \cup {ReapRequest(i) : i \in {j \in Item : sweep[j].phase = "reap"}}

(* No zombie, late or foreign request ever disturbs a live grant: while it *)
(* is live, a step that changes it serves a request entitled to.           *)
LiveGrantUndisturbed ==
  [][\A i \in Item :
       IsLive(lease[i], now) /\ lease'[i] # lease[i] =>
         \E m \in InFlight :
           Entitled(m, i) /\ lease'[i] = Decision(m).state]_vars

(* The reaper, on time or late, frees item i.                              *)
Collects(i) ==
  /\ IsLive(lease[i], now) /\ ~IsLive(lease'[i], now')
  /\ \/ ServeReap(i)
     \/ \E m \in late : m.kind = "reap" /\ m.item = i /\ ServeLate(m)

(* The reaper collects on evidence about this very grant: a lease it frees *)
(* is bound to a referent that was finished at some time during the grant, *)
(* and not just during an earlier grant of the same item.                  *)
CollectedOnEvidence ==
  [][\A i \in Item : Collects(i) => lease[i].referent \in finished[i]]_vars

(* The reaper is the primary release path: a live lease bound to a merged  *)
(* pull request does not stay that way, whether or not its holder lives.   *)
MergedIsCollected ==
  \A i \in Item, r \in Referent :
    IsLive(lease[i], now) /\ lease[i].referent = r /\ pr[r] = "merged"
      ~> ~(IsLive(lease[i], now) /\ lease[i].referent = r)

(* What `claim --item' tells a refused caller (src/verbs.ts): the item "is *)
(* held by another agent", a refusal having only that one reason.          *)
RefusedByAnother ==
  \A p \in Session :
    session[p].reply # Null /\ session[p].call.kind = "claim" =>
      session[p].reply.ok \/ session[p].reply.reason = "held"
=============================================================================
