------------------------------ MODULE LeaseCore ------------------------------
(***************************************************************************)
(* The lease decision of worker/lease/src/lease-core.mjs: pure operators   *)
(* over one item's stored lease and its grant history.  As in the code,    *)
(* nothing here knows about storage, HTTP or concurrency; LeaseObject and  *)
(* LeasePlane supply those.                                                *)
(*                                                                         *)
(* Time is the worker's millisecond clock.  A duration `ms' is what ttlMs  *)
(* returns: floor(ttl_sec * 1000), which is 0 for a positive ttl_sec below *)
(* a millisecond.  Requests that validation rejects (a 400 reply) change   *)
(* nothing and are not represented.                                        *)
(***************************************************************************)
EXTENDS Naturals, Sequences

CONSTANT Null   \* JavaScript's null: no holder, no expiry, no referent

Terminal == {"released", "completed", "expired", "reaped"}

EmptyState ==
  [holder |-> Null, expiresAt |-> Null, fencing |-> 0, referent |-> Null]

(* Mutant: the lease counts as over a moment before its expiry.            *)
IsLiveShort(s, now) ==
  /\ s.holder # Null
  /\ s.expiresAt # Null
  /\ now + 1 < s.expiresAt

IsLive(s, now) ==
  /\ s.holder # Null
  /\ s.expiresAt # Null
  /\ now < s.expiresAt

-----------------------------------------------------------------------------
(* A decision is the state to store, whether the request was honoured, and *)
(* the reason given to the caller.                                         *)

Refuse(s, why) == [state |-> s, ok |-> FALSE, reason |-> why]
Accept(s, why) == [state |-> s, ok |-> TRUE,  reason |-> why]

(* Mutants: the counter is forgotten with the holder; the record is left   *)
(* in the shape it had before it carried a referent.                       *)
FreedResets(s) == EmptyState
FreedShort(s) == [holder |-> Null, expiresAt |-> Null, fencing |-> s.fencing]

(* What a released or reaped lease leaves behind: only the counter.        *)
Freed(s) == [EmptyState EXCEPT !.fencing = s.fencing]

(* Mutants: a holder's own claim re-latches; a lapsed token is re-issued.  *)
DecideClaimRelatches(s, agent, ms, now) ==
  IF IsLive(s, now) /\ s.holder # agent
  THEN Refuse(s, "held")
  ELSE Accept([holder |-> agent, expiresAt |-> now + ms,
               fencing |-> s.fencing + 1, referent |-> Null], "free")

DecideClaimReissues(s, agent, ms, now) ==
  IF IsLive(s, now)
  THEN Refuse(s, "held")
  ELSE Accept([holder |-> agent, expiresAt |-> now + ms,
               fencing |-> IF s.holder = Null THEN s.fencing + 1 ELSE s.fencing,
               referent |-> Null], "free")

DecideClaim(s, agent, ms, now) ==
  IF IsLive(s, now)
  THEN Refuse(s, IF s.holder = agent THEN "already-held-by-you" ELSE "held")
  ELSE Accept([holder    |-> agent,
               expiresAt |-> now + ms,
               fencing   |-> s.fencing + 1,
               referent  |-> Null],
              IF s.holder = Null THEN "free" ELSE "expired")

(* Mutant: the holder is checked, the token is not.                        *)
HolderGateAnyToken(s, agent, fencing, now, whenDead) ==
  IF ~IsLive(s, now) THEN whenDead
  ELSE IF s.holder # agent THEN "not-holder"
  ELSE "pass"

(* The gate renew, bind and release share: live, the holder, the current   *)
(* token -- tested in that order, since the first failure is the reason.   *)
HolderGate(s, agent, fencing, now, whenDead) ==
  IF ~IsLive(s, now) THEN whenDead
  ELSE IF s.holder # agent THEN "not-holder"
  ELSE IF fencing # s.fencing THEN "stale-fencing"
  ELSE "pass"

(* Mutant: a heartbeat is honoured whoever sends it.                       *)
DecideRenewUngated(s, agent, fencing, ms, now) ==
  IF ~IsLive(s, now) THEN Refuse(s, "expired")
  ELSE Accept([s EXCEPT !.expiresAt = now + ms], "renewed")

DecideRenew(s, agent, fencing, ms, now) ==
  LET gate == HolderGate(s, agent, fencing, now, "expired")
  IN  IF gate # "pass" THEN Refuse(s, gate)
      ELSE Accept([s EXCEPT !.expiresAt = now + ms], "renewed")

DecideBind(s, agent, fencing, ms, referent, now) ==
  LET gate == HolderGate(s, agent, fencing, now, "expired")
  IN  IF gate # "pass" THEN Refuse(s, gate)
      ELSE Accept([s EXCEPT !.referent = referent, !.expiresAt = now + ms],
                  "bound")

DecideRelease(s, agent, fencing, status, now) ==
  LET gate == HolderGate(s, agent, fencing, now, "not-held")
  IN  IF gate # "pass" THEN Refuse(s, gate) ELSE Accept(Freed(s), status)

(* Mutants: evidence about any grant will do; about any referent will do.  *)
DecideReapAnyGrant(s, fencing, referent, now) ==
  IF ~IsLive(s, now) THEN Refuse(s, "not-held")
  ELSE IF s.referent # referent THEN Refuse(s, "referent-mismatch")
  ELSE Accept(Freed(s), "reaped")

DecideReapAnyReferent(s, fencing, referent, now) ==
  IF ~IsLive(s, now) THEN Refuse(s, "not-held")
  ELSE IF fencing # s.fencing THEN Refuse(s, "stale-fencing")
  ELSE Accept(Freed(s), "reaped")

(* The collector's release: not gated on the holder, who is presumed gone, *)
(* but on the token and the referent the collector's evidence is about.    *)
DecideReap(s, fencing, referent, now) ==
  IF ~IsLive(s, now) THEN Refuse(s, "not-held")
  ELSE IF fencing # s.fencing THEN Refuse(s, "stale-fencing")
  ELSE IF s.referent = Null THEN Refuse(s, "no-referent")
  ELSE IF s.referent # referent THEN Refuse(s, "referent-mismatch")
  ELSE Accept(Freed(s), "reaped")

-----------------------------------------------------------------------------
(* historyStep, one operator per kind of honoured request.  `before' and   *)
(* `after' are the stored states around the transition.                    *)

(* The record of a grant that a later claim found lapsed is closed at its  *)
(* recorded expiry, not at the time somebody next showed up.               *)
CloseLapsed(history, before) ==
  [i \in DOMAIN history |->
     IF history[i].fencing = before.fencing /\ history[i].status = "active"
     THEN [history[i] EXCEPT !.status = "expired",
                             !.releasedAt = history[i].expiresAt]
     ELSE history[i]]

(* Mutants: the lapsed record is left open; it is closed when found.       *)
RecordGrantOnly(history, before, after, reason, now) ==
  Append(history,
         [fencing |-> after.fencing, agent |-> after.holder, grantedAt |-> now,
          expiresAt |-> after.expiresAt, releasedAt |-> Null,
          status |-> "active", reason |-> reason, referent |-> Null])

RecordGrantClosesNow(history, before, after, reason, now) ==
  LET closed == CloseLapsed(history, before)
  IN  RecordGrantOnly([i \in DOMAIN history |->
                         IF closed[i] = history[i] THEN history[i]
                         ELSE [closed[i] EXCEPT !.releasedAt = now]],
                      before, after, reason, now)

RecordGrant(history, before, after, reason, now) ==
  Append(CloseLapsed(history, before),
         [fencing    |-> after.fencing,
          agent      |-> after.holder,
          grantedAt  |-> now,
          expiresAt  |-> after.expiresAt,
          releasedAt |-> Null,
          status     |-> "active",
          reason     |-> reason,
          referent   |-> Null])

RecordRenew(history, after) ==
  [i \in DOMAIN history |->
     IF history[i].fencing = after.fencing
     THEN [history[i] EXCEPT !.expiresAt = after.expiresAt]
     ELSE history[i]]

RecordBind(history, after) ==
  [i \in DOMAIN history |->
     IF history[i].fencing = after.fencing
     THEN [history[i] EXCEPT !.expiresAt = after.expiresAt,
                             !.referent = after.referent]
     ELSE history[i]]

RecordClose(history, before, status, now) ==
  [i \in DOMAIN history |->
     IF history[i].fencing = before.fencing
     THEN [history[i] EXCEPT !.status = status, !.releasedAt = now]
     ELSE history[i]]

(* A record's status as of `now': an active record past its expiry reads   *)
(* as expired although nothing has been written.                           *)
EffectiveStatus(r, now) ==
  IF r.status = "active" /\ now >= r.expiresAt THEN "expired" ELSE r.status

(* When the interval ended, as the projection renders it from /history.    *)
EffectiveEnd(r, now) ==
  IF r.releasedAt # Null THEN r.releasedAt
  ELSE IF EffectiveStatus(r, now) = "expired" THEN r.expiresAt
  ELSE Null

(* The /status view: the holder is reported only while the lease is live.  *)
Describe(s, now) ==
  [holder   |-> IF IsLive(s, now) THEN s.holder ELSE Null,
   fencing  |-> s.fencing,
   live     |-> IsLive(s, now),
   referent |-> s.referent]
=============================================================================
