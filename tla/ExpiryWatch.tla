----------------------------- MODULE ExpiryWatch -----------------------------
(***************************************************************************)
(* The expiry monitor (src/expiry-watch.ts, scripts/expiry-watch.ts) over  *)
(* the history of one Durable Object: each run reads /history anew, keeps  *)
(* no state, and raises an alarm for every lease that was bound and ended  *)
(* by lapsing, until the lapse is too old to be news.                      *)
(***************************************************************************)
EXTENDS LeaseObject

CONSTANT AlarmWindow    \* ALARM_WINDOW_DAYS, in clock units

ASSUME WatchAssumption == AlarmWindow \in Nat

(* When the interval of a record ended, if it has.                         *)
ClosedAt(r) == IF r.releasedAt # Null THEN r.releasedAt ELSE r.expiresAt

(* Mutant: the stored status, not the one as of the read.                  *)
ClassifyStored(r, t) ==
  IF r.status # "expired" THEN "not-expired"
  ELSE IF t - ClosedAt(r) > AlarmWindow THEN "outside-window"
  ELSE IF r.referent = Null THEN "ordinary" ELSE "alarming"

ClassifyExpiry(r, t) ==
  IF EffectiveStatus(r, t) # "expired" THEN "not-expired"
  ELSE IF t - ClosedAt(r) > AlarmWindow THEN "outside-window"
  ELSE IF r.referent = Null THEN "ordinary" ELSE "alarming"

(* The alarms of a run at this moment: token, end and referent.            *)
Alarms ==
  {[fencing |-> r.fencing, closedAt |-> ClosedAt(r), referent |-> r.referent] :
     r \in {history[i] : i \in {j \in DOMAIN history : ClassifyExpiry(history[j], now) = "alarming"}}}

(* A live lease runs out and is bound: the clock reaches its end, or its   *)
(* holder asks for a lifetime that rounds to nothing.                      *)
Lapses ==
  /\ IsLive(lease, now) /\ ~IsLive(lease', now')
  /\ lease'.holder # Null /\ lease'.referent # Null

(* The alarm of the lease that runs out with a step.                       *)
Lapse == [fencing |-> lease'.fencing, closedAt |-> lease'.expiresAt, referent |-> lease'.referent]

(* An alarm is evidence about the reaper and nothing else (expiry-watch.ts *)
(* classifyExpiry): it appears exactly when a bound lease runs out, and    *)
(* from then on no claim, bind, renewal, release or stale reap makes one,  *)
(* hides one or moves its time; it only grows too old to be news.          *)
AlarmsAreLapses ==
  [][Alarms' = {a \in Alarms \cup (IF Lapses THEN {Lapse} ELSE {}) :
                  now' - a.closedAt <= AlarmWindow}]_vars
=============================================================================
