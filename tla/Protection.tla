----------------------------- MODULE Protection -----------------------------
(***************************************************************************)
(* What protects one user in one group on one day, and how a reservation   *)
(* that waits for the user follows it.  Sources: routers/protections.py,   *)
(* services/protections.py and the waiting notices of                      *)
(* routers/roast_reservations.py.                                          *)
(*                                                                         *)
(* Gathering has the level of the protection; here are the rows behind it: *)
(* several sources, each with the level it gave and the number of breaks   *)
(* there had been by then, and the row of group __all__ that groups copy.  *)
(* A transaction holds the rows it reads (SQLite: the database) and is one *)
(* step; a conflict on a new row rolls it back and runs it again.  Clients *)
(* hold the lease of a notice across several requests whose answers can be *)
(* lost.                                                                   *)
(***************************************************************************)
EXTENDS Integers, FiniteSets

CONSTANTS
    Client,
    Granted,      \* levels that requests ask for
    MaxLevel,     \* 5 in the code
    Streak,       \* consecutive_days a row of yesterday may have
    MaxHits,      \* bound: breaks of the day
    MaxFire,      \* bound: fire of a reservation
    Nobody

ASSUME ProtectionAssumption ==
    /\ Granted \subseteq 1 .. MaxLevel /\ MaxLevel \in Nat
    /\ Streak \subseteq Nat /\ MaxHits \in Nat /\ MaxFire \in Nat \ {0} /\ Nobody \notin Client

Source == {"daily", "manual", "legacy"}
Level == 0 .. MaxLevel

VARIABLES
    shield,     \* the row of the group: source_levels (0: not held),
                \* source_baselines, consecutive_days, roast_success_count
    global,     \* the level of the row of group __all__ (0: no row)
    yesterday,  \* consecutive_days of yesterday's row (it never changes)
    rolled,     \* the user has rolled today
    wait,       \* the active reservation against the user
    replying,   \* a request has committed and will reconcile
    client,     \* what each client does with the notice it took
    worth,      \* history: the level of each source, counted break by break
    late,       \* history: the copy of __all__ is younger than the reservation
    mine,       \* history: the clients that took the latest notice
    shown       \* history: how often they showed it

vars == <<shield, global, yesterday, rolled, wait, replying, client,
          worth, late, mine, shown>>

None == [s \in Source |-> 0]
NoRow == [level |-> None, base |-> None, days |-> 0, hits |-> 0]
Protected(r) == r.level # None

(* The token of a lease is a fresh one: only the client that took the notice *)
(* last can match it, and nobody when the answer was lost.                   *)
Silent == [status |-> "none", holder |-> Nobody, stale |-> FALSE]
Register == [Silent EXCEPT !.status = "pending"]
Closed == [st |-> "none", need |-> 0, fire |-> 0, arrived |-> FALSE, notice |-> Silent]
Away == [phase |-> "away", need |-> 0]

TypeOK ==
    /\ shield \in [level : [Source -> Level], base : [Source -> 0 .. MaxHits],
                   days : Nat, hits : 0 .. MaxHits]
    /\ global \in Level /\ yesterday \in Streak /\ rolled \in BOOLEAN /\ replying \in BOOLEAN
    /\ wait.st \in {"none", "pending", "ready"} /\ wait.need \in 0 .. MaxLevel + 1
    /\ wait.fire \in 0 .. MaxFire
    /\ wait.notice.status \in {"none", "pending", "processing", "sending", "sent"}
    /\ wait.notice.holder \in Client \cup {Nobody}
    /\ client \in [Client -> [phase : {"away", "holds", "told", "posted"}, need : 0 .. MaxLevel + 1]]
    /\ mine \subseteq Client /\ shown \in Nat /\ worth \in [Source -> Level] /\ late \in BOOLEAN

Init ==
    /\ yesterday \in Streak
    /\ global \in {0} \cup Granted
    /\ \E l \in {0} \cup Granted :      \* a row from before there were sources
          /\ worth = [None EXCEPT !["legacy"] = l]
          /\ shield = [NoRow EXCEPT !.level = worth, !.days = IF l = 0 THEN 0 ELSE 1]
    /\ rolled = FALSE /\ wait = Closed /\ replying = FALSE
    /\ client = [c \in Client |-> Away]
    /\ late = FALSE /\ mine = {} /\ shown = 0

-----------------------------------------------------------------------------
(* services/protections.py *)

Least(a, b) == IF a <= b THEN a ELSE b

(* Mutant of protection_levels: all breaks of the day count for each source. *)
protection_levels_all(r) ==
    [s \in Source |-> IF r.level[s] = 0 THEN 0 ELSE Least(MaxLevel, r.level[s] + r.hits)]

(* Each source counts the breaks since it was given. *)
protection_levels(r) ==
    [s \in Source |-> IF r.level[s] = 0 THEN 0
                      ELSE Least(MaxLevel, r.level[s] + (r.hits - r.base[s]))]

protection_level(r) ==
    LET l == protection_levels(r)
    IN  CHOOSE m \in Level : (\E s \in Source : l[s] = m) /\ (\A s \in Source : l[s] <= m)

inherited(l) == [NoRow EXCEPT !.level["legacy"] = l]

(* A daily protection of the time before sources. *)
historical(r) == r.level["legacy"] > 0 /\ r.level["daily"] = 0 /\ r.days > 0

Threshold(r) == IF Protected(r) THEN 1 + protection_level(r) ELSE 0

(* _activate_reservation: without the fire the reservation waits on, and the *)
(* first arrival may ask for a notice.                                       *)
Activated(w, notify) ==
    IF w.fire >= w.need THEN [w EXCEPT !.arrived = TRUE, !.st = "ready", !.notice = Silent]
    ELSE [w EXCEPT !.arrived = TRUE, !.notice = IF notify /\ ~w.arrived THEN Register ELSE @]

(* Mutant of Synced: the lease of a notice survives the new threshold. *)
SyncedQuietly(r) ==
    LET w == [wait EXCEPT !.need = Threshold(r)]
    IN  IF wait.st # "pending" THEN wait ELSE IF w.arrived THEN Activated(w, TRUE) ELSE w

(* sync_pending_protection: what waits follows the row; the new threshold is *)
(* announced anew, and a lease of the old notice is void.                    *)
Synced(r) ==
    LET w == [wait EXCEPT !.need = Threshold(r)]
        met == IF w.arrived THEN Activated(w, TRUE) ELSE w
    IN  IF wait.st # "pending" THEN wait
        ELSE IF met.st = "pending" /\ met.arrived /\ met.need # wait.need
             THEN [met EXCEPT !.notice = Register] ELSE met

(* The histories begin anew with each notice that is registered. *)
Count ==
    LET new == wait'.notice = Register /\ wait.notice # Register IN
    /\ mine' = IF new THEN {} ELSE mine
    /\ shown' = IF new THEN 0 ELSE shown

(* Mutant of Becomes: the reservation does not follow. *)
BecomesAlone(r) ==
    /\ shield' = r
    /\ UNCHANGED <<wait, late, mine, yesterday, rolled, replying, client, shown>>

(* The row is written and the reservation follows. *)
Becomes(r) ==
    /\ shield' = r
    /\ wait' = Synced(r)
    /\ late' = FALSE
    /\ Count
    /\ UNCHANGED <<yesterday, rolled, replying, client>>

-----------------------------------------------------------------------------
(* routers/protections.py *)

(* A missing row of the group starts as a copy of the one of __all__. *)
Copied == IF ~Protected(shield) /\ global > 0 THEN inherited(global) ELSE shield
CopiedWorth == IF ~Protected(shield) THEN [None EXCEPT !["legacy"] = global] ELSE worth

(* Mutant of DailyAdded: the daily source also counts earlier breaks. *)
DailyAddedUnbased(r, initial) ==
    IF historical(r)
    THEN [r EXCEPT !.level["daily"] = r.level["legacy"], !.level["legacy"] = 0,
                   !.base["daily"] = r.base["legacy"], !.base["legacy"] = 0]
    ELSE [r EXCEPT !.level["daily"] = Least(MaxLevel, initial + yesterday), !.days = yesterday + 1]

(* The daily source joins the others, higher by the days in a row; a         *)
(* historical row becomes one.                                               *)
DailyAdded(r, initial) ==
    IF historical(r)
    THEN [r EXCEPT !.level["daily"] = r.level["legacy"], !.level["legacy"] = 0,
                   !.base["daily"] = r.base["legacy"], !.base["legacy"] = 0]
    ELSE [r EXCEPT !.level["daily"] = Least(MaxLevel, initial + yesterday),
                   !.base["daily"] = r.hits, !.days = yesterday + 1]

(* replace-group with the user on the list.  The level of a daily source     *)
(* that is there stays.                                                      *)
List(initial) ==
    /\ Copied.level["daily"] = 0
    /\ Becomes(DailyAdded(Copied, initial))
    /\ worth' = IF historical(Copied)
                THEN [CopiedWorth EXCEPT !["daily"] = CopiedWorth["legacy"], !["legacy"] = 0]
                ELSE [CopiedWorth EXCEPT !["daily"] = Least(MaxLevel, initial + yesterday)]
    /\ UNCHANGED global

(* Mutant of DailyRemoved: a legacy source that is raised keeps its breaks. *)
DailyRemovedUnbased(r) ==
    LET own == IF historical(r) THEN 0 ELSE protection_levels(r)["legacy"]
        legacy == IF global = 0 THEN 0
                  ELSE IF global > own THEN global ELSE r.level["legacy"]
        kept == [r.level EXCEPT !["daily"] = 0, !["legacy"] = legacy]
    IN  IF kept = None THEN NoRow
        ELSE [r EXCEPT !.level = kept, !.days = 0,
                       !.base = [s \in Source |-> IF kept[s] = 0 THEN 0 ELSE @[s]]]

(* The daily source goes; legacy stays as far as __all__ still protects, at  *)
(* the higher of the two levels.  A row without a source is deleted.         *)
DailyRemoved(r) ==
    LET own == IF historical(r) THEN 0 ELSE protection_levels(r)["legacy"]
        raised == global > own
        legacy == IF global = 0 THEN 0 ELSE IF raised THEN global ELSE r.level["legacy"]
        base == IF raised THEN [r.base EXCEPT !["legacy"] = r.hits] ELSE r.base
        kept == [r.level EXCEPT !["daily"] = 0, !["legacy"] = legacy]
    IN  IF kept = None THEN NoRow
        ELSE [r EXCEPT !.level = kept, !.days = 0,
                       !.base = [s \in Source |-> IF kept[s] = 0 THEN 0 ELSE base[s]]]

(* replace-group without the user. *)
Unlist ==
    /\ Protected(shield)
    /\ Becomes(DailyRemoved(shield))
    /\ worth' = [worth EXCEPT !["daily"] = 0,
                    !["legacy"] = IF global = 0 THEN 0
                                  ELSE IF historical(shield) \/ global > @ THEN global ELSE @]
    /\ UNCHANGED global

(* replace-group for __all__: no reservation belongs to that group. *)
ListGlobal(l) ==
    /\ global = IF l = 0 THEN global ELSE 0
    /\ global' = l
    /\ UNCHANGED <<shield, yesterday, rolled, wait, replying, client, worth, late, mine, shown>>

(* Mutant of ManualAdded: a lower grant replaces the manual source. *)
ManualAddedAnyway(r, l) == [r EXCEPT !.level["manual"] = l, !.base["manual"] = r.hits]

(* The manual source is raised, never lowered, by a grant. *)
ManualAdded(r, l) ==
    IF l > protection_levels(r)["manual"] THEN [r EXCEPT !.level["manual"] = l, !.base["manual"] = r.hits]
    ELSE r

Grant(l) ==
    /\ Becomes(ManualAdded(Copied, l))
    /\ worth' = [CopiedWorth EXCEPT !["manual"] = IF l > @ THEN l ELSE @]
    /\ UNCHANGED global

-----------------------------------------------------------------------------
(* The reservation: /prepare, the target's roll, the outcome *)

(* Any request of a client that knows of gathering leaves the copy behind;   *)
(* a reservation that waits does not follow it.                              *)
CopyRow ==
    /\ shield' = Copied
    /\ worth' = CopiedWorth
    /\ late' = (late \/ (wait.st = "pending" /\ shield' # shield))

(* A new reservation; a target that is there and unprotected is roasted at once. *)
PrepareNew ==
    /\ wait.st = "none"
    /\ CopyRow
    /\ LET w == [Closed EXCEPT !.st = "pending", !.need = Threshold(Copied), !.fire = 1]
       IN  wait' = IF ~rolled THEN w ELSE IF Protected(Copied) THEN Activated(w, FALSE) ELSE Closed
    /\ replying' = (replying \/ wait'.st # "none")
    /\ UNCHANGED <<global, yesterday, rolled, client, mine, shown>>

(* Joining or boosting a membership answers with the progress: no notice. *)
Join(fire) ==
    /\ wait.st = "pending" /\ wait.fire + fire <= MaxFire
    /\ fire = 2 => wait.need > 0
    /\ CopyRow
    /\ LET w == [wait EXCEPT !.fire = @ + fire, !.notice = Silent]
       IN  wait' = IF w.arrived \/ rolled THEN Activated(w, FALSE) ELSE w
    /\ replying' = TRUE
    /\ UNCHANGED <<global, yesterday, rolled, client, mine, shown>>

(* A protected target and a client of version 1. *)
PrepareRefused ==
    /\ Protected(Copied)
    /\ CopyRow
    /\ UNCHANGED <<global, yesterday, rolled, wait, replying, client, mine, shown>>

(* The second transaction of /prepare, which reports what it finds. *)
Reconcile ==
    /\ replying
    /\ replying' \in BOOLEAN
    /\ wait' = IF wait.st = "pending" /\ rolled THEN [Activated(wait, FALSE) EXCEPT !.notice = Silent]
               ELSE wait
    /\ UNCHANGED <<shield, global, yesterday, rolled, client, worth, late, mine, shown>>

(* get-or-create. *)
Roll ==
    /\ rolled' = TRUE
    /\ wait' = IF wait.st = "pending" THEN Activated(wait, TRUE) ELSE wait
    /\ Count
    /\ UNCHANGED <<shield, global, yesterday, replying, client, worth, late>>

(* The outcome is frozen and the reservation closed; a success breaks the    *)
(* protection.  Delivery in between is ReservationDelivery's.                *)
Settle(success) ==
    LET breaks == success /\ wait.need > 0 /\ Protected(shield) IN
    /\ wait.st = "ready" /\ (breaks => shield.hits < MaxHits)
    /\ wait' = Closed
    /\ shield' = IF breaks THEN [shield EXCEPT !.hits = @ + 1] ELSE shield
    /\ worth' = IF breaks
                THEN [s \in Source |-> IF worth[s] = 0 THEN 0 ELSE Least(MaxLevel, worth[s] + 1)]
                ELSE worth
    /\ UNCHANGED <<global, yesterday, rolled, replying, client, late, mine, shown>>

-----------------------------------------------------------------------------
(* Waiting notices: /claim and /waiting-notice *)

Holder(c, n) == client' = [client EXCEPT ![c] = n]
Lease(w, status) == wait' = [wait EXCEPT !.notice = w, !.notice.status = status]

(* Mutant of Free: a notice that is being sent can lapse, too. *)
FreeSending == wait.notice.status = "pending" \/ wait.notice.stale

Free == wait.notice.status = "pending" \/ (wait.notice.status = "processing" /\ wait.notice.stale)

(* The poll of a client of version 2; the answer may be lost. *)
TakeNotice(c) ==
    /\ client[c].phase = "away"
    /\ wait.st = "pending" /\ wait.arrived /\ wait.need > 0 /\ Free
    /\ \/ /\ Lease([Silent EXCEPT !.holder = c], "processing")
          /\ Holder(c, [phase |-> "holds", need |-> wait.need])
          /\ mine' = mine \cup {c}
       \/ /\ Lease(Silent, "processing")
          /\ UNCHANGED <<client, mine>>
    /\ UNCHANGED <<shield, global, yesterday, rolled, replying, worth, late, shown>>

(* Five minutes after the claim. *)
Lapse ==
    /\ wait.notice.status \in {"processing", "sending"} /\ ~wait.notice.stale
    /\ wait' = [wait EXCEPT !.notice.stale = TRUE]
    /\ UNCHANGED <<shield, global, yesterday, rolled, replying, client, worth, late, mine, shown>>

(* Mutant of Owns: the token is not compared. *)
OwnsAny(c) == wait.st = "pending" /\ wait.notice.status # "none"

Owns(c) == wait.st = "pending" /\ wait.notice.holder = c

(* "sending", which can be repeated: the notice must not be taken again. *)
Sending(c) ==
    LET ok == Owns(c) /\ wait.notice.status \in {"processing", "sending"} IN
    /\ client[c].phase = "holds"
    /\ IF ok THEN Lease(wait.notice, "sending") ELSE UNCHANGED wait
    /\ \/ Holder(c, IF ok THEN [client[c] EXCEPT !.phase = "told"] ELSE Away)
       \/ UNCHANGED client
    /\ UNCHANGED <<shield, global, yesterday, rolled, replying, worth, late, mine, shown>>

Show(c) ==
    /\ client[c].phase = "told"
    /\ Holder(c, [client[c] EXCEPT !.phase = "posted"])
    /\ shown' = IF c \in mine THEN shown + 1 ELSE shown
    /\ UNCHANGED <<shield, global, yesterday, rolled, wait, replying, worth, late, mine>>

Sent(c) ==
    /\ client[c].phase = "posted"
    /\ IF Owns(c) /\ wait.notice.status \in {"sending", "sent"}
       THEN Lease(wait.notice, "sent") ELSE UNCHANGED wait
    /\ Holder(c, Away)
    /\ UNCHANGED <<shield, global, yesterday, rolled, replying, worth, late, mine, shown>>

(* "release", or the client forgets. *)
Release(c) ==
    /\ client[c].phase # "away"
    /\ IF Owns(c) /\ client[c].phase = "holds" /\ wait.notice.status = "processing"
       THEN wait' = [wait EXCEPT !.notice = Register] ELSE UNCHANGED wait
    /\ Holder(c, Away)
    /\ UNCHANGED <<shield, global, yesterday, rolled, replying, worth, late, mine, shown>>

Forget(c) ==
    /\ client[c].phase # "away"
    /\ Holder(c, Away)
    /\ UNCHANGED <<shield, global, yesterday, rolled, wait, replying, worth, late, mine, shown>>

-----------------------------------------------------------------------------
Next ==
    \/ \E l \in Granted : List(l) \/ Grant(l) \/ ListGlobal(l)
    \/ Unlist \/ ListGlobal(0)
    \/ PrepareNew \/ PrepareRefused \/ Reconcile \/ Roll
    \/ \E fire \in {1, 2} : Join(fire)
    \/ \E success \in BOOLEAN : Settle(success)
    \/ Lapse
    \/ \E c \in Client : TakeNotice(c) \/ Sending(c) \/ Show(c) \/ Sent(c) \/ Release(c) \/ Forget(c)

Spec == Init /\ [][Next]_vars

-----------------------------------------------------------------------------
(* Properties *)

(* Whatever is granted, listed, copied, withdrawn and broken in between, the *)
(* baselines give each source the level that counting its own breaks gives.  *)
LevelsTellHistory == TypeOK /\ protection_levels(shield) = worth

(* The fire that a waiting reservation needs follows the protection of its   *)
(* group through grants, lists, joins and breaks of earlier reservations.    *)
(* Only a copy of __all__ taken while it waited is not followed.             *)
NeedFollowsLevel ==
    wait.st = "pending" /\ ~late => wait.need = Threshold(shield)

(* A notice is shown once, though its lease lapses, answers are lost and     *)
(* requests repeated; and a client that may show one tells the threshold     *)
(* that the reservation has, while it still waits for fire.                  *)
NoticesAreTimely ==
    /\ shown <= 1
    /\ \A c \in Client :
          client[c].phase = "told" /\ Owns(c) =>
              client[c].need = wait.need /\ wait.arrived /\ wait.fire < wait.need
=============================================================================
