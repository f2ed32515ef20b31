------------------------------ MODULE Gathering ------------------------------
(***************************************************************************)
(* How roast reservations against one target on one day come to fire:      *)
(* concurrent /prepare, /join-by-message and daily-roll requests, and the  *)
(* protection of the target that decides how much fire a reservation needs.*)
(*                                                                         *)
(* A request is a process of several transactions.  What one transaction   *)
(* does under the row locks it holds until its commit is one step; a step  *)
(* of its own is the read of the target's roll, because MySQL serves it    *)
(* from the transaction's snapshot and it can be stale when the locked     *)
(* reservation is changed.  A transaction can roll back at any point       *)
(* (deadlock, lock timeout, crash).                                        *)
(*                                                                         *)
(* Delivery after a reservation fires is in ReservationDelivery: here a    *)
(* ready row is settled and closed at some time.                           *)
(***************************************************************************)
EXTENDS Integers, Sequences, FiniteSets, FiniteSetsExt

CONSTANTS
    Proc,         \* concurrent requests
    Group, User,
    Version,      \* protection_gathering_version of the clients: 0, 1, 2
    MaxRows,      \* bound: reservations of the day
    MaxMembers,   \* ROAST_RESERVATION_MAX_PARTICIPANTS
    MaxCharges,   \* bound: roast charges of a user on the day
    LevelCap,     \* the highest protection level (5 in the code)
    Everywhere,   \* bound: what the row of group __all__ is set to
    NoProt, NoUser

ASSUME ConstantAssumption ==
    /\ Version \subseteq {0, 1, 2}
    /\ MaxRows \in Nat /\ MaxCharges \in Nat /\ LevelCap \in Nat /\ NoProt \notin Nat
    /\ Everywhere \subseteq 0 .. LevelCap \cup {NoProt}

VARIABLES
    row,        \* roast_reservations with their participants, in order of id
    prot,       \* level of the target's protection row of each group, or NoProt
    global,     \* level of its row of group __all__, or NoProt
    late,       \* history: the groups whose copy of __all__ is younger than
                \* the reservation that waits in them
    rolled,     \* the target's daily roll: none, real, or a makeup
    forceUsed,  \* users whose force use of the day is consumed
    spent,      \* roast charges each user consumed
    req,        \* the request each process runs
    crashed     \* a process died between a commit and its reconciliation

vars == <<row, prot, global, late, rolled, forceUsed, spent, req, crashed>>

Mode == {"none", "normal", "super"}
Idle == [pc |-> "idle"]
Level == 0 .. LevelCap

Row == [group : Group, st : {"pending", "ready", "settled", "closed"}, mode : Mode,
        cost : Mode, owner : User, operator : User \cup {NoUser}, fire : [User -> 0 .. 2],
        need : 0 .. LevelCap + 1, arrived : BOOLEAN, notice : {"none", "pending", "taken"}]

Request ==
    [pc : {"retry", "view", "creating"}, user : User, group : Group, mode : Mode, ver : Version,
     seen : BOOLEAN, attempt : {1, 2}]
    \cup [pc : {"joining"}, user : User, id : 1 .. MaxRows, ver : Version, seen : BOOLEAN]
    \cup [pc : {"reconcile"}, handled : 0 .. MaxRows]
    \cup {Idle, [pc |-> "failed"]}

(* Reservations have a threshold no higher than the level cap allows, fire    *)
(* within what members may give, and uses within what there is.              *)
TypeOK ==
    /\ \E n \in 0 .. MaxRows : row \in [1 .. n -> Row]
    /\ prot \in [Group -> Level \cup {NoProt}] /\ global \in Everywhere \cup {NoProt}
    /\ late \subseteq Group
    /\ rolled \in {"none", "real", "makeup"}
    /\ forceUsed \in SUBSET User
    /\ spent \in [User -> 0 .. MaxCharges]
    /\ req \in [Proc -> Request]
    /\ crashed \in BOOLEAN

Init ==
    /\ row = <<>>
    /\ prot \in [Group -> {NoProt, 0}] /\ global \in Everywhere \cup {NoProt} /\ late = {}
    /\ rolled = "none"
    /\ forceUsed = {}
    /\ spent = [u \in User |-> 0]
    /\ req = [p \in Proc |-> Idle]
    /\ crashed = FALSE

-----------------------------------------------------------------------------
Rows == DOMAIN row
Active(g) == {i \in Rows : row[i].group = g /\ row[i].st # "closed"}

Members(r) == {u \in User : r.fire[u] > 0}
Total(fire) == MapThenSumSet(LAMBDA u : fire[u], User)
Fire(r) == Total(r.fire)
Enough(r) == r.need = 0 \/ r.mode = "super" \/ Fire(r) >= r.need

(* Mutants of Activated: without fire; only when the target had come before; *)
(* with a notice left behind.                                                *)
ActivatedAnyway(r, notify) == [r EXCEPT !.arrived = TRUE, !.st = "ready", !.notice = "none"]
ActivatedTooLate(r, notify) ==
    IF r.arrived /\ Enough(r) THEN [r EXCEPT !.st = "ready", !.notice = "none"]
    ELSE [r EXCEPT !.arrived = TRUE]
ActivatedNoticed(r, notify) ==
    IF Enough(r) THEN [r EXCEPT !.arrived = TRUE, !.st = "ready"]
    ELSE [r EXCEPT !.arrived = TRUE, !.notice = IF ~r.arrived /\ notify THEN "pending" ELSE @]

(* The target has come: the row fires, or keeps the pig and asks for a notice. *)
Activated(r, notify) ==
    IF Enough(r) THEN [r EXCEPT !.arrived = TRUE, !.st = "ready", !.notice = "none"]
    ELSE [r EXCEPT !.arrived = TRUE,
                   !.notice = IF ~r.arrived /\ notify THEN "pending" ELSE @]

(* Mutant of Reconciled: only the row the command has reported on. *)
ReconciledHandled(handled) ==
    [i \in Rows |-> IF i = handled /\ row[i].st = "pending" THEN Activated(row[i], FALSE) ELSE row[i]]

(* Rows of every group that wait for the target; the row a command has just *)
(* reported on needs no notice.                                             *)
Reconciled(handled) ==
    [i \in Rows |->
        IF row[i].st # "pending" THEN row[i]
        ELSE LET r == Activated(row[i], i # handled)
             IN  IF i = handled THEN [r EXCEPT !.notice = "none"] ELSE r]

(* Locks on the protection row of g: a transaction of /prepare holds it from *)
(* its first read to its commit.  Without a row it holds the gap, which      *)
(* keeps others from inserting but not from reading, and it locks the row of *)
(* __all__ in the same way.                                                  *)
Holders(g) == {p \in Proc : req[p].pc \in {"view", "creating"} /\ req[p].group = g}
GlobalHolders == UNION {Holders(g) : g \in {h \in Group : prot[h] = NoProt}}
MayLock(g) == prot[g] = NoProt \/ Holders(g) = {}
MayRead(g) == MayLock(g) /\ (prot[g] = NoProt => global = NoProt \/ GlobalHolders = {})

(* The protection that a request finds: the group's row, or that of __all__. *)
Shield(g) == IF prot[g] = NoProt THEN global ELSE prot[g]

(* What a request of a client that gathers leaves behind when it commits: a  *)
(* row of the group, copied from __all__.  Waiting reservations do not       *)
(* follow it: sync_pending_protection is not called.                         *)
Copied(g, gathers) == IF gathers THEN [prot EXCEPT ![g] = Shield(g)] ELSE prot
CopyGlobal(g, gathers) ==
    /\ prot' = Copied(g, gathers)
    /\ late' = IF prot' # prot /\ (\E i \in Active(g) : row[i].st = "pending")
               THEN late \cup {g} ELSE late

Become(p, r) == req' = [req EXCEPT ![p] = r]

-----------------------------------------------------------------------------
(* What a request does to a waiting row i: user u of client version v asks    *)
(* with mode m, and its snapshot shows the target's roll or not.  joined says *)
(* whether the answer is one of joined, upgraded or already_joined.           *)
JoinRow(i, u, m, v, seen, joined) ==
    LET r == row[i]
        boosted == r.need > 0 /\ m = "normal"
        upgrading == boosted /\ r.fire[u] < 2
        arrived == r.arrived \/ seen
        captain == IF r.operator = NoUser THEN r.owner ELSE r.operator
    IN
    \/ /\ r.mode = "super"
       /\ joined <=> u = captain
       /\ UNCHANGED <<row, forceUsed>>
    \/ /\ r.mode # "super" /\ m = "super"
       /\ joined <=> v = 2
       /\ LET taken == [r EXCEPT !.operator = u, !.mode = "super"]
          IN  row' = IF v < 2 THEN row
                     ELSE [row EXCEPT ![i] = IF arrived THEN Activated(taken, TRUE) ELSE taken]
       /\ UNCHANGED forceUsed
    \/ /\ r.mode # "super" /\ m # "super"
       /\ u \in Members(r) /\ ~upgrading
       /\ joined
       /\ row' = [row EXCEPT ![i].notice = "none"]
       /\ UNCHANGED forceUsed
    \/ /\ r.mode # "super" /\ m # "super"
       /\ \/ u \notin Members(r) /\ Cardinality(Members(r)) >= MaxMembers
          \/ upgrading /\ u \in forceUsed
       /\ ~joined
       /\ UNCHANGED <<row, forceUsed>>
    \/ /\ r.mode # "super" /\ m # "super"
       /\ \/ u \in Members(r) /\ upgrading
          \/ u \notin Members(r) /\ Cardinality(Members(r)) < MaxMembers
       /\ boosted => u \notin forceUsed
       /\ joined
       /\ forceUsed' = IF boosted THEN forceUsed \cup {u} ELSE forceUsed
       /\ LET more == [r EXCEPT !.fire[u] = IF boosted THEN 2 ELSE 1, !.notice = "none"]
          IN  row' = [row EXCEPT ![i] = IF arrived THEN Activated(more, FALSE) ELSE more]

ThenReconcile(p, joined, i) ==
    Become(p, IF joined THEN [pc |-> "reconcile", handled |-> i] ELSE Idle)

-----------------------------------------------------------------------------
(* POST /prepare *)

(* The protection row is locked, then the target's roll read.  (One who had  *)
(* found no row before another's copy of __all__ committed clashes with it   *)
(* and starts again, as if it had come later.)                               *)
PrepareBegin(p, u, g, m, v) ==
    /\ req[p] = Idle
    /\ MayRead(g)
    /\ Become(p, [pc |-> "view", user |-> u, group |-> g, mode |-> m, ver |-> v,
                  seen |-> rolled = "real", attempt |-> 1])
    /\ UNCHANGED <<row, prot, global, late, rolled, forceUsed, spent, crashed>>

PrepareAgain(p) ==
    /\ req[p].pc = "retry"
    /\ MayRead(req[p].group)
    /\ Become(p, [req[p] EXCEPT !.pc = "view", !.seen = rolled = "real"])
    /\ UNCHANGED <<row, prot, global, late, rolled, forceUsed, spent, crashed>>

(* The active row is read under its lock.  A waiting row, a protected one and *)
(* any row for a super request is the one to join; otherwise the target is    *)
(* roasted at once (target_ready) or a row is created.                        *)
PrepareRun(p) ==
    /\ req[p].pc = "view"
    /\ LET q == req[p]
           found == {i \in Active(q.group) :
                        row[i].st = "pending" \/ row[i].need > 0 \/ q.mode = "super"}
           protected == Shield(q.group) # NoProt
           refused == protected /\ q.ver < 2 /\ q.mode # "super"
           ready == q.seen /\ (~protected \/ (q.mode = "super" /\ q.ver = 0))
       IN
       \/ /\ refused \/ (found = {} /\ ready) \/ (\E i \in found : row[i].st # "pending")
          /\ Become(p, Idle)
          /\ CopyGlobal(q.group, q.ver > 0)
          /\ UNCHANGED <<row, forceUsed>>
       \/ /\ ~refused
          /\ \E i \in found, joined \in BOOLEAN :
                /\ row[i].st = "pending"
                /\ JoinRow(i, q.user, q.mode, q.ver, q.seen, joined)
                /\ ThenReconcile(p, joined, i)
          /\ CopyGlobal(q.group, q.ver > 0)
       \/ /\ ~refused /\ found = {} /\ ~ready
          /\ Become(p, [q EXCEPT !.pc = "creating"])
          /\ UNCHANGED <<row, forceUsed, prot, late>>
    /\ UNCHANGED <<global, rolled, spent, crashed>>

(* Mutants of NeedFor: a step too high; kept when the protection ends. *)
NeedForTooHigh(l) == IF l = NoProt THEN 0 ELSE 2 + l
NeedForKept(l) == IF l = NoProt THEN 1 ELSE 1 + l

(* The fire a protection of level l asks for. *)
NeedFor(l) == IF l = NoProt THEN 0 ELSE 1 + l

NewRow(q) ==
    LET protected == Shield(q.group) # NoProt
    IN  [group |-> q.group, st |-> "pending", mode |-> q.mode, cost |-> q.mode,
         owner |-> q.user, operator |-> NoUser,
         fire |-> [u \in User |-> IF u # q.user THEN 0
                                  ELSE IF protected /\ q.mode = "normal" THEN 2 ELSE 1],
         need |-> IF q.ver > 0 THEN NeedFor(Shield(q.group)) ELSE 0,
         arrived |-> FALSE, notice |-> "none"]

(* Mutant of Denied: the force use of the day is not checked. *)
DeniedNoForce(q) == q.mode = "none" /\ spent[q.user] = MaxCharges

Denied(q) ==
    \/ q.mode = "normal" /\ q.user \in forceUsed
    \/ q.mode = "none" /\ spent[q.user] = MaxCharges

Consume(q) ==
    /\ forceUsed' = IF q.mode = "normal" THEN forceUsed \cup {q.user} ELSE forceUsed
    /\ spent' = IF q.mode = "none" THEN [spent EXCEPT ![q.user] = @ + 1] ELSE spent

(* The use is consumed and the row inserted in one transaction. *)
PrepareCreate(p) ==
    LET q == req[p] IN
    /\ q.pc = "creating"
    /\ ~Denied(q) /\ Active(q.group) = {} /\ Len(row) < MaxRows
    /\ Consume(q)
    /\ row' = Append(row, IF q.seen THEN Activated(NewRow(q), FALSE) ELSE NewRow(q))
    /\ Become(p, [pc |-> "reconcile", handled |-> Len(row) + 1])
    /\ prot' = Copied(q.group, q.ver > 0)
    /\ late' = late \ {q.group}
    /\ UNCHANGED <<global, rolled, crashed>>

PrepareDenied(p) ==
    /\ req[p].pc = "creating"
    /\ Denied(req[p])
    /\ Become(p, Idle)
    /\ CopyGlobal(req[p].group, req[p].ver > 0)
    /\ UNCHANGED <<row, global, rolled, forceUsed, spent, crashed>>

(* Mutant of PrepareConflict: what the attempt consumed is kept. *)
PrepareConflictKeeps(p) ==
    LET q == req[p] IN
    /\ q.pc = "creating"
    /\ ~Denied(q) /\ Active(q.group) # {}
    /\ Consume(q)
    /\ Become(p, IF q.attempt = 1 THEN [q EXCEPT !.pc = "retry", !.attempt = 2]
                 ELSE [pc |-> "failed"])
    /\ UNCHANGED <<row, prot, global, late, rolled, crashed>>

(* The unique key of the active row rolls the transaction back with what it  *)
(* consumed; the request starts again once, then gives up (RuntimeError).    *)
PrepareConflict(p) ==
    LET q == req[p] IN
    /\ q.pc = "creating"
    /\ ~Denied(q) /\ Active(q.group) # {}
    /\ Become(p, IF q.attempt = 1 THEN [q EXCEPT !.pc = "retry", !.attempt = 2]
                 ELSE [pc |-> "failed"])
    /\ UNCHANGED <<row, prot, global, late, rolled, forceUsed, spent, crashed>>

-----------------------------------------------------------------------------
(* POST /join-by-message: the reply names a waiting row; the roll is read    *)
(* with the snapshot of the first SELECT, before any lock is taken.          *)
JoinBegin(p, u, i, v) ==
    /\ req[p] = Idle
    /\ row[i].st = "pending"
    /\ Become(p, [pc |-> "joining", user |-> u, id |-> i, ver |-> v, seen |-> rolled = "real"])
    /\ UNCHANGED <<row, prot, global, late, rolled, forceUsed, spent, crashed>>

(* The row must still wait, and an unprotected one must not have met the     *)
(* target.  The endpoint counts every client as one that gathers.  There is  *)
(* no reconciliation after the commit.                                       *)
JoinRun(p) ==
    /\ req[p].pc = "joining"
    /\ LET q == req[p]
           g == row[q.id].group
           closed == \/ Shield(g) # NoProt /\ q.ver < 2
                     \/ row[q.id].st # "pending"
                     \/ q.seen /\ row[q.id].need = 0
       IN  /\ MayRead(g)
           /\ \/ closed /\ UNCHANGED <<row, forceUsed>>
              \/ ~closed /\ \E joined \in BOOLEAN : JoinRow(q.id, q.user, "none", q.ver, q.seen, joined)
           /\ CopyGlobal(g, TRUE)
    /\ Become(p, Idle)
    /\ UNCHANGED <<global, rolled, spent, crashed>>

-----------------------------------------------------------------------------
(* The target's own requests *)

(* POST /daily-rolls/get-or-create: the roll and the waiting rows commit     *)
(* together; a repeated request finds the roll and only reconciles.          *)
Roll(p) ==
    /\ req[p] = Idle
    /\ rolled # "makeup"
    /\ rolled' = "real"
    /\ row' = IF rolled = "none" THEN Reconciled(0) ELSE row
    /\ Become(p, [pc |-> "reconcile", handled |-> 0])
    /\ UNCHANGED <<prot, global, late, forceUsed, spent, crashed>>

(* POST /daily-rolls/makeup: the target was not there. *)
Makeup ==
    /\ rolled = "none"
    /\ rolled' = "makeup"
    /\ UNCHANGED <<row, prot, global, late, forceUsed, spent, req, crashed>>

(* The second transaction of /prepare and of get-or-create. *)
Reconcile(p) ==
    /\ req[p].pc = "reconcile"
    /\ row' = IF rolled = "real" THEN Reconciled(req[p].handled) ELSE row
    /\ Become(p, Idle)
    /\ UNCHANGED <<prot, global, late, rolled, forceUsed, spent, crashed>>

(* A rollback before the commit, or a crash after it; in the second case the *)
(* reconciliation is lost.  Bound: one such crash.                           *)
Abort(p) ==
    /\ req[p] # Idle
    /\ req[p].pc = "reconcile" => ~crashed
    /\ crashed' = (crashed \/ req[p].pc = "reconcile")
    /\ Become(p, Idle)
    /\ UNCHANGED <<row, prot, global, late, rolled, forceUsed, spent>>

-----------------------------------------------------------------------------
(* Protection *)

Synced(r, l) ==
    LET folded == IF l # NoProt /\ r.need = 0 /\ r.mode = "normal"
                  THEN [r EXCEPT !.fire[r.owner] = 2] ELSE r
        asked == [folded EXCEPT !.need = NeedFor(l)]
        met == IF r.arrived THEN Activated(asked, TRUE) ELSE asked
    IN  IF met.arrived /\ met.st = "pending" /\ met.need # r.need
        THEN [met EXCEPT !.notice = "pending"] ELSE met

(* POST /protections/grant and /replace-group: the group's row changes and   *)
(* its waiting reservations follow, unless taken over.  Module Protection    *)
(* has the sources that the level comes from; a new row begins as a copy of  *)
(* the one of __all__, which also outlives the end of a daily source.        *)
SetProtection(g, l) ==
    /\ Holders(g) = {} /\ MayRead(g)
    /\ IF l = NoProt THEN prot[g] # NoProt /\ global \in {NoProt, 0}
       ELSE prot[g] = NoProt /\ global # NoProt => l >= global
    /\ prot' = [prot EXCEPT ![g] = l]
    /\ row' = [i \in Rows |->
                 IF row[i].group = g /\ row[i].st = "pending" /\ row[i].mode # "super"
                 THEN Synced(row[i], l) ELSE row[i]]
    /\ late' = late \ {g}
    /\ UNCHANGED <<global, rolled, forceUsed, spent, req, crashed>>

(* The same for group __all__: no reservation is of that group, so none      *)
(* follows.                                                                  *)
SetGlobal(l) ==
    /\ GlobalHolders = {}
    /\ global' = l
    /\ UNCHANGED <<row, prot, late, rolled, forceUsed, spent, req, crashed>>

(* The result is frozen; a success raises the group's protection it broke. *)
Settle(i, success) ==
    LET g == row[i].group
        raises == success /\ row[i].need > 0 /\ prot[g] # NoProt
    IN
    /\ row[i].st = "ready"
    /\ row[i].need > 0 => MayLock(g)
    /\ row' = [row EXCEPT ![i].st = "settled"]
    /\ prot' = [prot EXCEPT ![g] = IF raises /\ @ < LevelCap THEN @ + 1 ELSE @]
    /\ UNCHANGED <<global, late, rolled, forceUsed, spent, req, crashed>>

(* The delivery is completed and the active slot freed. *)
Close(i) ==
    /\ row[i].st = "settled"
    /\ row' = [row EXCEPT ![i].st = "closed"]
    /\ UNCHANGED <<prot, global, late, rolled, forceUsed, spent, req, crashed>>

(* A v2 client polling for notices takes one, or gives it back. *)
TakeNotice(i) ==
    /\ row[i].st = "pending" /\ row[i].arrived /\ row[i].need > 0 /\ row[i].mode # "super"
    /\ row[i].notice = "pending"
    /\ row' = [row EXCEPT ![i].notice = "taken"]
    /\ UNCHANGED <<prot, global, late, rolled, forceUsed, spent, req, crashed>>

ReturnNotice(i) ==
    /\ row[i].st = "pending" /\ row[i].notice = "taken"
    /\ row' = [row EXCEPT ![i].notice = "pending"]
    /\ UNCHANGED <<prot, global, late, rolled, forceUsed, spent, req, crashed>>

-----------------------------------------------------------------------------
ProcStep(p) ==
    \/ \E u \in User, g \in Group, m \in Mode, v \in Version : PrepareBegin(p, u, g, m, v)
    \/ PrepareAgain(p)
    \/ PrepareRun(p)
    \/ PrepareCreate(p)
    \/ PrepareDenied(p)
    \/ PrepareConflict(p)
    \/ \E u \in User, i \in Rows, v \in Version : JoinBegin(p, u, i, v)
    \/ JoinRun(p)
    \/ Roll(p)
    \/ Reconcile(p)
    \/ Abort(p)

RowStep(i) ==
    \/ \E success \in BOOLEAN : Settle(i, success)
    \/ Close(i)
    \/ TakeNotice(i)
    \/ ReturnNotice(i)

Next ==
    \/ \E p \in Proc : ProcStep(p)
    \/ \E g \in Group, l \in Level \cup {NoProt} : SetProtection(g, l)
    \/ \E l \in Everywhere : SetGlobal(l)
    \/ \E i \in Rows : RowStep(i)
    \/ Makeup

Spec == Init /\ [][Next]_vars

(* Requests that started finish, and the target's bot keeps asking for the   *)
(* roll of the day.                                                          *)
Fairness ==
    \A p \in Proc : WF_vars(PrepareAgain(p) \/ PrepareRun(p) \/ PrepareCreate(p) \/ JoinRun(p)
                            \/ PrepareDenied(p) \/ PrepareConflict(p) \/ Reconcile(p))
                    /\ SF_vars(Roll(p))

FairSpec == Spec /\ Fairness

-----------------------------------------------------------------------------
(* Properties *)

(* A row that has fired had its fire or a super mode, and its target came:   *)
(* no makeup, stale snapshot or race of joins and protection changes opens   *)
(* it early.                                                                 *)
FiresOnlyWithFire ==
    \A i \in Rows : row[i].st # "pending" => rolled = "real" /\ row[i].arrived /\ Enough(row[i])

(* A row whose target has come waits only because fire is missing: the join, *)
(* the upgrade, the takeover or the protection change that completes the     *)
(* fire also fires the row.                                                  *)
WaitsOnlyForFire ==
    \A i \in Rows : row[i].st = "pending" /\ row[i].arrived => ~Enough(row[i])

(* A reservation fires when its conditions are met, and only then.           *)
FiresWithItsFire == FiresOnlyWithFire /\ WaitsOnlyForFire

(* "Whichever of the two commits first, no reservation stays pending for     *)
(* ever" (routers/roast_reservations.py, prepare): once every request has    *)
(* reconciled, each waiting row knows that the target has come.              *)
NoStrandedReservation ==
    rolled = "real" /\ ~crashed /\ (\A p \in Proc : req[p].pc # "reconcile")
        => \A i \in Rows : row[i].st = "pending" => row[i].arrived

(* The fire a waiting row needs follows the protection row of its group      *)
(* through every interleaving of /prepare, grants, removals, takeovers and   *)
(* changes of __all__.  A row that waited when __all__ was copied is         *)
(* unprotected until the next grant or list of the group.                    *)
NeedTracksProtection ==
    \A i \in Rows : row[i].st = "pending" /\ row[i].mode # "super" =>
        row[i].need = IF prot[row[i].group] = NoProt \/ row[i].group \in late THEN 0
                      ELSE 1 + prot[row[i].group]

(* The rows that a user created or boosted with a force use, and those that  *)
(* the user created with a charge.                                           *)
Forced(u) == {i \in Rows : (row[i].owner = u /\ row[i].cost = "normal") \/ row[i].fire[u] = 2}
Charged(u) == {i \in Rows : row[i].owner = u /\ row[i].cost = "none"}

(* Boosts are paid for exactly: a user's force use of the day is consumed if *)
(* and only if one row was created with it or one membership was boosted,    *)
(* also after conflicts, rollbacks and takeovers.                            *)
BoostPaidOnce ==
    \A u \in User : Cardinality(Forced(u)) = IF u \in forceUsed THEN 1 ELSE 0

(* A charge is spent if and only if it created a row. *)
ChargesBuyRows ==
    \A u \in User : spent[u] = Cardinality(Charged(u))

(* What users pay and what they get agree, for boosts and for charges.       *)
UsesBuyRows == BoostPaidOnce /\ ChargesBuyRows

(* A notice is only outstanding for a row that waits, for fire alone: its   *)
(* target is there.  The state has its types.                               *)
NoticeMeansWaiting ==
    /\ TypeOK
    /\ \A i \in Rows : row[i].notice # "none" =>
          row[i].st = "pending" /\ row[i].arrived /\ ~Enough(row[i])

(* A conflict on the active row is retried by joining the row that won       *)
(* (routers/roast_reservations.py:176): a request never runs out of retries. *)
RetryJoins == \A p \in Proc : req[p].pc # "failed"

(* A waiting row that does not know its target has come. *)
Unaware(i) == i \in Rows /\ row[i].st = "pending" /\ ~row[i].arrived

(* After the target has come, every waiting row learns it, even if the        *)
(* process that created the row died before it reconciled.                   *)
ArrivalIsNoticed ==
    \A i \in 1 .. MaxRows : (rolled = "real" /\ Unaware(i)) ~> ~Unaware(i)
=============================================================================
