---------------------------- MODULE Gathering_proof ----------------------------
(***************************************************************************)
(* Theorems about Gathering, for any requests, groups, users, reservations *)
(* and levels of protection.                                               *)
(*                                                                         *)
(* A request works with what it has read: the roll of the target from its  *)
(* snapshot, the protection under a lock that it keeps.  The invariant says *)
(* what of that is still true when the request changes a row.              *)
(***************************************************************************)
EXTENDS Gathering, FiniteSetTheorems, SequenceTheorems, TLAPS

(* The fire that a waiting row of group g asks for, with the protection rows  *)
(* p and the copies of __all__ that came too late.                            *)
Want(p, copies, g) == IF g \in copies THEN 0 ELSE NeedFor(p[g])

(* What holds of each row: the target that has come has rolled; the row waits *)
(* with it for fire alone, and a notice is only about such a wait; a takeover *)
(* is the only change of mode.                                                *)
RowBehaves(r) ==
    /\ r.arrived => rolled = "real"
    /\ r.st # "pending" => r.arrived /\ Enough(r)
    /\ r.st = "pending" /\ r.arrived => ~Enough(r)
    /\ r.notice # "none" => r.st = "pending" /\ r.arrived
    /\ r.mode \in {r.cost, "super"}

(* And the need of a row that waits is up to date. *)
RowSound(r) ==
    /\ RowBehaves(r)
    /\ r.st = "pending" /\ r.mode # "super" => r.need = Want(prot, late, r.group)

(* A snapshot may be old, but a roll it shows is there.  A client that cannot *)
(* gather creates an ordinary row only while the lock keeps the target        *)
(* unprotected.                                                               *)
RequestSound(q) ==
    /\ q.pc \in {"retry", "view", "creating", "joining"} /\ q.seen => rolled = "real"
    /\ q.pc = "creating" /\ q.ver < 2 /\ q.mode # "super" => Shield(q.group) = NoProt
    /\ q.pc = "joining" => q.id \in Rows

(* The unique key of the active row. *)
OneActive ==
    \A i, j \in Rows :
        row[i].st # "closed" /\ row[j].st # "closed" /\ row[i].group = row[j].group => i = j

(* A force use is consumed exactly when there is a row for it, one row only. *)
ForcePaid ==
    \A u \in User : IF u \in forceUsed THEN \E i \in Rows : Forced(u) = {i} ELSE Forced(u) = {}

Inv ==
    /\ TypeOK
    /\ \A i \in Rows : RowSound(row[i])
    /\ \A p \in Proc : RequestSound(req[p])
    /\ OneActive

Paid == ForcePaid /\ ChargesBuyRows

(* What a step may do to the protection of the target: the rows that wait     *)
(* still ask for the right fire, and a request that creates a row still finds *)
(* the protection that it read.                                               *)
NeedsStay ==
    \A i \in Rows : row[i].st = "pending" =>
        Want(prot', late', row[i].group) = Want(prot, late, row[i].group)
ShieldsStay ==
    \A g \in Group :
        (\E x \in Proc : req[x].pc = "creating" /\ req[x].group = g) => Shield(g)' = Shield(g)
ProtectionTyped ==
    prot \in [Group -> Level \cup {NoProt}] /\ global \in Everywhere \cup {NoProt} /\ late \subseteq Group
Guarded == NeedsStay /\ ShieldsStay /\ ProtectionTyped'
-----------------------------------------------------------------------------
(* Rows *)

(* The reservations are a sequence. *)
LEMMA RowsAreSequence ==
    ASSUME TypeOK
    PROVE  /\ row \in Seq(Row) /\ Len(row) \in 0 .. MaxRows /\ Rows = 1 .. Len(row)
           /\ row \in [Rows -> Row] /\ IsFiniteSet(Rows)
<1>1. PICK n \in 0 .. MaxRows : row \in [1 .. n -> Row]
    BY DEF TypeOK
<1>2. n \in Nat /\ MaxRows \in Nat
    BY <1>1, ConstantAssumption
<1>3. row \in Seq(Row) /\ Len(row) = n /\ Rows = 1 .. n
    BY <1>1, <1>2 DEF Rows
<1>4. IsFiniteSet(1 .. n)
    BY <1>2, FS_Interval
<1> QED
    BY <1>1, <1>3, <1>4

(* Rows that only change in place still are reservations. *)
LEMMA RowsTyped ==
    ASSUME TypeOK, row' \in [Rows -> Row]
    PROVE  /\ \E n \in 0 .. MaxRows : row' \in [1 .. n -> Row]
           /\ Rows' = Rows
BY RowsAreSequence DEF Rows

(* Rows stay in their groups, and none is activated again. *)
LEMMA StaysOneActive ==
    ASSUME OneActive, row' \in [Rows -> Row],
           \A i \in Rows : /\ row'[i].group = row[i].group
                           /\ row'[i].st # "closed" => row[i].st # "closed"
    PROVE  OneActive'
BY DEF OneActive, Rows

(* Protection that does not change is guarded; so is a copy of __all__, which *)
(* shields the group as __all__ did, and which no row that waits follows.     *)
LEMMA GuardedUnchanged ==
    ASSUME TypeOK, UNCHANGED <<prot, global, late>>
    PROVE  Guarded
BY DEF Guarded, NeedsStay, ShieldsStay, ProtectionTyped, Shield, TypeOK

LEMMA GuardedCopy ==
    ASSUME TypeOK, NEW g \in Group, NEW gathers \in BOOLEAN, CopyGlobal(g, gathers), UNCHANGED global
    PROVE  Guarded
<1>0. prot \in [Group -> Level \cup {NoProt}] /\ global \in Level \cup {NoProt} /\ late \subseteq Group
    BY ConstantAssumption DEF TypeOK, Level
<1>1. CASE prot' = prot
    <2>1. late' = late
        BY <1>1 DEF CopyGlobal
    <2> QED
        BY <1>1, <2>1, GuardedUnchanged
<1>2. CASE prot' # prot
    <2>1. prot' = [prot EXCEPT ![g] = global] /\ prot[g] = NoProt
        BY <1>0, <1>2 DEF CopyGlobal, Copied, Shield
    <2>2. late' \subseteq late \cup {g} /\ late \subseteq late'
        BY DEF CopyGlobal
    <2>3. ASSUME NEW i \in Rows, row[i].st = "pending"
          PROVE  Want(prot', late', row[i].group) = Want(prot, late, row[i].group)
        <3>1. row[i].group \in Group
            BY RowsAreSequence DEF Row
        <3>2. CASE row[i].group = g
            <4>1. g \in late'
                BY <1>2, <2>3, <3>2 DEF CopyGlobal, Active
            <4> QED
                BY <2>1, <3>2, <4>1 DEF Want, NeedFor
        <3>3. CASE row[i].group # g
            BY <1>0, <2>1, <2>2, <3>1, <3>3 DEF Want
        <3> QED
            BY <3>2, <3>3
    <2>4. ASSUME NEW h \in Group PROVE Shield(h)' = Shield(h)
        BY <1>0, <2>1 DEF Shield
    <2>5. ProtectionTyped'
        BY <1>0, <2>1, <2>2 DEF ProtectionTyped, TypeOK
    <2> QED
        BY <2>3, <2>4, <2>5 DEF Guarded, NeedsStay, ShieldsStay
<1> QED
    BY <1>1, <1>2

(* What was agreed on when a row was created. *)
SameTerms(r, s) == s.group = r.group /\ s.owner = r.owner /\ s.cost = r.cost

(* Nobody was charged and no row was boosted, except an owner's own row that *)
(* had been paid for.                                                        *)
LEMMA StaysPaid ==
    ASSUME Paid, row' \in [Rows -> Row], UNCHANGED <<forceUsed, spent>>,
           \A i \in Rows : /\ SameTerms(row[i], row'[i])
                           /\ \A u \in User :
                                row'[i].fire[u] = 2
                                  => row[i].fire[u] = 2 \/ (row[i].owner = u /\ row[i].cost = "normal"),
           \A i \in Rows : \A u \in User :
                                row[i].fire[u] = 2
                                  => row'[i].fire[u] = 2
    PROVE  Paid'
<1>0. Rows' = Rows
    BY DEF Rows
<1>1. ASSUME NEW u \in User PROVE Forced(u)' = Forced(u) /\ Charged(u)' = Charged(u)
    BY <1>0, <1>1 DEF Forced, Charged, SameTerms
<1> QED
    BY <1>0, <1>1 DEF Paid, ForcePaid, ChargesBuyRows

(* s is what r becomes when the target has come, with a notice or without.   *)
Activates(r, s) == s = Activated(r, TRUE) \/ s = Activated(r, FALSE)

(* Activation changes the arrival, the status and the notice only. *)
LEMMA Activation ==
    ASSUME NEW r \in Row, NEW s, Activates(r, s), r.st = "pending"
    PROVE  /\ s \in Row /\ SameTerms(r, s)
           /\ s.mode = r.mode /\ s.fire = r.fire /\ s.need = r.need /\ s.arrived
           /\ Enough(s) <=> Enough(r)
           /\ s.st = IF Enough(s) THEN "ready" ELSE "pending"
           /\ Enough(s) => s.notice = "none"
<1>1. CASE Enough(r)
    <2>1. s = [r EXCEPT !.arrived = TRUE, !.st = "ready", !.notice = "none"]
        BY <1>1 DEF Activates, Activated
    <2> QED
        BY <1>1, <2>1 DEF Row, SameTerms, Enough, Fire
<1>2. CASE ~Enough(r)
    <2>1. PICK n \in {"pending", r.notice} : s = [r EXCEPT !.arrived = TRUE, !.notice = n]
        BY <1>2 DEF Activates, Activated
    <2> QED
        BY <1>2, <2>1 DEF Row, SameTerms, Enough, Fire
<1> QED
    BY <1>1, <1>2

(* One row changes, and still is sound. *)
LEMMA OneRow ==
    ASSUME Inv, NEW i \in Rows, NEW s \in Row, row' = [row EXCEPT ![i] = s],
           SameTerms(row[i], s), s.st # "closed" => row[i].st # "closed",
           s.st = "pending" => row[i].st = "pending",
           Guarded, UNCHANGED rolled, RowSound(s)
    PROVE  row' \in [Rows -> Row] /\ (\A j \in Rows : RowSound(row[j]))' /\ OneActive'
<1>1. row' \in [Rows -> Row] /\ Rows' = Rows
    BY RowsAreSequence DEF Inv, Rows
<1>2. row'[i] = s /\ \A j \in Rows \ {i} : row'[j] = row[j]
    BY RowsAreSequence DEF Inv
<1>3. ASSUME NEW j \in Rows PROVE RowSound(row[j])'
    <2>1. PICK r \in Row : r = row'[j]
        BY <1>1
    <2>2. RowSound(r) /\ r.group = row[j].group /\ (r.st = "pending" => row[j].st = "pending")
        BY <1>2, <2>1 DEF Inv, SameTerms
    <2>3. r.st = "pending" => Want(prot', late', r.group) = Want(prot, late, r.group)
        BY <2>2 DEF Guarded, NeedsStay
    <2> QED
        BY <2>1, <2>2, <2>3 DEF RowSound, RowBehaves, Enough, Fire
<1>4. OneActive'
    BY <1>1, <1>2, StaysOneActive DEF Inv, SameTerms
<1> QED
    BY <1>1, <1>3, <1>4

(* What one step does to the rows that were there: they forget no arrival,   *)
(* and do not wait again.                                                    *)
Onward ==
    /\ Rows' = Rows
    /\ \A j \in Rows : /\ row[j].arrived => row'[j].arrived
                       /\ row'[j].st = "pending" => row[j].st = "pending"

(* A join, an upgrade, a takeover or a refusal leaves sound rows, and takes  *)
(* a force use for a boost and for nothing else.                             *)
LEMMA Joining ==
    ASSUME Inv, Paid, NEW i \in Rows, NEW u \in User, NEW m \in Mode, NEW v, NEW seen \in BOOLEAN, NEW joined,
           row[i].st = "pending", seen => rolled = "real",
           JoinRow(i, u, m, v, seen, joined), Guarded, UNCHANGED <<rolled, spent>>
    PROVE  /\ row' \in [Rows -> Row] /\ forceUsed' \in SUBSET User
           /\ (\A j \in Rows : RowSound(row[j]))' /\ OneActive' /\ Paid' /\ Onward
<1> DEFINE r == row[i]
           boosted == r.need > 0 /\ m = "normal"
           arrived == r.arrived \/ seen
           Goal == /\ row' \in [Rows -> Row] /\ forceUsed' \in SUBSET User
                   /\ (\A j \in Rows : RowSound(row[j]))' /\ OneActive' /\ Paid' /\ Onward
<1>0. /\ r \in Row /\ RowSound(r) /\ row \in [Rows -> Row] /\ forceUsed \in SUBSET User
      /\ arrived => rolled = "real"
    BY RowsAreSequence DEF Inv, TypeOK, RowSound, RowBehaves
<1>1. CASE UNCHANGED <<row, forceUsed>>
    <2>1. (\A j \in Rows : RowSound(row[j]))'
        BY <1>1 DEF Inv, Guarded, NeedsStay, RowSound, RowBehaves, Rows, Enough, Fire
    <2>2. OneActive' /\ Paid' /\ Onward
        BY <1>1 DEF Inv, Paid, ForcePaid, ChargesBuyRows, OneActive, Onward, Rows, Forced, Charged
    <2> QED
        BY <1>0, <1>1, <2>1, <2>2
<1>2. ASSUME NEW s \in Row, row' = [row EXCEPT ![i] = s], SameTerms(r, s), RowSound(s),
             s.st # "closed", r.arrived => s.arrived
      PROVE  row' \in [Rows -> Row] /\ (\A j \in Rows : RowSound(row[j]))' /\ OneActive' /\ Onward
    <2>1. row' \in [Rows -> Row] /\ (\A j \in Rows : RowSound(row[j]))' /\ OneActive'
        BY <1>2, OneRow
    <2> QED
        BY <2>1, <1>0, <1>2 DEF Onward, Rows
<1>3. ASSUME NEW s \in Row, row' = [row EXCEPT ![i] = s], SameTerms(r, s), s.fire = r.fire,
             UNCHANGED forceUsed
      PROVE  Paid'
    <2>1. row' \in [Rows -> Row]
        BY <1>0, <1>3
    <2> QED
        BY <2>1, <1>0, <1>3, StaysPaid DEF SameTerms
<1>4. CASE /\ r.mode # "super" /\ m = "super"
           /\ LET taken == [r EXCEPT !.operator = u, !.mode = "super"]
              IN  row' = IF v < 2 THEN row
                         ELSE [row EXCEPT ![i] = IF arrived THEN Activated(taken, TRUE) ELSE taken]
           /\ UNCHANGED forceUsed
    <2> DEFINE taken == [r EXCEPT !.operator = u, !.mode = "super"]
               s == IF arrived THEN Activated(taken, TRUE) ELSE taken
    <2>1. CASE row' = row
        BY <2>1, <1>1, <1>4
    <2>2. CASE row' = [row EXCEPT ![i] = s]
        <3>1. /\ taken \in Row /\ SameTerms(r, taken) /\ taken.st = "pending" /\ Enough(taken)
              /\ taken.fire = r.fire /\ taken.arrived = r.arrived /\ taken.notice = r.notice
              /\ taken.mode = "super"
            BY <1>0 DEF Row, Mode, SameTerms, Enough
        <3>2. /\ s \in Row /\ SameTerms(r, s) /\ s.fire = r.fire /\ s.mode = "super" /\ Enough(s)
              /\ s.arrived <=> arrived
              /\ s.st = IF arrived THEN "ready" ELSE "pending"
              /\ s.notice = IF arrived THEN "none" ELSE r.notice
            <4>1. CASE arrived
                <5>1. Activates(taken, s)
                    BY <4>1 DEF Activates
                <5> HIDE DEF s, taken
                <5>2. /\ s \in Row /\ SameTerms(taken, s) /\ s.arrived /\ s.mode = taken.mode /\ s.fire = taken.fire
                      /\ Enough(s) <=> Enough(taken)
                      /\ s.st = IF Enough(s) THEN "ready" ELSE "pending"
                      /\ Enough(s) => s.notice = "none"
                    BY <3>1, <5>1, Activation
                <5> QED
                    BY <3>1, <4>1, <5>2 DEF SameTerms, Row
            <4>2. CASE ~arrived
                BY <3>1, <4>2, <1>0 DEF RowSound, RowBehaves, Row
            <4> QED
                BY <4>1, <4>2
        <3>3. RowSound(s) /\ s.st # "closed" /\ (r.arrived => s.arrived)
            BY <3>2, <1>0 DEF RowSound, RowBehaves, SameTerms
        <3> HIDE DEF s
        <3>4. row' \in [Rows -> Row] /\ (\A j \in Rows : RowSound(row[j]))' /\ OneActive' /\ Onward
            BY <1>2, <2>2, <3>2, <3>3
        <3>5. Paid'
            BY <1>3, <1>4, <2>2, <3>2
        <3> QED
            BY <3>4, <3>5, <1>0, <1>4
    <2> QED
        BY <2>1, <2>2, <1>4
<1>5. CASE row' = [row EXCEPT ![i].notice = "none"] /\ UNCHANGED forceUsed
    <2> DEFINE s == [r EXCEPT !.notice = "none"]
    <2>1. /\ s \in Row /\ SameTerms(r, s) /\ RowSound(s) /\ s.st # "closed" /\ s.fire = r.fire
          /\ s.arrived = r.arrived
        BY <1>0 DEF Row, SameTerms, RowSound, RowBehaves, Enough, Fire
    <2>2. row' = [row EXCEPT ![i] = s]
        BY <1>5
    <2> HIDE DEF s
    <2>3. row' \in [Rows -> Row] /\ (\A j \in Rows : RowSound(row[j]))' /\ OneActive' /\ Onward
        BY <1>2, <2>1, <2>2
    <2>4. Paid'
        BY <1>3, <1>5, <2>1, <2>2
    <2> QED
        BY <2>3, <2>4, <1>0, <1>5
<1>6. CASE /\ r.mode # "super" /\ m # "super"
           /\ boosted => u \notin forceUsed
           /\ ~boosted => u \notin Members(r)
           /\ forceUsed' = IF boosted THEN forceUsed \cup {u} ELSE forceUsed
           /\ LET more == [r EXCEPT !.fire[u] = IF boosted THEN 2 ELSE 1, !.notice = "none"]
              IN  row' = [row EXCEPT ![i] = IF arrived THEN Activated(more, FALSE) ELSE more]
    <2> DEFINE more == [r EXCEPT !.fire[u] = IF boosted THEN 2 ELSE 1, !.notice = "none"]
               s == IF arrived THEN Activated(more, FALSE) ELSE more
    <2>1. /\ more \in Row /\ SameTerms(r, more) /\ more.st = "pending" /\ more.notice = "none"
          /\ more.fire = [r.fire EXCEPT ![u] = IF boosted THEN 2 ELSE 1]
          /\ more.arrived = r.arrived /\ more.mode = r.mode /\ more.need = r.need
        <3>1. r.fire \in [User -> 0 .. 2]
            BY <1>0 DEF Row
        <3> DEFINE f == [r.fire EXCEPT ![u] = IF boosted THEN 2 ELSE 1]
        <3>2. f \in [User -> 0 .. 2]
            BY <3>1
        <3>3. more = [[r EXCEPT !.fire = f] EXCEPT !.notice = "none"]
            BY <1>0, <3>1 DEF Row
        <3> HIDE DEF more, f
        <3>4. /\ more \in Row /\ SameTerms(r, more) /\ more.st = "pending" /\ more.notice = "none"
              /\ more.fire = f
              /\ more.arrived = r.arrived /\ more.mode = r.mode /\ more.need = r.need
            BY <1>0, <3>2, <3>3 DEF Row, SameTerms
        <3> QED
            BY <3>4 DEF f
    <2> HIDE DEF more
    <2>2. /\ s \in Row /\ SameTerms(r, s) /\ s.fire = more.fire
          /\ s.mode = r.mode /\ s.need = r.need
          /\ s.arrived <=> arrived
          /\ s.st = (IF arrived /\ Enough(s) THEN "ready" ELSE "pending")
          /\ s.notice = "none"
        <3>1. CASE arrived
            <4>1. Activates(more, s)
                BY <3>1 DEF Activates
            <4>2. s.notice = "none"
                BY <2>1, <3>1 DEF Activated, Row
            <4> HIDE DEF s
            <4> QED
                BY <2>1, <3>1, <4>1, <4>2, Activation DEF SameTerms
        <3>2. CASE ~arrived
            BY <2>1, <3>2, <1>0 DEF RowSound, RowBehaves, Row
        <3> QED
            BY <3>1, <3>2
    <2> HIDE DEF s
    <2>3. row' = [row EXCEPT ![i] = s]
        BY <1>6 DEF s, more
    <2>4. RowSound(s) /\ s.st # "closed" /\ (r.arrived => s.arrived)
        BY <2>2, <1>0 DEF RowSound, RowBehaves, SameTerms
    <2>5. row' \in [Rows -> Row] /\ (\A j \in Rows : RowSound(row[j]))' /\ OneActive' /\ Onward
        BY <1>2, <2>2, <2>3, <2>4
    <2>6. Paid'
        <3>1. Rows' = Rows /\ row'[i] = s /\ \A j \in Rows \ {i} : row'[j] = row[j]
            BY <1>0, <2>3, <2>5 DEF Onward
        <3>2. s.fire = [r.fire EXCEPT ![u] = IF boosted THEN 2 ELSE 1] /\ r.fire \in [User -> 0 .. 2]
            BY <2>1, <2>2, <1>0 DEF Row
        <3>3. ASSUME NEW w \in User, w # u \/ ~boosted PROVE Forced(w)' = Forced(w)
            <4>1. s.fire[w] = 2 <=> r.fire[w] = 2
                BY <3>2, <3>3, <1>6, <1>0 DEF Members, Row
            <4> QED
                BY <3>1, <4>1, <2>2 DEF Forced, SameTerms
        <3>4. ASSUME boosted PROVE Forced(u)' = {i}
            <4>1. Forced(u) = {}
                BY <3>4, <1>6 DEF Paid, ForcePaid
            <4>2. s.fire[u] = 2
                BY <3>2, <3>4
            <4> QED
                BY <3>1, <4>1, <4>2 DEF Forced
        <3>5. ASSUME NEW w \in User PROVE Charged(w)' = Charged(w)
            BY <3>1, <2>2 DEF Charged, SameTerms
        <3>6. ForcePaid'
            BY <3>1, <3>3, <3>4, <1>6 DEF Paid, ForcePaid
        <3>7. ChargesBuyRows'
            BY <3>5 DEF Paid, ChargesBuyRows
        <3> QED
            BY <3>6, <3>7 DEF Paid
    <2> QED
        BY <2>5, <2>6, <1>0, <1>6
<1> QED
    BY <1>1, <1>4, <1>5, <1>6 DEF JoinRow

-----------------------------------------------------------------------------
(* What the steps of requests have in common *)

IInv == Inv /\ Paid /\ NoStrandedReservation

(* Forced and Charged are functions of the rows. *)
LEMMA RowsUnchanged ==
    ASSUME IInv, Guarded, UNCHANGED <<row, rolled, forceUsed, spent>>
    PROVE  (\A i \in Rows : RowSound(row[i]))' /\ OneActive' /\ Paid'
<1>1. Rows' = Rows
    BY DEF Rows
<1>2. (\A i \in Rows : RowSound(row[i]))' /\ OneActive'
    BY <1>1 DEF IInv, Inv, Guarded, NeedsStay, RowSound, RowBehaves, Enough, Fire, OneActive
<1>3. ASSUME NEW u \in User PROVE Forced(u)' = Forced(u) /\ Charged(u)' = Charged(u)
    BY <1>1 DEF Forced, Charged
<1> QED
    BY <1>1, <1>2, <1>3 DEF IInv, Paid, ForcePaid, ChargesBuyRows

(* Requests of /prepare, and those of /join-by-message. *)
Preparing == [pc : {"retry", "view", "creating"}, user : User, group : Group, mode : Mode,
              ver : Version, seen : BOOLEAN, attempt : {1, 2}]
Replying == [pc : {"joining"}, user : User, id : 1 .. MaxRows, ver : Version, seen : BOOLEAN]

LEMMA RequestKinds ==
    ASSUME TypeOK, NEW p \in Proc
    PROVE  /\ req[p] \in Request
           /\ req[p].pc \in {"retry", "view", "creating"} => req[p] \in Preparing
           /\ req[p].pc = "joining" => req[p] \in Replying
           /\ Preparing \subseteq Request /\ Replying \subseteq Request /\ Idle \in Request
           /\ [pc |-> "failed"] \in Request
           /\ \A i \in 0 .. MaxRows : [pc |-> "reconcile", handled |-> i] \in Request
           /\ req[p].pc = "reconcile" => req[p].handled \in 0 .. MaxRows
           /\ req[p] # Idle => req[p].pc # "idle"
BY DEF TypeOK, Request, Preparing, Replying, Idle

(* Requests stay sound: the roll of the day is kept, rows are too, and a     *)
(* request that creates a row keeps the protection it read.                  *)
LEMMA RequestsSound ==
    ASSUME Inv, rolled = "real" => rolled' = "real", Rows \subseteq Rows',
           ShieldsStay,
           \A x \in Proc : req'[x] = req[x] \/ RequestSound(req[x])'
    PROVE  (\A x \in Proc : RequestSound(req[x]))'
<1> SUFFICES ASSUME NEW x \in Proc, req'[x] = req[x] PROVE RequestSound(req[x])'
    OBVIOUS
<1>1. PICK q \in Request : q = req[x] /\ q = req'[x] /\ RequestSound(q)
    BY DEF Inv, TypeOK
<1>2. q.pc = "creating" => q.group \in Group /\ Shield(q.group)' = Shield(q.group)
    BY <1>1, RequestKinds DEF Inv, Preparing, ShieldsStay
<1> QED
    BY <1>1, <1>2 DEF RequestSound

(* While nobody stops reconciling but by a crash, and rows go onward, a row  *)
(* that waits in ignorance will be reconciled.                               *)
LEMMA StaysAware ==
    ASSUME NoStrandedReservation, Onward, UNCHANGED rolled,
           crashed' \/ (~crashed /\ \A x \in Proc : req[x].pc = "reconcile" => req'[x].pc = "reconcile")
    PROVE  NoStrandedReservation'
BY DEF NoStrandedReservation, Onward

(* A step that changes one request only. *)
LEMMA RequestOnly ==
    ASSUME IInv, NEW p \in Proc, NEW q \in Request, req' = [req EXCEPT ![p] = q],
           Guarded, UNCHANGED <<row, rolled, forceUsed, spent>>, RequestSound(q),
           q.pc = "creating" => UNCHANGED <<prot, global>>,
           crashed' \in BOOLEAN, crashed' = (crashed \/ req[p].pc = "reconcile")
    PROVE  IInv'
<1>1. TypeOK'
    BY DEF IInv, Inv, TypeOK, Guarded, ProtectionTyped
<1>2. (\A x \in Proc : RequestSound(req[x]))'
    <2>1. req \in [Proc -> Request] /\ Rows' = Rows
        BY DEF IInv, Inv, TypeOK, Rows
    <2>2. RequestSound(req[p])'
        BY <2>1 DEF RequestSound, Shield
    <2> QED
        BY <2>1, <2>2, RequestsSound DEF IInv, Inv, Guarded
<1>3. NoStrandedReservation'
    <2>1. Onward
        BY DEF Onward, Rows
    <2> QED
        BY <2>1, StaysAware DEF IInv, Inv, TypeOK
<1> QED
    BY <1>1, <1>2, <1>3, RowsUnchanged DEF IInv, Inv

(* A step that changes rows by a join or a reconciliation, and one request.  *)
LEMMA RowsAndRequest ==
    ASSUME IInv, NEW p \in Proc, NEW q \in Request, req' = [req EXCEPT ![p] = q],
           Guarded, UNCHANGED <<spent, crashed>>, rolled' \in {"none", "real", "makeup"},
           rolled = "real" => rolled' = "real",
           q.pc \in {"idle", "reconcile"},
           row' \in [Rows -> Row], forceUsed' \in SUBSET User,
           (\A j \in Rows : RowSound(row[j]))', OneActive', Paid', NoStrandedReservation'
    PROVE  IInv'
<1>1. TypeOK' /\ Rows' = Rows
    BY RowsTyped DEF IInv, Inv, TypeOK, Guarded, ProtectionTyped
<1>2. (\A x \in Proc : RequestSound(req[x]))'
    <2>1. req \in [Proc -> Request]
        BY DEF IInv, Inv, TypeOK
    <2>2. RequestSound(req[p])'
        BY <2>1 DEF RequestSound
    <2> QED
        BY <1>1, <2>1, <2>2, RequestsSound DEF IInv, Inv, Guarded
<1> QED
    BY <1>1, <1>2 DEF IInv, Inv

-----------------------------------------------------------------------------
(* The steps of requests *)

LEMMA PrepareBeginStep ==
    ASSUME IInv, NEW p \in Proc, NEW u \in User, NEW g \in Group, NEW m \in Mode, NEW v \in Version,
           PrepareBegin(p, u, g, m, v)
    PROVE  IInv'
<1> DEFINE q == [pc |-> "view", user |-> u, group |-> g, mode |-> m, ver |-> v,
                 seen |-> rolled = "real", attempt |-> 1]
<1>1. q \in Preparing /\ RequestSound(q) /\ req[p].pc = "idle"
    <2>1. q \in Preparing
        BY DEF Preparing
    <2>2. RequestSound(q)
        BY DEF RequestSound
    <2> QED
        BY <2>1, <2>2 DEF PrepareBegin, Idle
<1>2. q \in Request
    BY <1>1, RequestKinds DEF IInv, Inv
<1> QED
    BY <1>1, <1>2, RequestOnly, GuardedUnchanged DEF PrepareBegin, Become, IInv, Inv, TypeOK

LEMMA PrepareAgainStep ==
    ASSUME IInv, NEW p \in Proc, PrepareAgain(p)
    PROVE  IInv'
<1> DEFINE q == [req[p] EXCEPT !.pc = "view", !.seen = rolled = "real"]
<1>1. req[p] \in Preparing /\ req[p].pc = "retry"
    BY RequestKinds DEF IInv, Inv, PrepareAgain
<1>2. q \in Preparing /\ RequestSound(q)
    BY <1>1 DEF Preparing, RequestSound
<1>3. q \in Request
    BY <1>2, RequestKinds DEF IInv, Inv
<1> QED
    BY <1>1, <1>2, <1>3, RequestOnly, GuardedUnchanged DEF PrepareAgain, Become, IInv, Inv, TypeOK

LEMMA IdleStep ==
    ASSUME IInv, NEW p \in Proc, Become(p, Idle),
           Guarded, UNCHANGED <<row, rolled, forceUsed, spent>>,
           crashed' \in BOOLEAN, crashed' = (crashed \/ req[p].pc = "reconcile")
    PROVE  IInv'
<1>1. RequestSound(Idle) /\ Idle \in Request /\ Idle.pc # "creating"
    BY RequestKinds DEF IInv, Inv, RequestSound, Idle
<1> QED
    BY <1>1, RequestOnly DEF Become

LEMMA PrepareConflictStep ==
    ASSUME IInv, NEW p \in Proc, PrepareConflict(p)
    PROVE  IInv'
<1>1. req[p] \in Preparing /\ req[p].pc = "creating" /\ RequestSound(req[p])
    BY RequestKinds DEF IInv, Inv, PrepareConflict
<1>2. CASE req' = [req EXCEPT ![p] = [req[p] EXCEPT !.pc = "retry", !.attempt = 2]]
    <2> DEFINE q == [req[p] EXCEPT !.pc = "retry", !.attempt = 2]
    <2>1. q \in Preparing /\ RequestSound(q)
        BY <1>1 DEF Preparing, RequestSound
    <2>2. q \in Request
        BY <2>1, RequestKinds DEF IInv, Inv
    <2> QED
        BY <1>1, <1>2, <2>1, <2>2, RequestOnly, GuardedUnchanged DEF PrepareConflict, IInv, Inv, TypeOK
<1>3. CASE req' = [req EXCEPT ![p] = [pc |-> "failed"]]
    <2>1. [pc |-> "failed"] \in Request /\ RequestSound([pc |-> "failed"])
        BY RequestKinds DEF IInv, Inv, RequestSound
    <2> QED
        BY <1>1, <1>3, <2>1, RequestOnly, GuardedUnchanged DEF PrepareConflict, IInv, Inv, TypeOK
<1> QED
    BY <1>2, <1>3 DEF PrepareConflict, Become

LEMMA JoinBeginStep ==
    ASSUME IInv, NEW p \in Proc, NEW u \in User, NEW i \in Rows, NEW v \in Version,
           JoinBegin(p, u, i, v)
    PROVE  IInv'
<1> DEFINE q == [pc |-> "joining", user |-> u, id |-> i, ver |-> v, seen |-> rolled = "real"]
<1>0. i \in 1 .. MaxRows
    BY RowsAreSequence, ConstantAssumption DEF IInv, Inv
<1>1. q \in Replying /\ RequestSound(q) /\ req[p].pc = "idle"
    <2>1. q \in Replying
        BY <1>0 DEF Replying
    <2>2. RequestSound(q)
        BY DEF RequestSound
    <2> QED
        BY <2>1, <2>2 DEF JoinBegin, Idle
<1>2. q \in Request
    BY <1>1, RequestKinds DEF IInv, Inv
<1> QED
    BY <1>1, <1>2, RequestOnly, GuardedUnchanged DEF JoinBegin, Become, IInv, Inv, TypeOK

(* A join that leaves a request idle or reconciling. *)
LEMMA JoinStep ==
    ASSUME IInv, NEW p \in Proc, req[p].pc # "reconcile",
           NEW i \in Rows, NEW u \in User, NEW m \in Mode, NEW v, NEW seen \in BOOLEAN, NEW joined,
           row[i].st = "pending", seen => rolled = "real",
           JoinRow(i, u, m, v, seen, joined), Guarded, UNCHANGED <<rolled, spent, crashed>>,
           NEW q \in Request, q.pc \in {"idle", "reconcile"}, req' = [req EXCEPT ![p] = q]
    PROVE  IInv'
<1>1. /\ row' \in [Rows -> Row] /\ forceUsed' \in SUBSET User
      /\ (\A j \in Rows : RowSound(row[j]))' /\ OneActive' /\ Paid' /\ Onward
    BY Joining DEF IInv
<1>2. NoStrandedReservation'
    <2>1. req \in [Proc -> Request] /\ crashed \in BOOLEAN
        BY DEF IInv, Inv, TypeOK
    <2> QED
        BY <1>1, <2>1, StaysAware DEF IInv
<1> QED
    BY <1>1, <1>2, RowsAndRequest DEF IInv, Inv, TypeOK

LEMMA PrepareRunStep ==
    ASSUME IInv, NEW p \in Proc, PrepareRun(p)
    PROVE  IInv'
<1> DEFINE q == req[p]
           found == {i \in Active(q.group) :
                        row[i].st = "pending" \/ row[i].need > 0 \/ q.mode = "super"}
           protected == Shield(q.group) # NoProt
           refused == protected /\ q.ver < 2 /\ q.mode # "super"
           ready == q.seen /\ (~protected \/ (q.mode = "super" /\ q.ver = 0))
<1>1. q \in Preparing /\ q.pc = "view" /\ RequestSound(q)
    BY RequestKinds DEF IInv, Inv, PrepareRun
<1>5. ASSUME CopyGlobal(q.group, q.ver > 0) PROVE Guarded
    <2>1. q.group \in Group /\ (q.ver > 0) \in BOOLEAN
        BY <1>1 DEF Preparing
    <2>2. TypeOK /\ UNCHANGED global
        BY DEF PrepareRun, IInv, Inv
    <2> HIDE DEF q
    <2> QED
        BY <1>5, <2>1, <2>2, GuardedCopy
<1>2. CASE Become(p, Idle) /\ UNCHANGED <<row, forceUsed>> /\ CopyGlobal(q.group, q.ver > 0)
    BY <1>1, <1>2, <1>5, IdleStep DEF PrepareRun, IInv, Inv, TypeOK
<1>3. ASSUME CopyGlobal(q.group, q.ver > 0), NEW i \in found, NEW joined \in BOOLEAN, row[i].st = "pending",
             JoinRow(i, q.user, q.mode, q.ver, q.seen, joined), ThenReconcile(p, joined, i)
      PROVE  IInv'
    <2>1. i \in Rows /\ i \in 0 .. MaxRows
        BY <1>3, RowsAreSequence, ConstantAssumption DEF Active, IInv, Inv
    <2>2. q.user \in User /\ q.mode \in Mode /\ q.seen \in BOOLEAN /\ (q.seen => rolled = "real")
        BY <1>1 DEF Preparing, RequestSound
    <2>3. PICK r \in Request : r.pc \in {"idle", "reconcile"} /\ req' = [req EXCEPT ![p] = r]
        BY <1>3, <2>1, RequestKinds DEF ThenReconcile, Become, Idle, IInv, Inv
    <2>4. Guarded /\ UNCHANGED <<rolled, spent, crashed>>
        BY <1>3, <1>5 DEF PrepareRun
    <2> HIDE DEF q, found
    <2> QED
        BY <1>1, <1>3, <2>1, <2>2, <2>3, <2>4, JoinStep DEF q
<1>4. CASE /\ ~refused /\ Become(p, [q EXCEPT !.pc = "creating"])
           /\ UNCHANGED <<row, forceUsed, prot, late>>
    <2> DEFINE r == [q EXCEPT !.pc = "creating"]
    <2>1. r \in Preparing /\ RequestSound(r)
        BY <1>1, <1>4 DEF Preparing, RequestSound
    <2>2. r \in Request
        BY <2>1, RequestKinds DEF IInv, Inv
    <2> QED
        BY <1>1, <1>4, <2>1, <2>2, RequestOnly, GuardedUnchanged DEF PrepareRun, Become, IInv, Inv, TypeOK
<1> QED
    BY <1>2, <1>3, <1>4 DEF PrepareRun

LEMMA JoinRunStep ==
    ASSUME IInv, NEW p \in Proc, JoinRun(p)
    PROVE  IInv'
<1> DEFINE q == req[p]
<1>1. q \in Replying /\ q.pc = "joining" /\ RequestSound(q)
    BY RequestKinds DEF IInv, Inv, JoinRun
<1>4. Guarded
    <2>1. q.id \in Rows
        BY <1>1 DEF RequestSound
    <2>2. row[q.id].group \in Group /\ TypeOK
        BY <2>1, RowsAreSequence DEF Row, IInv, Inv
    <2>3. CopyGlobal(row[q.id].group, TRUE) /\ UNCHANGED global
        BY DEF JoinRun
    <2> QED
        BY <2>2, <2>3, GuardedCopy
<1>2. CASE UNCHANGED <<row, forceUsed>>
    BY <1>1, <1>2, <1>4, IdleStep DEF JoinRun, IInv, Inv, TypeOK
<1>3. ASSUME NEW joined \in BOOLEAN, row[q.id].st = "pending",
             JoinRow(q.id, q.user, "none", q.ver, q.seen, joined)
      PROVE  IInv'
    <2>1. q.id \in Rows /\ q.user \in User /\ q.seen \in BOOLEAN /\ (q.seen => rolled = "real")
        BY <1>1 DEF Replying, RequestSound
    <2>2. Idle \in Request /\ Idle.pc = "idle" /\ "none" \in Mode
        BY RequestKinds DEF IInv, Inv, Idle, Mode
    <2>3. Guarded /\ UNCHANGED <<rolled, spent, crashed>> /\ req' = [req EXCEPT ![p] = Idle]
        BY <1>4 DEF JoinRun, Become
    <2> HIDE DEF q
    <2> QED
        BY <1>1, <1>3, <2>1, <2>2, <2>3, JoinStep DEF q
<1> QED
    BY <1>2, <1>3 DEF JoinRun

(* The row that /prepare inserts: the target may be there already. *)
Created(q) == IF q.seen THEN Activated(NewRow(q), FALSE) ELSE NewRow(q)

(* A new row asks for what the protection, which the lock keeps, demands.    *)
LEMMA NewRowSound ==
    ASSUME IInv, NEW q \in Preparing, q.pc = "creating", RequestSound(q)
    PROVE  /\ Created(q) \in Row /\ RowBehaves(Created(q))
           /\ Created(q).mode # "super" => Created(q).need = NeedFor(Shield(q.group))
           /\ Created(q).group = q.group /\ Created(q).owner = q.user /\ Created(q).cost = q.mode
           /\ \A u \in User : Created(q).fire[u] = 2 => u = q.user /\ q.mode = "normal"
<1> DEFINE n == NewRow(q)
           s == Created(q)
<1>0. /\ q.group \in Group /\ q.user \in User /\ q.mode \in Mode /\ q.seen \in BOOLEAN
      /\ q.ver \in {0, 1, 2}
    BY ConstantAssumption DEF Preparing
<1>1. n.need = NeedFor(Shield(q.group)) \/ q.mode = "super"
    <2>1. CASE q.ver > 0
        BY <2>1 DEF NewRow
    <2>2. CASE q.ver = 0
        BY <1>0, <2>2 DEF NewRow, RequestSound, NeedFor
    <2> QED
        BY <1>0, <2>1, <2>2
<1>2. n.need \in 0 .. LevelCap + 1
    <2>1. Shield(q.group) \in Level \cup {NoProt}
        BY <1>0, ConstantAssumption DEF Shield, IInv, Inv, TypeOK, Level
    <2>2. NeedFor(Shield(q.group)) \in 0 .. LevelCap + 1
        BY <2>1, ConstantAssumption DEF NeedFor, Level
    <2> QED
        BY <2>2, ConstantAssumption DEF NewRow
<1>3. n.fire \in [User -> 0 .. 2] /\ \A u \in User : n.fire[u] = 2 => u = q.user /\ q.mode = "normal"
    BY <1>0 DEF NewRow
<1>4. /\ n \in Row /\ n.st = "pending" /\ n.mode = q.mode /\ n.cost = q.mode /\ n.group = q.group
      /\ n.owner = q.user /\ ~n.arrived /\ n.notice = "none"
    <2>1. /\ n.st = "pending" /\ n.mode = q.mode /\ n.cost = q.mode /\ n.group = q.group
          /\ n.owner = q.user /\ n.arrived = FALSE /\ n.notice = "none" /\ n.operator = NoUser
        BY DEF NewRow
    <2>2. n = [group |-> n.group, st |-> n.st, mode |-> n.mode, cost |-> n.cost, owner |-> n.owner,
               operator |-> n.operator, fire |-> n.fire, need |-> n.need, arrived |-> n.arrived,
               notice |-> n.notice]
        BY DEF NewRow
    <2> HIDE DEF n
    <2> QED
        BY <1>0, <1>2, <1>3, <2>1, <2>2 DEF Row
<1>7. ~q.seen => s = n
    BY DEF Created
<1> HIDE DEF n
<1>5. CASE ~q.seen
    BY <1>1, <1>3, <1>4, <1>5, <1>7 DEF RowBehaves
<1>6. CASE q.seen
    <2>1. Activates(n, s)
        BY <1>6 DEF Activates, Created, n
    <2>2. s.notice = "none"
        BY <1>4, <1>6 DEF Created, Activated, Row, n
    <2> HIDE DEF s
    <2>3. /\ s \in Row /\ SameTerms(n, s)
          /\ s.mode = n.mode /\ s.fire = n.fire /\ s.need = n.need /\ s.arrived
          /\ s.st = IF Enough(s) THEN "ready" ELSE "pending"
        <3>1. Activates(n, s)
            BY <2>1 DEF Activates
        <3>2. n \in Row /\ n.st = "pending"
            BY <1>4
        <3> QED
            BY <3>1, <3>2, Activation
    <2>4. s.group = q.group /\ s.owner = q.user /\ s.cost = q.mode /\ s.mode = q.mode
        BY <1>4, <2>3 DEF SameTerms
    <2>5. rolled = "real"
        BY <1>6 DEF RequestSound
    <2>6. RowBehaves(s)
        BY <2>2, <2>3, <2>4, <2>5 DEF RowBehaves
    <2> QED
        BY <1>1, <1>3, <2>3, <2>4, <2>6 DEF s
<1> QED
    BY <1>0, <1>5, <1>6 DEF s

LEMMA PrepareCreateStep ==
    ASSUME IInv, NEW p \in Proc, PrepareCreate(p)
    PROVE  IInv'
<1> DEFINE q == req[p]
           s == Created(q)
           n == Len(row) + 1
<1>1. q \in Preparing /\ q.pc = "creating" /\ RequestSound(q)
    BY RequestKinds DEF IInv, Inv, PrepareCreate
<1>2. /\ s \in Row /\ RowBehaves(s) /\ s.group = q.group /\ s.owner = q.user /\ s.cost = q.mode
      /\ s.mode # "super" => s.need = NeedFor(Shield(q.group))
      /\ \A u \in User : s.fire[u] = 2 => u = q.user /\ q.mode = "normal"
    BY <1>1, NewRowSound
<1>3. row' = Append(row, s)
    BY DEF PrepareCreate, Created
<1> HIDE DEF s
<1>4. /\ row \in Seq(Row) /\ Rows = 1 .. Len(row) /\ Len(row) \in Nat /\ n \in 1 .. MaxRows
      /\ row \in [Rows -> Row] /\ IsFiniteSet(Rows)
    BY RowsAreSequence, ConstantAssumption DEF IInv, Inv, PrepareCreate
<1>5. /\ row' \in Seq(Row) /\ Len(row') = n /\ row'[n] = s
      /\ \A j \in Rows : row'[j] = row[j]
    BY <1>2, <1>3, <1>4, AppendProperties
<1>6. Rows' = Rows \cup {n} /\ n \notin Rows /\ row' \in [1 .. n -> Row]
    BY <1>4, <1>5 DEF Rows
<1>7. UNCHANGED <<global, rolled, crashed>> /\ Consume(q) /\ ~Denied(q) /\ Active(q.group) = {}
    BY DEF PrepareCreate
<1>15. /\ prot' = Copied(q.group, q.ver > 0) /\ late' = late \ {q.group}
       /\ q.group \in Group /\ q.ver \in {0, 1, 2}
       /\ prot \in [Group -> Level \cup {NoProt}] /\ global \in Level \cup {NoProt}
    BY <1>1, ConstantAssumption DEF PrepareCreate, Preparing, IInv, Inv, TypeOK, Level
<1>16. ProtectionTyped' /\ \A g \in Group : Shield(g)' = Shield(g) /\ (g # q.group => prot'[g] = prot[g])
    BY <1>7, <1>15 DEF Copied, Shield, ProtectionTyped, IInv, Inv, TypeOK
<1>8. TypeOK'
    <2>1. q.user \in User /\ forceUsed' \in SUBSET User
        BY <1>1, <1>7 DEF Preparing, Consume, IInv, Inv, TypeOK
    <2>2. spent' \in [User -> 0 .. MaxCharges]
        BY <1>7, <2>1, ConstantAssumption DEF Consume, Denied, IInv, Inv, TypeOK
    <2>3. req' \in [Proc -> Request]
        BY <1>4, RequestKinds DEF PrepareCreate, Become, IInv, Inv, TypeOK
    <2>4. \E k \in 0 .. MaxRows : row' \in [1 .. k -> Row]
        BY <1>4, <1>6
    <2> QED
        BY <2>1, <2>2, <2>3, <2>4, <1>7, <1>16 DEF IInv, Inv, TypeOK, ProtectionTyped
<1>9. (\A j \in Rows : RowSound(row[j]))'
    <2>1. ASSUME NEW j \in Rows PROVE RowSound(row[j])'
        <3>1. row'[j] = row[j] /\ RowSound(row[j]) /\ row[j].group \in Group
            BY <1>4, <1>5 DEF IInv, Inv, Row
        <3>2. row[j].st = "pending" => row[j].group # q.group
            BY <1>7 DEF Active
        <3>3. row[j].st = "pending" => Want(prot', late', row[j].group) = Want(prot, late, row[j].group)
            BY <1>15, <1>16, <3>1, <3>2 DEF Want
        <3> QED
            BY <1>7, <3>1, <3>3 DEF RowSound, RowBehaves, Enough, Fire
    <2>0. PICK k : k = n
        OBVIOUS
    <2>2. RowSound(row[k])'
        <3>1. s.mode # "super" => Shield(q.group) = prot'[q.group]
            <4>1. s.mode # "super" /\ q.ver = 0 => Shield(q.group) = NoProt
                BY <1>1, <1>2, <1>15 DEF RequestSound, RowBehaves
            <4> QED
                BY <1>15, <4>1 DEF Copied, Shield
        <3>2. s.mode # "super" => s.need = Want(prot', late', s.group)
            BY <1>2, <1>15, <3>1 DEF Want
        <3>3. row'[k] = s
            BY <1>5, <2>0
        <3> QED
            BY <1>2, <1>7, <3>2, <3>3 DEF RowSound, RowBehaves, Enough, Fire
    <2> QED
        BY <1>6, <2>0, <2>1, <2>2
<1>10. OneActive'
    BY <1>2, <1>5, <1>6, <1>7 DEF IInv, Inv, OneActive, Active
<1>11. (\A x \in Proc : RequestSound(req[x]))'
    <2>1. req \in [Proc -> Request] /\ req'[p] = [pc |-> "reconcile", handled |-> n]
        BY DEF IInv, Inv, TypeOK, PrepareCreate, Become
    <2>2. RequestSound(req[p])'
        BY <2>1 DEF RequestSound
    <2>3. \A x \in Proc \ {p} : req'[x] = req[x]
        BY <2>1 DEF PrepareCreate, Become
    <2> QED
        BY <1>6, <1>7, <1>16, <2>2, <2>3, RequestsSound DEF IInv, Inv, ShieldsStay
<1>12. ForcePaid'
    <2>0. PICK w \in User : w = q.user
        BY <1>1 DEF Preparing
    <2>1. ASSUME NEW u \in User, u # w \/ q.mode # "normal"
          PROVE  Forced(u)' = Forced(u) /\ (u \in forceUsed' <=> u \in forceUsed)
        BY <1>2, <1>5, <1>6, <1>7, <2>0, <2>1 DEF Forced, Consume
    <2>2. ASSUME q.mode = "normal"
          PROVE  Forced(w)' = {n} /\ w \in forceUsed'
        <3>1. Forced(w) = {}
            BY <1>7, <2>0, <2>2 DEF Denied, IInv, Paid, ForcePaid
        <3> QED
            BY <1>2, <1>5, <1>6, <1>7, <2>0, <2>2, <3>1 DEF Forced, Consume
    <2> QED
        BY <1>6, <2>0, <2>1, <2>2 DEF IInv, Paid, ForcePaid
<1>13. ChargesBuyRows'
    <2>0. PICK w \in User : w = q.user
        BY <1>1 DEF Preparing
    <2> spent \in [User -> 0 .. MaxCharges]
        BY DEF IInv, Inv, TypeOK
    <2>1. ASSUME NEW u \in User PROVE IsFiniteSet(Charged(u)) /\ n \notin Charged(u)
        BY <1>4, <1>6, FS_Subset DEF Charged
    <2>2. ASSUME NEW u \in User, u # w \/ q.mode # "none"
          PROVE  Charged(u)' = Charged(u) /\ spent'[u] = spent[u]
        BY <1>2, <1>5, <1>6, <1>7, <2>0, <2>2 DEF Charged, Consume
    <2>3. ASSUME q.mode = "none"
          PROVE  Charged(w)' = Charged(w) \cup {n} /\ spent'[w] = spent[w] + 1
        BY <1>2, <1>5, <1>6, <1>7, <2>0, <2>3 DEF Charged, Consume
    <2>4. ASSUME NEW u \in User PROVE spent'[u] = Cardinality(Charged(u)')
        <3>1. spent[u] = Cardinality(Charged(u))
            BY DEF IInv, Paid, ChargesBuyRows
        <3>2. Cardinality(Charged(u) \cup {n}) = Cardinality(Charged(u)) + 1
            BY <2>1, FS_AddElement
        <3> QED
            BY <2>2, <2>3, <3>1, <3>2
    <2> QED
        BY <2>4 DEF ChargesBuyRows
<1>14. NoStrandedReservation'
    <2>1. req' = [req EXCEPT ![p] = [pc |-> "reconcile", handled |-> n]]
        BY DEF PrepareCreate, Become
    <2>2. req'[p].pc = "reconcile"
        BY <2>1 DEF IInv, Inv, TypeOK
    <2> QED
        BY <2>2 DEF NoStrandedReservation
<1> QED
    BY <1>8, <1>9, <1>10, <1>11, <1>12, <1>13, <1>14 DEF IInv, Inv, Paid

-----------------------------------------------------------------------------
(* The target comes *)

(* Reconciliation leaves no row that waits without knowing its target. *)
LEMMA Reconciliation ==
    ASSUME IInv, NEW handled, row' = Reconciled(handled), rolled' = "real",
           UNCHANGED <<prot, late, forceUsed, spent>>
    PROVE  /\ row' \in [Rows -> Row]
           /\ (\A j \in Rows : RowSound(row[j]))' /\ OneActive' /\ Paid'
           /\ NoStrandedReservation'
<1>0. row \in [Rows -> Row]
    BY RowsAreSequence DEF IInv, Inv
<1>1. DOMAIN row' = Rows /\ Rows' = Rows
    BY DEF Reconciled, Rows
<1>2. ASSUME NEW i \in Rows, row[i].st # "pending"
      PROVE  row'[i] = row[i]
    BY <1>2 DEF Reconciled
<1>3. ASSUME NEW i \in Rows, row[i].st = "pending"
      PROVE  /\ row'[i] \in Row /\ SameTerms(row[i], row'[i]) /\ row'[i].fire = row[i].fire
             /\ RowSound(row[i])' /\ row'[i].arrived
    <2> DEFINE r == Activated(row[i], i # handled)
               s == row'[i]
    <2>1. s = IF i = handled THEN [r EXCEPT !.notice = "none"] ELSE r
        BY <1>3 DEF Reconciled
    <2>2. Activates(row[i], r)
        <3>1. CASE i = handled
            <4>1. (i # handled) = FALSE
                BY <3>1
            <4> QED
                BY <4>1, Zenon DEF Activates
        <3>2. CASE i # handled
            <4>1. (i # handled) = TRUE
                BY <3>2
            <4> QED
                BY <4>1, Zenon DEF Activates
        <3> QED
            BY <3>1, <3>2
    <2>3. row[i] \in Row /\ RowSound(row[i])
        BY <1>0 DEF IInv, Inv
    <2> HIDE DEF r
    <2>4. /\ r \in Row /\ SameTerms(row[i], r) /\ r.mode = row[i].mode /\ r.fire = row[i].fire
          /\ r.need = row[i].need /\ r.arrived /\ (r.st = IF Enough(r) THEN "ready" ELSE "pending")
          /\ (Enough(r) => r.notice = "none")
        BY <1>3, <2>2, <2>3, Activation
    <2>5. /\ s \in Row /\ SameTerms(row[i], s) /\ s.mode = row[i].mode /\ s.fire = row[i].fire
          /\ s.need = row[i].need /\ s.arrived /\ (s.st = IF Enough(s) THEN "ready" ELSE "pending")
          /\ (Enough(s) => s.notice = "none")
        <3>1. CASE s = r
            BY <2>4, <3>1
        <3>2. CASE s = [r EXCEPT !.notice = "none"]
            <4> HIDE DEF s
            <4>1. Enough(s) <=> Enough(r)
                BY <2>4, <3>2 DEF Row, Enough, Fire
            <4> QED
                BY <2>4, <3>2, <4>1 DEF Row, SameTerms
        <3> QED
            BY <2>1, <3>1, <3>2
    <2> HIDE DEF s
    <2>6. (Enough(s) <=> Enough(row[i])') /\ s = row'[i]
        BY <1>3 DEF s, Enough, Fire
    <2>7. RowSound(row[i])'
        BY <1>3, <2>3, <2>5, <2>6 DEF RowSound, RowBehaves, SameTerms
    <2> QED
        BY <2>5, <2>6, <2>7
<1>4. row' \in [Rows -> Row]
    <2>1. \A i \in Rows : row'[i] \in Row
        BY <1>0, <1>2, <1>3
    <2>2. row' = [i \in Rows |-> row'[i]]
        BY DEF Reconciled
    <2> QED
        BY <2>1, <2>2
<1>5. ASSUME NEW i \in Rows PROVE RowSound(row[i])' /\ SameTerms(row[i], row'[i]) /\ row'[i].fire = row[i].fire
    <2>1. CASE row[i].st = "pending"
        BY <1>3, <2>1
    <2>2. CASE row[i].st # "pending"
        <3>1. row'[i] = row[i] /\ RowSound(row[i])
            BY <1>2, <2>2 DEF IInv, Inv
        <3> QED
            BY <2>2, <3>1 DEF RowSound, RowBehaves, SameTerms, Enough, Fire
    <2> QED
        BY <2>1, <2>2
<1>6. OneActive'
    <2>1. \A i \in Rows : row'[i].st # "closed" => row[i].st # "closed"
        BY <1>2
    <2> QED
        BY <1>4, <1>5, <2>1, StaysOneActive DEF IInv, Inv, SameTerms
<1>7. Paid'
    BY <1>4, <1>5, StaysPaid DEF IInv
<1>8. NoStrandedReservation'
    BY <1>1, <1>2, <1>3 DEF NoStrandedReservation
<1> QED
    BY <1>1, <1>4, <1>5, <1>6, <1>7, <1>8

LEMMA RollStep ==
    ASSUME IInv, NEW p \in Proc, Roll(p)
    PROVE  IInv'
<1> DEFINE q == [pc |-> "reconcile", handled |-> 0]
<1>1. q \in Request /\ req[p].pc = "idle"
    BY RequestKinds, ConstantAssumption DEF IInv, Inv, Roll, Idle
<1>2. NoStrandedReservation'
    <2>1. req'[p] = q
        BY DEF Roll, Become, IInv, Inv, TypeOK
    <2> QED
        BY <2>1 DEF NoStrandedReservation
<1>3. CASE rolled = "none"
    <2>1. /\ row' \in [Rows -> Row]
          /\ (\A j \in Rows : RowSound(row[j]))' /\ OneActive' /\ Paid'
        BY <1>3, Reconciliation DEF Roll
    <2> QED
        BY <1>1, <1>2, <1>3, <2>1, RowsAndRequest, GuardedUnchanged DEF Roll, Become, IInv, Inv, TypeOK
<1>4. CASE rolled # "none"
    <2>1. UNCHANGED <<row, rolled>>
        BY <1>4 DEF Roll, IInv, Inv, TypeOK
    <2>2. (\A j \in Rows : RowSound(row[j]))' /\ OneActive' /\ Paid' /\ row' \in [Rows -> Row]
        BY <2>1, RowsUnchanged, GuardedUnchanged, RowsAreSequence DEF Roll, IInv, Inv
    <2> QED
        BY <1>1, <1>2, <2>1, <2>2, RowsAndRequest, GuardedUnchanged DEF Roll, Become, IInv, Inv, TypeOK
<1> QED
    BY <1>3, <1>4

LEMMA ReconcileStep ==
    ASSUME IInv, NEW p \in Proc, Reconcile(p)
    PROVE  IInv'
<1>1. Idle \in Request /\ Idle.pc = "idle"
    BY RequestKinds DEF IInv, Inv, Idle
<1>2. CASE rolled = "real"
    <2>1. /\ row' \in [Rows -> Row]
          /\ (\A j \in Rows : RowSound(row[j]))' /\ OneActive' /\ Paid' /\ NoStrandedReservation'
        BY <1>2, Reconciliation DEF Reconcile
    <2> QED
        BY <1>1, <1>2, <2>1, RowsAndRequest, GuardedUnchanged DEF Reconcile, Become, IInv, Inv, TypeOK
<1>3. CASE rolled # "real"
    <2>1. UNCHANGED <<row, rolled>>
        BY <1>3 DEF Reconcile
    <2>2. (\A j \in Rows : RowSound(row[j]))' /\ OneActive' /\ Paid' /\ row' \in [Rows -> Row]
        BY <2>1, RowsUnchanged, GuardedUnchanged, RowsAreSequence DEF Reconcile, IInv, Inv
    <2>3. NoStrandedReservation'
        BY <1>3, <2>1 DEF NoStrandedReservation
    <2> QED
        BY <1>1, <2>1, <2>2, <2>3, RowsAndRequest, GuardedUnchanged DEF Reconcile, Become, IInv, Inv, TypeOK
<1> QED
    BY <1>2, <1>3

LEMMA MakeupStep ==
    ASSUME IInv, Makeup
    PROVE  IInv'
<1>1. rolled = "none" /\ rolled' = "makeup" /\ UNCHANGED <<row, prot, global, late, forceUsed, spent, req, crashed>>
    BY DEF Makeup
<1>2. TypeOK' /\ Rows' = Rows
    BY <1>1 DEF IInv, Inv, TypeOK, Rows
<1>3. (\A i \in Rows : RowSound(row[i]))'
    BY <1>1, <1>2 DEF IInv, Inv, RowSound, RowBehaves, Enough, Fire
<1>4. OneActive'
    BY <1>1, <1>2 DEF IInv, Inv, OneActive
<1>5. (\A x \in Proc : RequestSound(req[x]))'
    BY <1>1, <1>2, RequestsSound, GuardedUnchanged DEF IInv, Inv, Guarded
<1>6. Paid'
    <2>1. ASSUME NEW u \in User PROVE Forced(u)' = Forced(u) /\ Charged(u)' = Charged(u)
        BY <1>1, <1>2 DEF Forced, Charged
    <2> QED
        BY <1>1, <1>2, <2>1 DEF IInv, Paid, ForcePaid, ChargesBuyRows
<1>7. NoStrandedReservation'
    BY <1>1 DEF NoStrandedReservation
<1> QED
    BY <1>2, <1>3, <1>4, <1>5, <1>6, <1>7 DEF IInv, Inv

-----------------------------------------------------------------------------
(* Protection, settlement and notices *)

(* A step that changes rows and protection, but no request. *)
LEMMA NoRequest ==
    ASSUME IInv, UNCHANGED <<rolled, forceUsed, spent, req, crashed>>,
           row' \in [Rows -> Row], ProtectionTyped', ShieldsStay,
           (\A j \in Rows : RowSound(row[j]))', OneActive', Paid', Onward
    PROVE  IInv'
<1>1. TypeOK' /\ Rows' = Rows
    BY RowsTyped DEF IInv, Inv, TypeOK, Guarded, ProtectionTyped
<1>2. (\A x \in Proc : RequestSound(req[x]))'
    BY <1>1, RequestsSound DEF IInv, Inv
<1>3. NoStrandedReservation'
    BY StaysAware DEF IInv, Inv, TypeOK
<1> QED
    BY <1>1, <1>2, <1>3 DEF IInv, Inv

(* One row changes by an answer to its delivery or its notice. *)
LEMMA OneRowOnly ==
    ASSUME IInv, UNCHANGED <<prot, global, late, rolled, forceUsed, spent, req, crashed>>,
           NEW i \in Rows, NEW s \in Row, row' = [row EXCEPT ![i] = s],
           SameTerms(row[i], s), s.fire = row[i].fire, RowSound(s), row[i].st # "closed",
           row[i].arrived => s.arrived, s.st = "pending" => row[i].st = "pending"
    PROVE  IInv'
<1>1. row' \in [Rows -> Row] /\ (\A j \in Rows : RowSound(row[j]))' /\ OneActive'
    BY OneRow, GuardedUnchanged DEF IInv, Inv
<1>2. row \in [Rows -> Row]
    BY RowsAreSequence DEF IInv, Inv
<1>3. Paid'
    BY <1>1, <1>2, StaysPaid DEF IInv, SameTerms
<1>4. Onward
    BY <1>1, <1>2 DEF Onward, Rows
<1> QED
    BY <1>1, <1>3, <1>4, NoRequest, GuardedUnchanged DEF IInv, Inv, Guarded

LEMMA NoticeStep ==
    ASSUME IInv, NEW i \in Rows, TakeNotice(i) \/ ReturnNotice(i)
    PROVE  IInv'
<1>0. row[i] \in Row /\ RowSound(row[i])
    BY RowsAreSequence DEF IInv, Inv
<1>1. PICK n \in {"taken", "pending"} :
         /\ row' = [row EXCEPT ![i].notice = n] /\ row[i].st = "pending"
         /\ row[i].notice # "none" /\ UNCHANGED <<prot, global, late, rolled, forceUsed, spent, req, crashed>>
    BY DEF TakeNotice, ReturnNotice
<1> DEFINE s == [row[i] EXCEPT !.notice = n]
<1>2. /\ s \in Row /\ SameTerms(row[i], s) /\ s.fire = row[i].fire /\ RowSound(s)
      /\ s.arrived = row[i].arrived /\ s.st = row[i].st
    BY <1>0, <1>1 DEF Row, SameTerms, RowSound, RowBehaves, Enough, Fire
<1>3. row' = [row EXCEPT ![i] = s]
    BY <1>1
<1> HIDE DEF s
<1> QED
    BY <1>1, <1>2, <1>3, OneRowOnly

LEMMA CloseStep ==
    ASSUME IInv, NEW i \in Rows, Close(i)
    PROVE  IInv'
<1>0. row[i] \in Row /\ RowSound(row[i]) /\ row[i].st = "settled"
    BY RowsAreSequence DEF IInv, Inv, Close
<1> DEFINE s == [row[i] EXCEPT !.st = "closed"]
<1>2. /\ s \in Row /\ SameTerms(row[i], s) /\ s.fire = row[i].fire /\ RowSound(s)
      /\ s.arrived = row[i].arrived /\ s.st = "closed"
    BY <1>0 DEF Row, SameTerms, RowSound, RowBehaves, Enough, Fire
<1>3. row' = [row EXCEPT ![i] = s]
    BY DEF Close
<1> HIDE DEF s
<1> QED
    BY <1>0, <1>2, <1>3, OneRowOnly DEF Close

(* The row that breaks a protection is the only active one of its group: no  *)
(* row waits there for the level to rise.                                    *)
LEMMA SettleStep ==
    ASSUME IInv, NEW i \in Rows, NEW success \in BOOLEAN, Settle(i, success)
    PROVE  IInv'
<1> DEFINE g == row[i].group
           s == [row[i] EXCEPT !.st = "settled"]
<1>0. row[i] \in Row /\ RowSound(row[i]) /\ row[i].st = "ready" /\ g \in Group /\ row \in [Rows -> Row]
    BY RowsAreSequence DEF IInv, Inv, Settle, Row
<1>1. s \in Row /\ s.st = "settled" /\ \A f \in DOMAIN s \ {"st"} : s[f] = row[i][f]
    BY <1>0 DEF Row
<1>2. row' = [row EXCEPT ![i] = s] /\ UNCHANGED <<global, late, rolled, forceUsed, spent, req, crashed>>
    BY DEF Settle
<1>3. /\ SameTerms(row[i], s) /\ s.fire = row[i].fire /\ s.arrived = row[i].arrived
      /\ s.need = row[i].need /\ s.mode = row[i].mode /\ s.notice = row[i].notice
    BY <1>0 DEF Row, SameTerms
<1> HIDE DEF s
<1>4. row' \in [Rows -> Row] /\ Rows' = Rows /\ row'[i] = s /\ \A j \in Rows \ {i} : row'[j] = row[j]
    BY <1>0, <1>1, <1>2 DEF Rows
<1>5. /\ prot' \in [Group -> Level \cup {NoProt}] /\ \A h \in Group \ {g} : prot'[h] = prot[h]
      /\ Holders(g) # {} => prot' = prot
    <2>1. prot \in [Group -> Level \cup {NoProt}]
        BY DEF IInv, Inv, TypeOK
    <2>2. prot' = prot \/ (/\ prot' = [prot EXCEPT ![g] = @ + 1] /\ prot[g] < LevelCap
                           /\ prot[g] # NoProt /\ row[i].need > 0)
        BY <2>1 DEF Settle
    <2>3. CASE prot' = prot
        BY <2>1, <2>3
    <2>4. CASE /\ prot' = [prot EXCEPT ![g] = @ + 1] /\ prot[g] < LevelCap
               /\ prot[g] # NoProt /\ row[i].need > 0
        <3>1. prot[g] + 1 \in Level
            BY <1>0, <2>1, <2>4, ConstantAssumption DEF Level
        <3>2. Holders(g) = {}
            BY <2>4 DEF Settle, MayLock
        <3> QED
            BY <1>0, <2>1, <2>4, <3>1, <3>2
    <2> QED
        BY <2>2, <2>3, <2>4
<1>6. ShieldsStay /\ ProtectionTyped'
    <2>1. ASSUME NEW h \in Group, NEW x \in Proc, req[x].pc = "creating", req[x].group = h
          PROVE  Shield(h)' = Shield(h)
        <3>1. h = g => x \in Holders(g)
            BY <2>1 DEF Holders
        <3> QED
            BY <1>2, <1>5, <3>1 DEF Shield
    <2> QED
        BY <1>2, <1>5, <2>1 DEF ShieldsStay, ProtectionTyped, IInv, Inv, TypeOK
<1>7. ASSUME NEW j \in Rows PROVE RowSound(row[j])'
    <2>1. CASE j = i
        BY <1>0, <1>1, <1>2, <1>3, <1>4, <2>1 DEF RowSound, RowBehaves, Enough, Fire, SameTerms
    <2>2. CASE j # i
        <3>1. row'[j] = row[j] /\ RowSound(row[j]) /\ row[j] \in Row
            BY <1>0, <1>4, <2>2 DEF IInv, Inv
        <3>2. row[j].st = "pending" => row[j].group # g
            BY <1>0, <2>2 DEF IInv, Inv, OneActive
        <3>3. row[j].st = "pending" => Want(prot', late', row[j].group) = Want(prot, late, row[j].group)
            BY <1>2, <1>5, <3>1, <3>2 DEF Row, Want
        <3> QED
            BY <1>2, <3>1, <3>3 DEF RowSound, RowBehaves, Enough, Fire
    <2> QED
        BY <2>1, <2>2
<1>8. OneActive' /\ Paid' /\ Onward
    <2>1. \A j \in Rows : /\ SameTerms(row[j], row'[j]) /\ row'[j].fire = row[j].fire
                          /\ row[j].arrived => row'[j].arrived
                          /\ row'[j].st # "closed" => row[j].st # "closed"
                          /\ row'[j].st = "pending" => row[j].st = "pending"
        BY <1>0, <1>1, <1>3, <1>4 DEF SameTerms
    <2> QED
        BY <1>2, <1>4, <2>1, StaysOneActive, StaysPaid DEF SameTerms, Onward, IInv, Inv
<1> QED
    BY <1>2, <1>4, <1>5, <1>6, <1>7, <1>8, NoRequest

(* A row that waits follows the protection: it asks for the fire of the new  *)
(* level and fires if it has it.  Only the owner's own force use, consumed   *)
(* when the row was created, can now count double.                           *)
LEMMA Syncing ==
    ASSUME NEW r \in Row, RowSound(r), r.st = "pending", r.mode # "super",
           NEW l \in Level \cup {NoProt}, NEW s, s = Synced(r, l)
    PROVE  /\ s \in Row /\ SameTerms(r, s) /\ s.mode = r.mode /\ s.need = NeedFor(l)
           /\ s.arrived = r.arrived /\ s.st = IF r.arrived /\ Enough(s) THEN "ready" ELSE "pending"
           /\ s.notice # "none" => s.st = "pending" /\ s.arrived
           /\ \A u \in User : /\ s.fire[u] = 2 => r.fire[u] = 2 \/ (r.owner = u /\ r.cost = "normal")
                              /\ r.fire[u] = 2 => s.fire[u] = 2
<1> DEFINE fold == IF l # NoProt /\ r.need = 0 /\ r.mode = "normal"
                   THEN [r EXCEPT !.fire[r.owner] = 2] ELSE r
           asked == [fold EXCEPT !.need = NeedFor(l)]
           met == IF r.arrived THEN Activated(asked, TRUE) ELSE asked
<1>1. NeedFor(l) \in 0 .. LevelCap + 1
    BY ConstantAssumption DEF NeedFor, Level
<1>2. /\ fold \in Row /\ \A f \in DOMAIN fold \ {"fire"} : fold[f] = r[f]
      /\ \A u \in User : /\ fold.fire[u] = 2 => r.fire[u] = 2 \/ (r.owner = u /\ r.cost = "normal")
                         /\ r.fire[u] = 2 => fold.fire[u] = 2
    <2>1. CASE fold = r
        BY <2>1
    <2>2. CASE /\ l # NoProt /\ r.need = 0 /\ r.mode = "normal"
               /\ fold = [r EXCEPT !.fire[r.owner] = 2]
        <3> DEFINE f == [r.fire EXCEPT ![r.owner] = 2]
        <3>1. r.fire \in [User -> 0 .. 2] /\ r.owner \in User /\ r.cost = "normal"
            BY <2>2 DEF Row, RowSound, RowBehaves
        <3>2. /\ f \in [User -> 0 .. 2]
              /\ \A u \in User : /\ f[u] = 2 => r.fire[u] = 2 \/ r.owner = u
                                 /\ r.fire[u] = 2 => f[u] = 2
            BY <3>1
        <3>3. fold = [r EXCEPT !.fire = f]
            BY <2>2
        <3> HIDE DEF fold, f
        <3> QED
            BY <3>1, <3>2, <3>3 DEF Row
    <2> QED
        BY <2>1, <2>2
<1>3. fold.mode = r.mode /\ fold.arrived = r.arrived /\ fold.st = "pending" /\ fold.notice = r.notice
      /\ SameTerms(r, fold)
    BY <1>2 DEF Row, SameTerms
<1> HIDE DEF fold
<1>4. /\ asked \in Row /\ SameTerms(r, asked) /\ asked.mode = r.mode /\ asked.need = NeedFor(l)
      /\ asked.arrived = r.arrived /\ asked.st = "pending" /\ asked.fire = fold.fire
      /\ asked.notice = r.notice
    BY <1>1, <1>2, <1>3 DEF Row, SameTerms
<1>5. s = IF met.arrived /\ met.st = "pending" /\ met.need # r.need
          THEN [met EXCEPT !.notice = "pending"] ELSE met
    BY <1>3, <1>4 DEF Synced, fold
<1> HIDE DEF asked
<1>6. /\ met \in Row /\ SameTerms(r, met) /\ met.mode = r.mode /\ met.need = NeedFor(l)
      /\ met.arrived = r.arrived /\ met.st = (IF r.arrived /\ Enough(met) THEN "ready" ELSE "pending")
      /\ met.fire = fold.fire /\ (met.notice # "none" => met.st = "pending" /\ met.arrived)
    <2>1. CASE r.arrived
        <3>1. Activates(asked, met)
            BY <2>1 DEF Activates
        <3> HIDE DEF met
        <3>2. /\ met \in Row /\ SameTerms(asked, met) /\ met.mode = asked.mode
              /\ met.fire = asked.fire /\ met.need = asked.need /\ met.arrived
              /\ met.st = (IF Enough(met) THEN "ready" ELSE "pending")
              /\ (Enough(met) => met.notice = "none")
            BY <1>4, <3>1, Activation
        <3> QED
            BY <1>4, <2>1, <3>2 DEF SameTerms, Row
    <2>2. CASE ~r.arrived
        <3>1. met = asked /\ r.notice = "none"
            BY <2>2 DEF RowSound, RowBehaves, Row
        <3> QED
            BY <1>4, <2>2, <3>1
    <2> QED
        BY <2>1, <2>2
<1> HIDE DEF met
<1>7. CASE s = met
    BY <1>2, <1>6, <1>7
<1>8. CASE met.arrived /\ met.st = "pending" /\ s = [met EXCEPT !.notice = "pending"]
    <2>1. /\ s \in Row /\ SameTerms(met, s) /\ s.mode = met.mode /\ s.need = met.need
          /\ s.arrived = met.arrived /\ s.st = met.st /\ s.fire = met.fire
        BY <1>6, <1>8 DEF Row, SameTerms
    <2>2. Enough(s) <=> Enough(met)
        BY <2>1 DEF Enough, Fire
    <2>3. s.st = IF r.arrived /\ Enough(s) THEN "ready" ELSE "pending"
        BY <1>6, <2>1, <2>2
    <2>4. SameTerms(r, s) /\ s.mode = r.mode /\ s.need = NeedFor(l) /\ s.arrived = r.arrived
        BY <1>6, <2>1 DEF SameTerms
    <2>5. s.st = "pending" /\ s.arrived
        BY <1>8, <2>1
    <2>6. s.fire = fold.fire
        BY <1>6, <2>1
    <2>7. \A u \in User : /\ s.fire[u] = 2 => r.fire[u] = 2 \/ (r.owner = u /\ r.cost = "normal")
                          /\ r.fire[u] = 2 => s.fire[u] = 2
        BY <1>2, <2>6
    <2> QED
        BY <2>1, <2>3, <2>4, <2>5, <2>7
<1> QED
    BY <1>5, <1>7, <1>8

LEMMA SetProtectionStep ==
    ASSUME IInv, NEW g \in Group, NEW l \in Level \cup {NoProt}, SetProtection(g, l)
    PROVE  IInv'
<1> DEFINE follows(i) == row[i].group = g /\ row[i].st = "pending" /\ row[i].mode # "super"
<1>0. row \in [Rows -> Row] /\ prot \in [Group -> Level \cup {NoProt}]
    BY RowsAreSequence DEF IInv, Inv, TypeOK
<1>1. /\ prot' = [prot EXCEPT ![g] = l] /\ Holders(g) = {}
      /\ row' = [i \in Rows |-> IF follows(i) THEN Synced(row[i], l) ELSE row[i]]
      /\ late' = late \ {g} /\ UNCHANGED <<global, rolled, forceUsed, spent, req, crashed>>
    BY DEF SetProtection
<1>2. Rows' = Rows /\ ProtectionTyped'
    BY <1>0, <1>1 DEF Rows, ProtectionTyped, IInv, Inv, TypeOK
<1>3. ASSUME NEW i \in Rows, ~follows(i)
      PROVE  row'[i] = row[i] /\ RowSound(row[i])'
    <2>1. row'[i] = row[i] /\ RowSound(row[i]) /\ row[i].group \in Group
        BY <1>0, <1>1, <1>3 DEF IInv, Inv, Row
    <2>2. row[i].st = "pending" /\ row[i].mode # "super"
             => Want(prot', late', row[i].group) = Want(prot, late, row[i].group)
        BY <1>0, <1>1, <1>3, <2>1 DEF Want
    <2> QED
        BY <1>1, <2>1, <2>2 DEF RowSound, RowBehaves, Enough, Fire
<1>4. ASSUME NEW i \in Rows, follows(i)
      PROVE  /\ row'[i] \in Row /\ SameTerms(row[i], row'[i]) /\ RowSound(row[i])'
             /\ row'[i].arrived = row[i].arrived
             /\ \A u \in User : /\ row'[i].fire[u] = 2 => \/ row[i].fire[u] = 2
                                                          \/ row[i].owner = u /\ row[i].cost = "normal"
                                /\ row[i].fire[u] = 2 => row'[i].fire[u] = 2
    <2>1. row'[i] = Synced(row[i], l) /\ row[i] \in Row /\ RowSound(row[i])
        BY <1>0, <1>1, <1>4 DEF IInv, Inv
    <2> DEFINE r == row[i]
               s == row'[i]
    <2>2. r \in Row /\ RowSound(r) /\ r.st = "pending" /\ r.mode # "super" /\ s = Synced(r, l)
        BY <1>4, <2>1
    <2> HIDE DEF s, r
    <2>3. /\ s \in Row /\ SameTerms(r, s) /\ s.mode = r.mode /\ s.need = NeedFor(l)
          /\ s.arrived = r.arrived /\ s.st = (IF r.arrived /\ Enough(s) THEN "ready" ELSE "pending")
          /\ (s.notice # "none" => s.st = "pending" /\ s.arrived)
          /\ \A u \in User : /\ s.fire[u] = 2 => r.fire[u] = 2 \/ (r.owner = u /\ r.cost = "normal")
                             /\ r.fire[u] = 2 => s.fire[u] = 2
        BY <2>2, Syncing
    <2>4. RowSound(row[i])'
        <3>1. s.group = g /\ prot'[g] = l /\ s.mode \in {s.cost, "super"}
            BY <1>0, <1>1, <1>4, <2>2, <2>3 DEF SameTerms, RowSound, RowBehaves, r
        <3>2. (Enough(row[i])' <=> Enough(s)) /\ Want(prot', late', g) = NeedFor(l) /\ s = row'[i]
            BY <1>1, <3>1 DEF Enough, Fire, Want, s
        <3> QED
            BY <1>1, <2>2, <2>3, <3>1, <3>2 DEF RowSound, RowBehaves
    <2> QED
        BY <2>3, <2>4 DEF r, s
<1>5. row' \in [Rows -> Row]
    <2>1. \A i \in Rows : row'[i] \in Row
        BY <1>0, <1>3, <1>4
    <2> QED
        BY <1>1, <2>1
<1>6. \A i \in Rows : /\ RowSound(row[i])' /\ SameTerms(row[i], row'[i])
                      /\ row[i].arrived => row'[i].arrived
                      /\ row'[i].st # "closed" => row[i].st # "closed"
                      /\ row'[i].st = "pending" => row[i].st = "pending"
                      /\ \A u \in User : /\ row'[i].fire[u] = 2
                                             => \/ row[i].fire[u] = 2
                                                \/ row[i].owner = u /\ row[i].cost = "normal"
                                         /\ row[i].fire[u] = 2 => row'[i].fire[u] = 2
    BY <1>3, <1>4 DEF SameTerms
<1>7. OneActive' /\ Paid' /\ Onward
    BY <1>1, <1>2, <1>5, <1>6, StaysOneActive, StaysPaid DEF SameTerms, Onward, IInv, Inv
<1>8. ShieldsStay
    <2>1. ASSUME NEW h \in Group, NEW x \in Proc, req[x].pc = "creating", req[x].group = h
          PROVE  Shield(h)' = Shield(h)
        <3>1. h # g
            BY <1>1, <2>1 DEF Holders
        <3> QED
            BY <1>0, <1>1, <3>1 DEF Shield
    <2> QED
        BY <2>1 DEF ShieldsStay
<1> QED
    BY <1>1, <1>2, <1>5, <1>6, <1>7, <1>8, NoRequest

(* While a request creates a row under the protection of __all__, its lock   *)
(* keeps the row of __all__ as it is; and no row that waits follows it.      *)
LEMMA SetGlobalStep ==
    ASSUME IInv, NEW l \in Everywhere, SetGlobal(l)
    PROVE  IInv'
<1>1. GlobalHolders = {} /\ global' = l
      /\ UNCHANGED <<row, prot, late, rolled, forceUsed, spent, req, crashed>>
    BY DEF SetGlobal
<1>2. ShieldsStay
    <2>1. ASSUME NEW h \in Group, NEW x \in Proc, req[x].pc = "creating", req[x].group = h
          PROVE  Shield(h)' = Shield(h)
        <3>1. x \in Holders(h)
            BY <2>1 DEF Holders
        <3>2. prot[h] # NoProt
            BY <1>1, <3>1 DEF GlobalHolders
        <3> QED
            BY <1>1, <3>2 DEF Shield
    <2> QED
        BY <2>1 DEF ShieldsStay
<1>3. Guarded
    BY <1>1, <1>2 DEF Guarded, NeedsStay, ProtectionTyped, IInv, Inv, TypeOK
<1>4. (\A i \in Rows : RowSound(row[i]))' /\ OneActive' /\ Paid'
    BY <1>1, <1>3, RowsUnchanged
<1>5. row' \in [Rows -> Row] /\ Onward
    BY <1>1, RowsAreSequence DEF IInv, Inv, Onward, Rows
<1> QED
    BY <1>1, <1>2, <1>3, <1>4, <1>5, NoRequest DEF Guarded

LEMMA DeniedAndAbort ==
    ASSUME IInv, NEW p \in Proc, PrepareDenied(p) \/ Abort(p)
    PROVE  IInv'
<1>1. Become(p, Idle) /\ UNCHANGED <<row, rolled, forceUsed, spent>>
    BY DEF PrepareDenied, Abort
<1>3. Guarded
    <2>1. CASE PrepareDenied(p)
        <3>1. req[p].group \in Group /\ (req[p].ver > 0) \in BOOLEAN
            BY <2>1, RequestKinds DEF PrepareDenied, Preparing, IInv, Inv
        <3>2. CopyGlobal(req[p].group, req[p].ver > 0) /\ UNCHANGED global /\ TypeOK
            BY <2>1 DEF PrepareDenied, IInv, Inv
        <3> QED
            BY <3>1, <3>2, GuardedCopy
    <2>2. CASE Abort(p)
        BY <2>2, GuardedUnchanged DEF Abort, IInv, Inv
    <2> QED
        BY <2>1, <2>2
<1>2. crashed' \in BOOLEAN /\ crashed' = (crashed \/ req[p].pc = "reconcile")
    <2>1. crashed \in BOOLEAN
        BY DEF IInv, Inv, TypeOK
    <2>2. CASE PrepareDenied(p)
        BY <2>1, <2>2 DEF PrepareDenied
    <2>3. CASE Abort(p)
        BY <2>1, <2>3 DEF Abort
    <2> QED
        BY <2>2, <2>3
<1> QED
    BY <1>1, <1>2, <1>3, IdleStep

-----------------------------------------------------------------------------
(* The invariant *)

LEMMA InitInv ==
    ASSUME Init
    PROVE  IInv
<1>1. Rows = {} /\ rolled = "none"
    BY DEF Init, Rows
<1>2. TypeOK
    <2>1. row \in [1 .. 0 -> Row] /\ 0 \in 0 .. MaxRows
        BY ConstantAssumption DEF Init
    <2>2. /\ prot \in [Group -> Level \cup {NoProt}] /\ global \in Everywhere \cup {NoProt}
          /\ late \subseteq Group
        BY ConstantAssumption DEF Init, Level
    <2>3. rolled \in {"none", "real", "makeup"} /\ forceUsed \in SUBSET User /\ crashed \in BOOLEAN
        BY DEF Init
    <2>4. spent \in [User -> 0 .. MaxCharges]
        BY ConstantAssumption DEF Init
    <2>5. req \in [Proc -> Request]
        <3>1. Idle \in Request
            BY DEF Request
        <3> QED
            BY <3>1 DEF Init
    <2> QED
        BY <2>1, <2>2, <2>3, <2>4, <2>5 DEF TypeOK
<1>3. \A p \in Proc : RequestSound(req[p])
    BY DEF Init, RequestSound, Idle
<1>4. Paid
    <2>1. \A u \in User : Forced(u) = {} /\ Charged(u) = {}
        BY <1>1 DEF Forced, Charged
    <2>2. Cardinality({}) = 0
        BY FS_EmptySet
    <2>3. forceUsed = {} /\ \A u \in User : spent[u] = 0
        BY DEF Init
    <2> QED
        BY <2>1, <2>2, <2>3 DEF Paid, ForcePaid, ChargesBuyRows
<1> QED
    BY <1>1, <1>2, <1>3, <1>4 DEF IInv, Inv, OneActive, NoStrandedReservation

LEMMA NextInv ==
    ASSUME IInv, [Next]_vars
    PROVE  IInv'
<1>1. CASE UNCHANGED vars
    <2>1. UNCHANGED <<row, rolled, forceUsed, spent, req, crashed>> /\ Guarded
        BY <1>1, GuardedUnchanged DEF vars, IInv, Inv
    <2>2. (\A i \in Rows : RowSound(row[i]))' /\ OneActive' /\ Paid'
        BY <2>1, RowsUnchanged
    <2>3. row' \in [Rows -> Row] /\ Onward
        BY <2>1, RowsAreSequence DEF IInv, Inv, Onward, Rows
    <2> QED
        BY <2>1, <2>2, <2>3, NoRequest DEF Guarded
<1>2. ASSUME NEW p \in Proc, ProcStep(p)
      PROVE  IInv'
    BY <1>2, PrepareBeginStep, PrepareAgainStep, PrepareRunStep, PrepareCreateStep, PrepareConflictStep,
       DeniedAndAbort, JoinBeginStep, JoinRunStep, RollStep, ReconcileStep DEF ProcStep
<1>3. ASSUME NEW i \in Rows, RowStep(i)
      PROVE  IInv'
    BY <1>3, SettleStep, CloseStep, NoticeStep DEF RowStep
<1>4. ASSUME NEW g \in Group, NEW l \in Level \cup {NoProt}, SetProtection(g, l)
      PROVE  IInv'
    BY <1>4, SetProtectionStep
<1>5. CASE Makeup
    BY <1>5, MakeupStep
<1>6. ASSUME NEW l \in Everywhere, SetGlobal(l)
      PROVE  IInv'
    BY <1>6, SetGlobalStep
<1> QED
    BY <1>1, <1>2, <1>3, <1>4, <1>5, <1>6 DEF Next

(* The inductive invariant, of every reachable state. *)
THEOREM InvariantHolds == Spec => []IInv
BY InitInv, NextInv, PTL DEF Spec

-----------------------------------------------------------------------------
(* The properties *)

(* A reservation fires when its conditions are met, and only then: no makeup, *)
(* stale snapshot of the roll or race of joins, takeovers and changes of      *)
(* protection fires it early or leaves it waiting.                            *)
THEOREM FiresWithItsFireHolds == Spec => []FiresWithItsFire
<1>1. IInv => FiresWithItsFire
    BY DEF IInv, Inv, RowSound, RowBehaves, FiresWithItsFire, FiresOnlyWithFire, WaitsOnlyForFire
<1> QED
    BY <1>1, InvariantHolds, PTL

(* While no process died before its reconciliation, every row that still     *)
(* waits once all requests have reconciled knows that its target has come.   *)
THEOREM NoStrandedReservationHolds == Spec => []NoStrandedReservation
<1>1. IInv => NoStrandedReservation
    BY DEF IInv
<1> QED
    BY <1>1, InvariantHolds, PTL

(* The fire a waiting row needs is that of the protection row of its group,  *)
(* in every interleaving of /prepare, grants, removals, settlements and      *)
(* changes of __all__, unless the row was copied from __all__ while the      *)
(* reservation waited.                                                       *)
THEOREM NeedTracksProtectionHolds == Spec => []NeedTracksProtection
<1>1. IInv => NeedTracksProtection
    BY DEF IInv, Inv, RowSound, Want, NeedFor, NeedTracksProtection
<1> QED
    BY <1>1, InvariantHolds, PTL

(* Notices are about rows that wait for fire alone; the state has its types. *)
THEOREM NoticeMeansWaitingHolds == Spec => []NoticeMeansWaiting
<1>1. IInv => NoticeMeansWaiting
    BY DEF IInv, Inv, RowSound, RowBehaves, NoticeMeansWaiting
<1> QED
    BY <1>1, InvariantHolds, PTL

(* What users pay and what they get agree: one boosted row for a consumed    *)
(* force use and none without, one created row for each charge spent.        *)
THEOREM UsesBuyRowsHolds == Spec => []UsesBuyRows
<1>1. IInv => UsesBuyRows
    <2> SUFFICES ASSUME IInv PROVE BoostPaidOnce
        BY DEF IInv, Paid, UsesBuyRows
    <2>1. ASSUME NEW u \in User, u \in forceUsed PROVE Cardinality(Forced(u)) = 1
        <3>1. PICK i \in Rows : Forced(u) = {i}
            BY <2>1 DEF IInv, Paid, ForcePaid
        <3> QED
            BY <3>1, FS_Singleton
    <2>2. ASSUME NEW u \in User, u \notin forceUsed PROVE Cardinality(Forced(u)) = 0
        BY <2>2, FS_EmptySet DEF IInv, Paid, ForcePaid
    <2> QED
        BY <2>1, <2>2 DEF BoostPaidOnce
<1> QED
    BY <1>1, InvariantHolds, PTL
=============================================================================
