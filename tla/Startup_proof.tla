---------------------------- MODULE Startup_proof ----------------------------
(***************************************************************************)
(* Proofs about Startup, for any number of instances, columns, crashes and *)
(* reservations.                                                           *)
(*                                                                         *)
(* What an instance past a step relies on stays so: nothing undoes what    *)
(* the step did, and whoever changes the constraint or the table holds the *)
(* lock while it acts on what it saw.                                      *)
(***************************************************************************)
EXTENDS Startup, TLAPS

(* The steps at which something has been done. *)
AfterCreate    == Steps \ {"down", "create"}
AfterUsage     == AfterCreate \ {"usage", "charge"}
AfterAmbiguous == AfterUsage \ {"ambiguous"}
AfterColumns   == AfterAmbiguous \ {"columns"}
AfterSlots     == AfterColumns \ {"slots"}
AfterKeys      == {"release", "backfill", "serving"}

(* What the steps behind instance i have established, or what it saw. *)
Done(i) ==
    /\ pc[i] \in AfterCreate \/ (pc[i] = "create" /\ saw[i].table) => present
    /\ pc[i] = "charge" => saw[i].null \/ charges # "null"
    /\ pc[i] \in AfterUsage => charges # "null"
    /\ pc[i] \in AfterAmbiguous => sure
    /\ pc[i] = "columns" => Column \ saw[i].missing \subseteq cols
    /\ pc[i] \in AfterColumns => cols = Column
    /\ pc[i] \in AfterSlots => freed
    /\ pc[i] \in AfterKeys => keys = {"new"}
    /\ pc[i] = "serving" => active = "true"

(* Who exchanges the constraint holds the lock, and what it saw is current. *)
Exchanging(i) ==
    /\ pc[i] \in {"locked", "add", "drop", "release"} => lock = i /\ db = "mysql"
    /\ pc[i] = "copied" => lock = i /\ db = "sqlite" /\ saw[i].rows = rows
    /\ pc[i] = "drop" => "new" \in keys

(* The invariant: the properties, and what they rest on for each instance. *)
Inv ==
    /\ TypeOK
    /\ AlwaysUnique
    /\ rows = written
    /\ \A i \in Instance : Done(i) /\ Exchanging(i)

-----------------------------------------------------------------------------
(* The initial states satisfy the invariant: no instance has done anything. *)
LEMMA InitInv == Init => Inv
<1> SUFFICES ASSUME Init PROVE Inv
    OBVIOUS
<1>1. cols \subseteq Column /\ keys \subseteq {"old", "new"}
    <2>1. CASE present
        BY <2>1 DEF Init
    <2>2. CASE ~present
        BY <2>2 DEF Init
    <2> QED
        BY <2>1, <2>2
<1>2. /\ freed \in BOOLEAN /\ sure \in BOOLEAN /\ charges \in {"null", "full", "spent"}
      /\ active \in {"none", "late", "true"}
    <2>1. CASE present
        BY <2>1 DEF Init
    <2>2. CASE ~present
        BY <2>2 DEF Init
    <2> QED
        BY <2>1, <2>2
<1>3. /\ db \in {"mysql", "sqlite"} /\ present \in BOOLEAN /\ rows = 0 /\ written = 0
      /\ lock = Nobody /\ crashes = 0
      /\ pc = [i \in Instance |-> "down"] /\ saw = [i \in Instance |-> Nothing]
    BY DEF Init
<1>4. TypeOK
    BY <1>1, <1>2, <1>3, StartupAssumption DEF TypeOK, Steps, Nothing
<1>5. AlwaysUnique
    BY DEF Init, AlwaysUnique
<1>6. ASSUME NEW i \in Instance PROVE Done(i) /\ Exchanging(i)
    BY <1>3 DEF Done, Exchanging, AfterCreate, AfterUsage, AfterAmbiguous, AfterColumns,
                AfterSlots, AfterKeys
<1> QED
    BY <1>3, <1>4, <1>5, <1>6 DEF Inv

(* Every step keeps the types. *)
LEMMA NextType == TypeOK /\ [Next]_vars => TypeOK'
<1> SUFFICES ASSUME TypeOK, [Next]_vars PROVE TypeOK'
    OBVIOUS
<1> USE StartupAssumption DEF TypeOK, Goto, Move, schema, data, Steps
<1>1. ASSUME NEW i \in Instance, Boot(i) PROVE TypeOK'
    BY <1>1 DEF Boot, Nothing
<1>2. ASSUME NEW i \in Instance, CreateAll(i) PROVE TypeOK'
    BY <1>2 DEF CreateAll
<1>3. ASSUME NEW i \in Instance, UsageRead(i) PROVE TypeOK'
    <2>1. /\ UNCHANGED <<db, schema, data, lock, crashes>>
          /\ pc' = [pc EXCEPT ![i] = "charge"]
        BY <1>3 DEF UsageRead
    <2>2. \E b \in BOOLEAN : saw' = [saw EXCEPT ![i].null = b]
        BY <1>3 DEF UsageRead
    <2> QED
        BY <2>1, <2>2
<1>4. ASSUME NEW i \in Instance, UsageWrite(i) PROVE TypeOK'
    BY <1>4 DEF UsageWrite
<1>5. ASSUME NEW i \in Instance, Ambiguous(i) PROVE TypeOK'
    BY <1>5 DEF Ambiguous
<1>6. ASSUME NEW i \in Instance, NEW c \in Column, ColumnThere(i, c) \/ AddColumn(i, c)
      PROVE  TypeOK'
    BY <1>6 DEF ColumnThere, AddColumn
<1>7. ASSUME NEW i \in Instance, ColumnsDone(i) \/ FreeSlots(i) \/ ReadKeys(i) PROVE TypeOK'
    BY <1>7 DEF ColumnsDone, FreeSlots, ReadKeys
<1>8. ASSUME NEW i \in Instance, BeginImmediate(i) \/ Rename(i) PROVE TypeOK'
    BY <1>8 DEF BeginImmediate, Rename
<1>9. ASSUME NEW i \in Instance, GetLock(i) \/ Locked(i) \/ AddKey(i) \/ DropKey(i) \/ Release(i)
      PROVE  TypeOK'
    BY <1>9 DEF GetLock, Locked, Plan, AddKey, DropKey, Release
<1>10. ASSUME NEW i \in Instance, Backfill(i) \/ Timeout(i) PROVE TypeOK'
    BY <1>10 DEF Backfill, Timeout
<1>11. ASSUME NEW i \in Instance, Crash(i) PROVE TypeOK'
    <2>1. crashes' \in 0 .. MaxCrashes
        BY <1>11 DEF Crash
    <2> QED
        BY <1>11, <2>1 DEF Crash
<1>12. CASE Write
    BY <1>12 DEF Write
<1>13. CASE Spend \/ Mark
    BY <1>13 DEF Spend, Mark
<1>14. CASE UNCHANGED vars
    BY <1>14 DEF vars
<1> QED
    BY <1>1, <1>2, <1>3, <1>4, <1>5, <1>6, <1>7, <1>8, <1>9, <1>10, <1>11, <1>12, <1>13, <1>14
       DEF Next, Start

-----------------------------------------------------------------------------
(* Where the old constraint is gone, the new one is there. *)
LEMMA OnlyTheNew ==
    ASSUME keys \subseteq {"old", "new"}, keys # {}, "old" \notin keys
    PROVE  keys = {"new"}
<1>1. \A k \in keys : k = "new"
    OBVIOUS
<1>2. PICK k \in keys : TRUE
    OBVIOUS
<1> QED
    BY <1>1, <1>2

(* Every step of an instance keeps what it and the others rely on. *)
LEMMA NextInv == Inv /\ [Next]_vars => Inv'
<1> SUFFICES ASSUME Inv, [Next]_vars PROVE Inv'
    OBVIOUS
<1>0. TypeOK'
    BY NextType DEF Inv
<1> DEFINE Kept == /\ AlwaysUnique' /\ (rows = written)'
                   /\ \A j \in Instance : Done(j)' /\ Exchanging(j)'
<1> USE <1>0, StartupAssumption
    DEF Inv, TypeOK, AlwaysUnique, Done, Exchanging, Goto, Move, schema, data, Steps,
        AfterCreate, AfterUsage, AfterAmbiguous, AfterColumns, AfterSlots, AfterKeys
<1>1. ASSUME NEW i \in Instance, Boot(i) PROVE Kept
    BY <1>1 DEF Boot, Nothing
<1>2. ASSUME NEW i \in Instance, CreateAll(i) PROVE Kept
    BY <1>2 DEF CreateAll
<1>3. ASSUME NEW i \in Instance, UsageRead(i) PROVE Kept
    BY <1>3 DEF UsageRead
<1>4. ASSUME NEW i \in Instance, UsageWrite(i) PROVE Kept
    BY <1>4 DEF UsageWrite
<1>5. ASSUME NEW i \in Instance, Ambiguous(i) PROVE Kept
    BY <1>5 DEF Ambiguous
<1>6. ASSUME NEW i \in Instance, NEW c \in Column, ColumnThere(i, c) PROVE Kept
    BY <1>6 DEF ColumnThere
<1>7. ASSUME NEW i \in Instance, NEW c \in Column, AddColumn(i, c) PROVE Kept
    BY <1>7 DEF AddColumn
<1>8. ASSUME NEW i \in Instance, ColumnsDone(i) PROVE Kept
    BY <1>8 DEF ColumnsDone
<1>9. ASSUME NEW i \in Instance, FreeSlots(i) PROVE Kept
    BY <1>9 DEF FreeSlots
<1>10. ASSUME NEW i \in Instance, ReadKeys(i) PROVE Kept
    <2>1. "old" \notin keys => keys = {"new"}
        BY <1>10, OnlyTheNew DEF ReadKeys
    <2> QED
        BY <1>10, <2>1 DEF ReadKeys
<1>11. ASSUME NEW i \in Instance, BeginImmediate(i) PROVE Kept
    BY <1>11 DEF BeginImmediate
<1>12. ASSUME NEW i \in Instance, Rename(i) PROVE Kept
    BY <1>12 DEF Rename
<1>13. ASSUME NEW i \in Instance, GetLock(i) PROVE Kept
    BY <1>13 DEF GetLock
<1>14. ASSUME NEW i \in Instance, Locked(i) PROVE Kept
    <2>1. "old" \notin keys => keys = {"new"}
        BY <1>14, OnlyTheNew DEF Locked
    <2> QED
        BY <1>14, <2>1 DEF Locked, Plan
<1>15. ASSUME NEW i \in Instance, AddKey(i) PROVE Kept
    BY <1>15 DEF AddKey
<1>16. ASSUME NEW i \in Instance, DropKey(i) PROVE Kept
    <2>1. keys' = {"new"}
        BY <1>16 DEF DropKey
    <2> QED
        BY <1>16, <2>1 DEF DropKey
<1>17. ASSUME NEW i \in Instance, Release(i) PROVE Kept
    BY <1>17 DEF Release
<1>18. ASSUME NEW i \in Instance, Backfill(i) PROVE Kept
    BY <1>18 DEF Backfill
<1>19. ASSUME NEW i \in Instance, Timeout(i) PROVE Kept
    BY <1>19 DEF Timeout
<1>20. ASSUME NEW i \in Instance, Crash(i) PROVE Kept
    BY <1>20 DEF Crash
<1>21. CASE Write
    BY <1>21 DEF Write
<1>22. CASE Spend
    BY <1>22 DEF Spend
<1>23. CASE Mark
    BY <1>23 DEF Mark
<1>24. CASE UNCHANGED vars
    BY <1>24 DEF vars
<1> QED
    BY <1>1, <1>2, <1>3, <1>4, <1>5, <1>6, <1>7, <1>8, <1>9, <1>10, <1>11, <1>12, <1>13, <1>14,
       <1>15, <1>16, <1>17, <1>18, <1>19, <1>20, <1>21, <1>22, <1>23, <1>24 DEF Next, Start

(* The invariant holds in every behaviour. *)
LEMMA InvHolds == Spec => []Inv
BY InitInv, NextInv, PTL DEF Spec

-----------------------------------------------------------------------------
(* While the constraints are exchanged, by however many instances at once    *)
(* and wherever they die, one of them is there.                              *)
THEOREM OneIsThere == Spec => []AlwaysUnique
BY InvHolds, PTL DEF Inv

(* An instance that serves finds the schema and the rows its code expects,   *)
(* and the exchange of SQLite's table loses no reservation written meanwhile.*)
THEOREM MigrationCompletes == Spec => []ReadyIsMigrated
<1>1. Inv => ReadyIsMigrated
    BY DEF Inv, ReadyIsMigrated, Done, Steps, AfterCreate, AfterUsage, AfterAmbiguous,
           AfterColumns, AfterSlots, AfterKeys
<1> QED
    BY <1>1, InvHolds, PTL

=============================================================================
