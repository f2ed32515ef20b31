------------------------------- MODULE Startup -------------------------------
(***************************************************************************)
(* Instances of the service that start at the same time on one database,   *)
(* each of them creating tables and migrating what it finds.  Sources:     *)
(* init_db in db.py and migrations.py.                                     *)
(*                                                                         *)
(* The tables are represented by roast_reservations, the one whose unique  *)
(* constraint is exchanged, and by the charges of one user.  Every DDL     *)
(* statement of MySQL commits by itself, and a named lock keeps instances  *)
(* apart; SQLite exchanges the table in one transaction that holds the     *)
(* write lock of the database.  An instance can die between any two steps  *)
(* and is started again; its connection's locks are released by then.      *)
(***************************************************************************)
EXTENDS Integers, FiniteSets

CONSTANTS
    Instance,
    Column,       \* columns that old tables lack, among them active_slot
    MaxCrashes,   \* bound
    MaxRows,      \* bound: reservations written meanwhile
    Nobody

ASSUME StartupAssumption ==
    /\ "active_slot" \in Column
    /\ MaxCrashes \in Nat /\ MaxRows \in Nat /\ Nobody \notin Instance

VARIABLES
    db,        \* the backend: mysql or sqlite (it never changes)
    present,   \* whether the tables exist
    cols,      \* those of Column that roast_reservations has
    keys,      \* its unique constraints
    freed,     \* completed rows have active_slot NULL
    sure,      \* rows of old versions that may have been sent are sending
    charges,   \* of the user: null, full, or spent
    active,    \* a user's mark of the day: none, late, or at the true time
    rows,      \* reservations in the table
    written,   \* history: reservations ever written
    lock,      \* holder of the named lock, or of SQLite's write lock
    pc,        \* where each instance is
    saw,       \* what it read before it acts on it
    crashes

schema == <<present, cols, keys>>
data == <<freed, sure, charges, active, rows, written>>
vars == <<db, schema, data, lock, pc, saw, crashes>>

Steps == {"down", "create", "ambiguous", "columns", "slots", "keys", "swap", "copied",
          "locked", "add", "drop", "release", "usage", "charge", "backfill", "serving"}

TypeOK ==
    /\ db \in {"mysql", "sqlite"} /\ present \in BOOLEAN
    /\ cols \subseteq Column /\ keys \subseteq {"old", "new"}
    /\ freed \in BOOLEAN /\ sure \in BOOLEAN /\ charges \in {"null", "full", "spent"}
    /\ active \in {"none", "late", "true"}
    /\ rows \in Nat /\ written \in Nat
    /\ lock \in Instance \cup {Nobody}
    /\ pc \in [Instance -> Steps]
    /\ saw \in [Instance -> [table : BOOLEAN, null : BOOLEAN, rows : Nat, missing : SUBSET Column]]
    /\ crashes \in 0 .. MaxCrashes

Nothing == [table |-> FALSE, null |-> FALSE, rows |-> 0, missing |-> {}]

(* A new database, or one of any earlier version: an exchange that was cut   *)
(* short may have left both constraints.                                     *)
Init ==
    /\ db \in {"mysql", "sqlite"}
    /\ present \in BOOLEAN
    /\ IF present
       THEN /\ cols \in SUBSET Column
            /\ keys \in {{"old"}, {"new"}, {"old", "new"}}
            /\ "new" \in keys => "active_slot" \in cols
            /\ db = "sqlite" => keys # {"old", "new"}
            /\ charges \in {"null", "full"} /\ active \in {"none", "late"}
            /\ freed = FALSE /\ sure = FALSE
       ELSE /\ cols = {} /\ keys = {} /\ charges = "full" /\ active = "true"
            /\ freed = TRUE /\ sure = TRUE
    /\ rows = 0 /\ written = 0
    /\ lock = Nobody /\ crashes = 0
    /\ pc = [i \in Instance |-> "down"] /\ saw = [i \in Instance |-> Nothing]

-----------------------------------------------------------------------------
Goto(i, step) == pc' = [pc EXCEPT ![i] = step]
Move(i, from, to) == pc[i] = from /\ Goto(i, to)

(* SQLite: others wait for the holder of the write lock. *)
MayWrite(i) == db = "sqlite" => lock \in {Nobody, i}

(* create_all looks for the tables first. *)
Boot(i) ==
    /\ Move(i, "down", "create")
    /\ saw' = [saw EXCEPT ![i] = [Nothing EXCEPT !.table = present]]
    /\ UNCHANGED <<db, schema, data, lock, crashes>>

(* Tables that were missing are created as the present version has them.  If *)
(* another instance did it meanwhile, CREATE TABLE fails, and so does the    *)
(* start.                                                                    *)
CreateAll(i) ==
    /\ pc[i] = "create" /\ MayWrite(i)
    /\ IF saw[i].table \/ ~present THEN Goto(i, "usage") ELSE Goto(i, "down")
    /\ present' = TRUE
    /\ IF present THEN UNCHANGED <<cols, keys>> ELSE cols' = Column /\ keys' = {"new"}
    /\ UNCHANGED <<db, data, lock, saw, crashes>>

(* _migrate_existing_user_usage reads the rows without a bucket ... *)
UsageRead(i) ==
    /\ Move(i, "usage", "charge")
    /\ saw' = [saw EXCEPT ![i].null = (charges = "null")]
    /\ UNCHANGED <<db, schema, data, lock, crashes>>

(* ... and writes a bucket for each, whatever is there by now. *)
UsageWrite(i) ==
    /\ Move(i, "charge", "ambiguous") /\ MayWrite(i)
    /\ charges' = IF saw[i].null THEN "full" ELSE charges
    /\ UNCHANGED <<db, schema, freed, sure, active, rows, written, lock, saw, crashes>>

Ambiguous(i) ==
    /\ Move(i, "ambiguous", "columns") /\ MayWrite(i)
    /\ sure' = TRUE
    /\ saw' = [saw EXCEPT ![i].missing = Column]
    /\ UNCHANGED <<db, schema, freed, charges, active, rows, written, lock, crashes>>

(* _add_column_if_missing, column by column: the check, ... *)
ColumnThere(i, c) ==
    /\ pc[i] = "columns" /\ c \in saw[i].missing /\ c \in cols
    /\ saw' = [saw EXCEPT ![i].missing = @ \ {c}]
    /\ UNCHANGED <<db, schema, data, lock, pc, crashes>>

(* ... the ALTER TABLE, and the error of a column that another instance has  *)
(* added since the check, which counts as done.                              *)
AddColumn(i, c) ==
    /\ pc[i] = "columns" /\ c \in saw[i].missing /\ MayWrite(i)
    /\ cols' = cols \cup {c}
    /\ saw' = [saw EXCEPT ![i].missing = @ \ {c}]
    /\ UNCHANGED <<db, present, keys, data, lock, pc, crashes>>

ColumnsDone(i) ==
    /\ Move(i, "columns", "slots") /\ saw[i].missing = {}
    /\ UNCHANGED <<db, schema, data, lock, saw, crashes>>

FreeSlots(i) ==
    /\ Move(i, "slots", "keys") /\ MayWrite(i)
    /\ freed' = TRUE
    /\ UNCHANGED <<db, schema, sure, charges, active, rows, written, lock, saw, crashes>>

(* _migrate_protection_gatherings looks at the constraints without a lock. *)
ReadKeys(i) ==
    /\ pc[i] = "keys"
    /\ Goto(i, IF "old" \in keys THEN "swap" ELSE "backfill")
    /\ UNCHANGED <<db, schema, data, lock, saw, crashes>>

-----------------------------------------------------------------------------
(* SQLite *)

(* Mutant of BeginImmediate: the write lock is not taken before the copy. *)
BeginDeferred(i) ==
    /\ pc[i] = "swap" /\ db = "sqlite" /\ lock = Nobody
    /\ Goto(i, IF "old" \in keys THEN "copied" ELSE "backfill")
    /\ saw' = [saw EXCEPT ![i].rows = rows]
    /\ UNCHANGED <<db, schema, data, lock, crashes>>

(* BEGIN IMMEDIATE, the second look, and the copy of the rows. *)
BeginImmediate(i) ==
    /\ pc[i] = "swap" /\ db = "sqlite" /\ lock = Nobody
    /\ Goto(i, IF "old" \in keys THEN "copied" ELSE "backfill")
    /\ lock' = IF "old" \in keys THEN i ELSE lock
    /\ saw' = [saw EXCEPT ![i].rows = rows]
    /\ UNCHANGED <<db, schema, data, crashes>>

(* The old table is dropped, the copy renamed, and all is committed. *)
Rename(i) ==
    /\ Move(i, "copied", "backfill")
    /\ keys' = {"new"}
    /\ rows' = saw[i].rows
    /\ lock' = Nobody
    /\ UNCHANGED <<db, present, cols, freed, sure, charges, active, written, saw, crashes>>

-----------------------------------------------------------------------------
(* MySQL *)

GetLock(i) ==
    /\ db = "mysql" /\ lock = Nobody /\ Move(i, "swap", "locked")
    /\ lock' = i
    /\ UNCHANGED <<db, schema, data, saw, crashes>>

(* Mutants of Plan: the old constraint goes first; the new one is taken to  *)
(* be missing whenever the old one is there.                                 *)
PlanDropFirst(i) == IF "old" \notin keys THEN "release" ELSE "drop"
PlanAddAlways(i) == IF "old" \notin keys THEN "release" ELSE "add"

(* The second look, under the lock. *)
Plan(i) ==
    IF "old" \notin keys THEN "release" ELSE IF "new" \in keys THEN "drop" ELSE "add"

Locked(i) ==
    /\ pc[i] = "locked" /\ Goto(i, Plan(i))
    /\ UNCHANGED <<db, schema, data, lock, saw, crashes>>

(* The lock is released also when a statement fails, and the start with it. *)
AddKey(i) ==
    /\ pc[i] = "add"
    /\ IF "new" \in keys THEN Goto(i, "down") /\ lock' = Nobody
       ELSE Goto(i, "drop") /\ UNCHANGED lock
    /\ keys' = keys \cup {"new"}
    /\ UNCHANGED <<db, present, cols, data, saw, crashes>>

DropKey(i) ==
    /\ Move(i, "drop", "release")
    /\ keys' = keys \ {"old"}
    /\ UNCHANGED <<db, present, cols, data, lock, saw, crashes>>

Release(i) ==
    /\ Move(i, "release", "backfill")
    /\ lock' = Nobody
    /\ UNCHANGED <<db, schema, data, saw, crashes>>

-----------------------------------------------------------------------------
(* Mutant of Backfill: what is there stays. *)
BackfillMissing(i) ==
    /\ Move(i, "backfill", "serving") /\ MayWrite(i)
    /\ active' = IF active = "none" THEN "true" ELSE active
    /\ UNCHANGED <<db, schema, freed, sure, charges, rows, written, lock, saw, crashes>>

(* _backfill_group_activity: the earlier of the two times, so that it may    *)
(* run at every start.                                                       *)
Backfill(i) ==
    /\ Move(i, "backfill", "serving") /\ MayWrite(i)
    /\ active' = "true"
    /\ UNCHANGED <<db, schema, freed, sure, charges, rows, written, lock, saw, crashes>>

(* Whoever waits too long for a lock fails to start: 60 seconds for the      *)
(* named lock, the busy timeout of SQLite for a write.                       *)
Timeout(i) ==
    /\ lock \notin {Nobody, i}
    /\ pc[i] \in IF db = "mysql" THEN {"swap"} ELSE Steps \ {"down", "usage", "keys", "serving"}
    /\ Goto(i, "down")
    /\ UNCHANGED <<db, schema, data, lock, saw, crashes>>

(* A process dies, at work or in the middle of its start. *)
Crash(i) ==
    /\ pc[i] # "down" /\ crashes < MaxCrashes
    /\ Goto(i, "down")
    /\ lock' = IF lock = i THEN Nobody ELSE lock
    /\ crashes' = crashes + 1
    /\ UNCHANGED <<db, schema, data, saw>>

(* What goes on meanwhile: reservations are written, also by processes of    *)
(* the version before, and charges spent.                                    *)
Write ==
    /\ present /\ written < MaxRows /\ (db = "sqlite" => lock = Nobody)
    /\ rows' = rows + 1 /\ written' = written + 1
    /\ UNCHANGED <<db, schema, freed, sure, charges, active, lock, pc, saw, crashes>>

(* mark_group_active_users adds a missing mark. *)
Mark ==
    /\ \E i \in Instance : pc[i] = "serving"
    /\ db = "sqlite" => lock = Nobody
    /\ active' = IF active = "none" THEN "late" ELSE active
    /\ UNCHANGED <<db, schema, freed, sure, charges, rows, written, lock, pc, saw, crashes>>

Spend ==
    /\ \E i \in Instance : pc[i] = "serving"
    /\ db = "sqlite" => lock = Nobody
    /\ charges' = "spent"
    /\ UNCHANGED <<db, schema, freed, sure, active, rows, written, lock, pc, saw, crashes>>

Start(i) ==
    \/ Boot(i) \/ CreateAll(i) \/ UsageRead(i) \/ UsageWrite(i) \/ Ambiguous(i)
    \/ \E c \in Column : ColumnThere(i, c) \/ AddColumn(i, c)
    \/ ColumnsDone(i) \/ FreeSlots(i) \/ ReadKeys(i)
    \/ BeginImmediate(i) \/ Rename(i)
    \/ GetLock(i) \/ Locked(i) \/ AddKey(i) \/ DropKey(i) \/ Release(i)
    \/ Backfill(i) \/ Timeout(i)

Next ==
    \/ \E i \in Instance : Start(i) \/ Crash(i)
    \/ Write \/ Spend \/ Mark

Spec == Init /\ [][Next]_vars

(* Whatever ends an instance, it is started again, and its steps go on.      *)
FairSpec == Spec /\ \A i \in Instance : WF_vars(Start(i))

-----------------------------------------------------------------------------
(* Properties *)

(* There is no moment at which two active reservations against one target    *)
(* could be inserted: one of the unique constraints is always there.         *)
AlwaysUnique == present => keys # {}

(* An instance that serves finds the schema and the rows its code expects,   *)
(* however the starts of the others, their deaths and their failures         *)
(* interleave, and the exchange of the table keeps every reservation.        *)
ReadyIsMigrated ==
    /\ TypeOK
    /\ \A i \in Instance : pc[i] = "serving" =>
          present /\ cols = Column /\ keys = {"new"} /\ freed /\ sure
          /\ charges # "null" /\ active = "true"
    /\ rows = written

(* Every instance comes up in the end, though starts fail over tables that   *)
(* appear and locks that time out.                                           *)
ComesUp == \A i \in Instance : <>(pc[i] = "serving")
=============================================================================
