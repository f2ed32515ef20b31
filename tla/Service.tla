------------------------------- MODULE Service -------------------------------
(***************************************************************************)
(* Requests on their way through the service: the pooled connection of the *)
(* business transaction, its end, and the statistics that the middleware   *)
(* commits afterwards on a connection of its own.  Sources: main.py, db.py,*)
(* services/key_usage.py; the requests are those of routers/cooldowns.py   *)
(* with services/usage.py, POST /v1/group-rolls/mark-seen and any GET.     *)
(*                                                                         *)
(* All requests carry one API key and concern one user of one group, where *)
(* they meet.  A transaction takes its row locks one by one and keeps them *)
(* until it ends (MySQL); its writes show when it commits.                 *)
(***************************************************************************)
EXTENDS Integers, FiniteSets, Sequences

CONSTANTS
    Worker,         \* requests handled at the same time
    PoolSize,       \* sizes that the engine's pool may have
    MaxCharges, Recover,    \* settings of the bots, clamped
    Skew,           \* how far the time a bot sends may lag
    LastTime,       \* bound
    MaxRequests,    \* bound
    MaxFaults,      \* bound: errors in a handler or in the statistics
    Nobody

ASSUME ServiceAssumption ==
    /\ IsFiniteSet(Worker) /\ Nobody \notin Worker
    /\ PoolSize \subseteq Nat \ {0} /\ MaxCharges \in 1 .. 6 /\ Recover \in Nat \ {0}
    /\ Skew \in Nat /\ LastTime \in Nat /\ MaxRequests \in Nat /\ MaxFaults \in Nat

Kind == {"roast", "force", "seen", "read"}

(* Rows that transactions lock: the user's usage and mark of the day, the  *)
(* identity of the key, and its counters, a row for each operation.        *)
Lock == {"usage", "active", "identity"} \cup Kind

VARIABLES
    usage,      \* the user's row: charges (-1: NULL), updated, forced
    seen,       \* group_rolls has the user's row
    counter,    \* source_key_daily_usage
    job,        \* the request of each worker
    owner,      \* the worker whose transaction locks a row
    pool,       \* the size of the pool (it never changes)
    conn,       \* the workers whose sessions hold a connection
    clock, requests, faults,
    answered,   \* history: requests of each kind by outcome
    lost,       \* history: those of them whose statistics failed
    marks,      \* history: committed mark-seen requests
    grants      \* history: the roasts decided, in the order of commits

data == <<usage, seen, counter>>
bounds == <<pool, clock, requests, faults>>
history == <<answered, lost, marks, grants>>
vars == <<data, job, owner, conn, bounds, history>>

NoUsage == [there |-> FALSE, charges |-> 0, updated |-> 0, forced |-> FALSE]
Idle == [at |-> "idle", kind |-> "read", now |-> 0, tries |-> 0, plan |-> <<>>,
         absent |-> FALSE, status |-> "none"]

Places == {"idle", "handler", "business", "closing", "statistics", "counting"}
NoCounts == [ok |-> 0, failed |-> 0]

TypeOK ==
    /\ usage \in [there : BOOLEAN, charges : -1 .. MaxCharges, updated : Nat, forced : BOOLEAN]
    /\ seen \in BOOLEAN
    /\ counter \in [Kind -> [ok : Nat, failed : Nat, created : Nat, hits : Nat]]
    /\ job \in [Worker -> [at : Places, kind : Kind, now : Nat, tries : 0 .. 2,
                           plan : Seq(Lock), absent : BOOLEAN, status : {"none", "ok", "failed"}]]
    /\ owner \in [Lock -> Worker \cup {Nobody}]
    /\ conn \subseteq Worker /\ Cardinality(conn) <= pool

Init ==
    /\ usage = NoUsage /\ seen = FALSE
    /\ counter = [k \in Kind |-> [ok |-> 0, failed |-> 0, created |-> 0, hits |-> 0]]
    /\ job = [w \in Worker |-> Idle]
    /\ owner = [l \in Lock |-> Nobody] /\ conn = {} /\ pool \in PoolSize
    /\ clock = 0 /\ requests = 0 /\ faults = 0
    /\ answered = [k \in Kind |-> NoCounts] /\ lost = [k \in Kind |-> NoCounts]
    /\ marks = 0 /\ grants = <<>>

-----------------------------------------------------------------------------
(* Connections and locks *)

(* Mutant of Planned: the counters are written before the identity. *)
PlannedCountersFirst(at, k) ==
    IF at = "statistics" THEN <<"identity", k>>
    ELSE CASE k \in {"roast", "force"} -> <<"usage">>
           [] k = "seen" -> <<"active", k, "identity">>
           [] OTHER -> <<>>

(* The rows that the statements of a transaction lock, in their order. *)
Planned(at, k) ==
    IF at = "statistics" THEN <<"identity", k>>
    ELSE CASE k \in {"roast", "force"} -> <<"usage">>
           [] k = "seen" -> <<"active", "identity", k>>
           [] OTHER -> <<>>

(* The session takes a connection at its first statement; that of          *)
(* mark-seen looks whether the row exists.                                 *)
Connect(w) ==
    /\ job[w].at \in {"handler", "statistics"}
    /\ Cardinality(conn) < pool
    /\ conn' = conn \cup {w}
    /\ job' = [job EXCEPT ![w].at = IF @ = "handler" THEN "business" ELSE "counting",
                          ![w].plan = Planned(job[w].at, job[w].kind),
                          ![w].absent = job[w].kind = "seen" /\ ~seen,
                          ![w].tries = @ + 1]
    /\ UNCHANGED <<data, owner, bounds, history>>

InTransaction(w) == job[w].at \in {"business", "counting"}

(* A row that is not there cannot be locked. *)
TakeLock(w) ==
    /\ InTransaction(w) /\ job[w].plan # <<>>
    /\ LET l == Head(job[w].plan)
           none == l = "usage" /\ ~usage.there
       IN  /\ owner[l] = Nobody
           /\ owner' = IF none THEN owner ELSE [owner EXCEPT ![l] = w]
           /\ job' = [job EXCEPT ![w].plan = Tail(@),
                                 ![w].absent = IF l = "usage" THEN none ELSE @]
    /\ UNCHANGED <<data, conn, bounds, history>>

(* The end of a transaction, by commit, rollback or close. *)
End(w) ==
    /\ owner' = [l \in Lock |-> IF owner[l] = w THEN Nobody ELSE owner[l]]
    /\ conn' = conn \ {w}

Ready(w, k) == job[w].at = "business" /\ job[w].kind = k /\ job[w].plan = <<>>

(* The row it did not find exists by now: the INSERT fails. *)
Beaten(w) ==
    /\ job[w].absent
    /\ IF job[w].kind = "seen" THEN seen ELSE job[w].kind # "read" /\ usage.there

Leave(w, status) ==
    job' = [job EXCEPT ![w] = [Idle EXCEPT !.at = "closing", !.kind = job[w].kind,
                                           !.status = status]]

-----------------------------------------------------------------------------
(* Charges *)

(* Mutant of Recovered: the rest of the interval is dropped. *)
RecoveredFromNow(charges, updated, now) ==
    LET more == IF now > updated THEN (now - updated) \div Recover ELSE 0
    IN  IF charges + more >= MaxCharges THEN <<MaxCharges, now>>
        ELSE IF more = 0 THEN <<charges, updated>>
        ELSE <<charges + more, now>>

(* The charges at a time, and the time up to which recovery is counted. *)
Recovered(charges, updated, now) ==
    LET more == IF now > updated THEN (now - updated) \div Recover ELSE 0
    IN  IF charges + more >= MaxCharges THEN <<MaxCharges, now>>
        ELSE <<charges + more, updated + more * Recover>>

(* A row that a forced roast created has no charges yet: it is full. *)
Bucket(now) ==
    IF ~usage.there \/ usage.charges < 0 THEN <<MaxCharges, now>>
    ELSE Recovered(usage.charges, usage.updated, now)

(* Mutant of Spent: recovery goes on from where it was when full. *)
SpentWhenFull(bucket, now) == <<bucket[1] - 1, usage.updated>>

(* After a roast recovery starts anew if the bucket was full. *)
Spent(bucket, now) ==
    <<bucket[1] - 1, IF bucket[1] >= MaxCharges THEN now ELSE bucket[2]>>

Roast(w) ==
    /\ Ready(w, "roast") /\ ~Beaten(w)
    /\ LET now == job[w].now
           bucket == Bucket(now)
           allowed == bucket[1] > 0
           next == IF allowed THEN Spent(bucket, now) ELSE bucket
       IN  /\ usage' = [usage EXCEPT !.there = TRUE, !.charges = next[1], !.updated = next[2]]
           /\ grants' = Append(grants, [now |-> now, allowed |-> allowed])
    /\ Leave(w, "ok") /\ End(w)
    /\ UNCHANGED <<seen, counter, bounds, answered, lost, marks>>

ForceUsage(w) ==
    /\ Ready(w, "force") /\ ~Beaten(w)
    /\ usage' = [usage EXCEPT !.there = TRUE, !.forced = TRUE,
                              !.charges = IF usage.there THEN @ ELSE -1]
    /\ Leave(w, "ok") /\ End(w)
    /\ UNCHANGED <<seen, counter, bounds, history>>

(* Two requests that found no row: a unique-key conflict, retried once, or *)
(* a deadlock of their gap locks, which is not.                            *)
ClashOnUsage(w) ==
    /\ job[w].kind \in {"roast", "force"} /\ Ready(w, job[w].kind) /\ Beaten(w)
    /\ \/ /\ job[w].tries < 2
          /\ job' = [job EXCEPT ![w].at = "handler"]
          /\ End(w)
       \/ /\ Leave(w, "failed")
          /\ UNCHANGED <<conn, owner>>
    /\ UNCHANGED <<data, bounds, history>>

-----------------------------------------------------------------------------
(* Other requests *)

(* Mutant of MarkSeen: the conflict is taken for success. *)
MarkSeenAnyway(w) ==
    /\ Ready(w, "seen")
    /\ seen' = TRUE
    /\ counter' = [counter EXCEPT !["seen"].created = IF job[w].absent THEN @ + 1 ELSE @,
                                  !["seen"].hits = IF job[w].absent THEN @ ELSE @ + 1]
    /\ marks' = marks + 1
    /\ Leave(w, "ok") /\ End(w)
    /\ UNCHANGED <<usage, bounds, answered, lost, grants>>

(* The row and the count of what was done commit together. *)
MarkSeen(w) ==
    /\ Ready(w, "seen") /\ ~Beaten(w)
    /\ seen' = TRUE
    /\ counter' = [counter EXCEPT !["seen"].created = IF job[w].absent THEN @ + 1 ELSE @,
                                  !["seen"].hits = IF job[w].absent THEN @ ELSE @ + 1]
    /\ marks' = marks + 1
    /\ Leave(w, "ok") /\ End(w)
    /\ UNCHANGED <<usage, bounds, answered, lost, grants>>

(* The row was inserted after it looked; nothing retries. *)
ClashOnSeen(w) ==
    /\ Ready(w, "seen") /\ Beaten(w)
    /\ Leave(w, "failed")
    /\ UNCHANGED <<data, owner, conn, bounds, history>>

(* A GET does not commit: its session keeps the connection. *)
Read(w) ==
    /\ Ready(w, "read")
    /\ Leave(w, "ok")
    /\ UNCHANGED <<data, owner, conn, bounds, history>>

(* An exception, or no connection within the pool's timeout. *)
Fail(w) ==
    /\ job[w].at \in {"handler", "business"} /\ faults < MaxFaults
    /\ faults' = faults + 1
    /\ Leave(w, "failed")
    /\ UNCHANGED <<data, owner, conn, pool, clock, requests, history>>

-----------------------------------------------------------------------------
(* The dependency's end and the middleware *)

(* Mutant of Close: the session is open until the response is sent. *)
CloseWithResponse(w) ==
    /\ job[w].at = "closing"
    /\ job' = [job EXCEPT ![w].at = "statistics"]
    /\ UNCHANGED <<data, owner, conn, bounds, history>>

(* The scope of the session is the route function: it is closed, and what  *)
(* it did not commit rolled back, before the middleware goes on.           *)
Close(w) ==
    /\ job[w].at = "closing"
    /\ job' = [job EXCEPT ![w].at = "statistics"]
    /\ End(w)
    /\ UNCHANGED <<data, bounds, history>>

Answer(w) ==
    /\ job' = [job EXCEPT ![w] = Idle]
    /\ answered' = [answered EXCEPT ![job[w].kind][job[w].status] = @ + 1]

(* record_key_request: a transaction of its own. *)
Count(w) ==
    /\ job[w].at = "counting" /\ job[w].plan = <<>>
    /\ counter' = [counter EXCEPT ![job[w].kind][job[w].status] = @ + 1]
    /\ End(w) /\ Answer(w)
    /\ UNCHANGED <<usage, seen, bounds, lost, marks, grants>>

(* An error of the statistics is logged; the answer stays. *)
Uncounted(w) ==
    /\ job[w].at \in {"statistics", "counting"} /\ faults < MaxFaults
    /\ faults' = faults + 1
    /\ lost' = [lost EXCEPT ![job[w].kind][job[w].status] = @ + 1]
    /\ End(w) /\ Answer(w)
    /\ UNCHANGED <<data, pool, clock, requests, marks, grants>>

-----------------------------------------------------------------------------
(* Time passes between requests; that of a roast is the time its bot sent. *)
Arrive(w) ==
    /\ job[w].at = "idle" /\ requests < MaxRequests
    /\ requests' = requests + 1
    /\ \E k \in Kind, time \in clock .. LastTime, late \in 0 .. Skew :
         /\ late <= time /\ (k # "roast" => time = clock /\ late = 0)
         /\ clock' = time
         /\ job' = [job EXCEPT ![w] = [Idle EXCEPT !.at = "handler", !.kind = k,
                                                   !.now = IF k = "roast" THEN time - late ELSE 0]]
    /\ UNCHANGED <<data, owner, conn, pool, faults, history>>

Step(w) ==
    \/ Connect(w) \/ TakeLock(w)
    \/ Roast(w) \/ ForceUsage(w) \/ ClashOnUsage(w)
    \/ MarkSeen(w) \/ ClashOnSeen(w) \/ Read(w)
    \/ Close(w) \/ Count(w)

Next ==
    \E w \in Worker : Arrive(w) \/ Step(w) \/ Fail(w) \/ Uncounted(w)

Spec == Init /\ [][Next]_vars

-----------------------------------------------------------------------------
(* Properties *)

(* What a request in progress waits for: a connection, or the next row.      *)
GoesOn(w) ==
    \/ job[w].at \in {"handler", "statistics"} /\ Cardinality(conn) < pool
    \/ InTransaction(w) /\ (job[w].plan = <<>> \/ owner[Head(job[w].plan)] = Nobody)
    \/ job[w].at = "closing"

(* Requests never all wait for each other, neither for connections that      *)
(* others keep while they wait for one, nor in a cycle of row locks.         *)
(* (db.py:79-84.)                                                            *)
NotAllWait ==
    (\E w \in Worker : job[w].at # "idle") => \E w \in Worker : GoesOn(w)

(* One of the requests in progress can take a step.  Every step brings a     *)
(* request closer to its answer (a retry happens once), so all are answered. *)
SomeRequestProceeds ==
    NotAllWait /\ \A w \in Worker : GoesOn(w) => ENABLED Step(w)

(* Statistics and business data agree: a created record is counted if and  *)
(* only if the row exists, every committed mark once as created or as a    *)
(* hit, and every answered request once unless its statistics failed;      *)
(* whatever failed has left nothing behind.                                *)
CountsTellHistory ==
    /\ TypeOK
    /\ counter["seen"].created = IF seen THEN 1 ELSE 0
    /\ counter["seen"].created + counter["seen"].hits = marks
    /\ \A k \in Kind :
         /\ counter[k].ok + lost[k].ok = answered[k].ok
         /\ counter[k].failed + lost[k].failed = answered[k].failed
    /\ marks - answered["seen"].ok
         = Cardinality({w \in Worker : job[w].kind = "seen" /\ job[w].status = "ok"})

Allowed(i, j) == Cardinality({n \in i .. j : grants[n].allowed})

(* A full bucket and what recovers in the time. *)
Earned(time) == MaxCharges + (IF time > 0 THEN time \div Recover ELSE 0)

(* The bucket gives neither more nor less than was earned: no sequence of  *)
(* roasts exceeds a full bucket and the recovery of its duration, and a    *)
(* roast is refused only at the end of a sequence that used all of it.     *)
(* (usage.py:32-110.)                                                      *)
BucketIsExact ==
    \A j \in DOMAIN grants :
      /\ \A i \in 1 .. j :
           \E m, n \in i .. j : Allowed(i, j) <= Earned(grants[n].now - grants[m].now)
      /\ ~grants[j].allowed =>
           \E i \in 1 .. j : Allowed(i, j) >= Earned(grants[j].now - grants[i].now)
=============================================================================
