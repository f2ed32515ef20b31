----------------------------- MODULE Service_proof -----------------------------
(***************************************************************************)
(* Theorems about Service, for any number of requests, any pool and any    *)
(* settings of the charges.                                                *)
(***************************************************************************)
EXTENDS Service, FiniteSetTheorems, SequenceTheorems, TLAPS

(* What a worker does. *)
Request == [at : Places, kind : Kind, now : Nat, tries : 0 .. 2, plan : Seq(Lock),
            absent : BOOLEAN, status : {"none", "ok", "failed"}]

Counts == [Kind -> [ok : Nat, failed : Nat]]
Grant == [now : Nat, allowed : BOOLEAN]

Types ==
    /\ TypeOK
    /\ pool \in Nat /\ clock \in Nat /\ marks \in Nat
    /\ answered \in Counts /\ lost \in Counts
    /\ grants \in Seq(Grant)

(* A request has its status once it has left the handler, and mark-seen      *)
(* never asks for the usage row.                                             *)
Shape(j) ==
    /\ j.status = "none" <=> j.at \in {"idle", "handler", "business"}
    /\ j.at = "handler" => j.tries <= 1
    /\ j.at \in {"closing", "statistics"} => j.tries = 0
    /\ j.kind = "seen" => \A i \in 1 .. Len(j.plan) : j.plan[i] # "usage"

(* A mark-seen that found the row still does: rows are not deleted. *)
Looked(w) == job[w].at = "business" /\ job[w].kind = "seen" /\ ~job[w].absent => seen

Served(j) == j.kind = "seen" /\ j.status = "ok"
ServedOnes == {w \in Worker : Served(job[w])}

Tallies ==
    /\ counter["seen"].created = IF seen THEN 1 ELSE 0
    /\ counter["seen"].created + counter["seen"].hits = marks
    /\ \A k \in Kind :
         /\ counter[k].ok + lost[k].ok = answered[k].ok
         /\ counter[k].failed + lost[k].failed = answered[k].failed
    /\ marks - answered["seen"].ok = Cardinality(ServedOnes)

Accounts ==
    /\ Types
    /\ \A w \in Worker : Shape(job[w]) /\ Looked(w)
    /\ Tallies

-----------------------------------------------------------------------------
(* Requests move on *)

LEMMA Typed ==
    ASSUME Types
    PROVE  job \in [Worker -> Request]
BY DEF Types, TypeOK, Request

LEMMA Goes ==
    ASSUME Accounts, NEW w \in Worker, NEW r \in Request, job' = [job EXCEPT ![w] = r], Shape(r),
           r.at = "business" /\ r.kind = "seen" /\ ~r.absent => seen',
           seen => seen'
    PROVE  /\ job' \in [Worker -> Request]
           /\ \A x \in Worker : Shape(job[x])' /\ Looked(x)'
           /\ ServedOnes' = IF Served(r) THEN ServedOnes \cup {w} ELSE ServedOnes \ {w}
<1>1. job \in [Worker -> Request] /\ \A x \in Worker : Shape(job[x]) /\ Looked(x)
    BY Typed DEF Accounts
<1>2. \A x \in Worker : job'[x] = IF x = w THEN r ELSE job[x]
    BY <1>1
<1>3. job' \in [Worker -> Request]
    BY <1>1
<1>4. ASSUME NEW x \in Worker
      PROVE  Shape(job[x])' /\ Looked(x)'
    <2>1. CASE x = w
        BY <1>2, <2>1 DEF Shape, Looked
    <2>2. CASE x # w
        <3>1. job'[x] = job[x] /\ Shape(job[x]) /\ Looked(x)
            BY <1>1, <1>2, <2>2
        <3> QED
            BY <3>1 DEF Shape, Looked
    <2> QED
        BY <2>1, <2>2
<1>5. ServedOnes' = IF Served(r) THEN ServedOnes \cup {w} ELSE ServedOnes \ {w}
    BY <1>2 DEF ServedOnes, Served
<1> QED
    BY <1>3, <1>4, <1>5

(* A step that neither counts nor answers. *)
LEMMA QuietTallies ==
    ASSUME Accounts, NEW w \in Worker, NEW r, Served(r) <=> Served(job[w]),
           ServedOnes' = IF Served(r) THEN ServedOnes \cup {w} ELSE ServedOnes \ {w},
           UNCHANGED <<counter, seen, marks, answered, lost>>
    PROVE  Tallies'
<1>1. ServedOnes' = ServedOnes
    BY DEF ServedOnes
<1> QED
    BY <1>1 DEF Accounts, Tallies

LEMMA PlanTyped ==
    ASSUME NEW at, NEW k \in Kind
    PROVE  /\ Planned(at, k) \in Seq(Lock)
           /\ k = "seen" => \A i \in 1 .. Len(Planned(at, k)) : Planned(at, k)[i] # "usage"
<1>1. "usage" \in Lock /\ "active" \in Lock /\ "identity" \in Lock /\ k \in Lock /\ k # "usage"
    BY DEF Lock, Kind
<1>2. CASE at = "statistics"
    <2>1. Planned(at, k) = <<"identity", k>>
        BY <1>2 DEF Planned
    <2>2. <<"identity", k>> \in Seq(Lock) /\ Len(<<"identity", k>>) = 2
        BY <1>1
    <2>3. <<"identity", k>>[1] = "identity" /\ <<"identity", k>>[2] = k
        OBVIOUS
    <2>4. \A i \in 1 .. 2 : i = 1 \/ i = 2
        OBVIOUS
    <2> QED
        BY <1>1, <2>1, <2>2, <2>3, <2>4
<1>3. CASE at # "statistics" /\ k \in {"roast", "force"}
    <2>1. Planned(at, k) = <<"usage">>
        BY <1>3 DEF Planned
    <2> QED
        BY <1>1, <1>3, <2>1
<1>4. CASE at # "statistics" /\ k = "seen"
    <2>1. Planned(at, k) = <<"active", "identity", k>>
        BY <1>4 DEF Planned
    <2>2. <<"active", "identity", k>> \in Seq(Lock) /\ Len(<<"active", "identity", k>>) = 3
        BY <1>1
    <2>3. /\ <<"active", "identity", k>>[1] = "active"
          /\ <<"active", "identity", k>>[2] = "identity"
          /\ <<"active", "identity", k>>[3] = k
        OBVIOUS
    <2>4. \A i \in 1 .. 3 : i = 1 \/ i = 2 \/ i = 3
        OBVIOUS
    <2> QED
        BY <1>1, <2>1, <2>2, <2>3, <2>4
<1>5. CASE at # "statistics" /\ k = "read"
    <2>1. Planned(at, k) = <<>>
        BY <1>5 DEF Planned
    <2>2. <<>> \in Seq(Lock)
        OBVIOUS
    <2> QED
        BY <1>5, <2>1, <2>2
<1> QED
    BY <1>2, <1>3, <1>4, <1>5 DEF Kind

LEMMA IdleTyped ==
    /\ Idle \in Request /\ Shape(Idle) /\ ~Served(Idle)
    /\ Idle.at = "idle" /\ Idle.status = "none"
<1>1. <<>> \in Seq(Lock) /\ Len(<<>>) = 0
    OBVIOUS
<1>2. Idle \in Request
    BY <1>1 DEF Idle, Request, Places, Kind
<1>3. Idle.at = "idle" /\ Idle.status = "none" /\ Idle.kind = "read" /\ Idle.tries = 0
    BY DEF Idle
<1> QED
    BY <1>2, <1>3 DEF Shape, Served

(* The request that has left its handler. *)
LEMMA LeaveTyped ==
    ASSUME Accounts, NEW w \in Worker, NEW s \in {"ok", "failed"}, Leave(w, s)
    PROVE  \E r \in Request : /\ job' = [job EXCEPT ![w] = r] /\ Shape(r) /\ r.at = "closing"
                              /\ Len(r.plan) = 0
                              /\ Served(r) <=> job[w].kind = "seen" /\ s = "ok"
<1>1. PICK k \in Kind : k = job[w].kind
    BY Typed DEF Accounts, Request
<1>2. PICK i \in Request : i = Idle
    BY IdleTyped
<1>3. i.tries = 0 /\ Len(i.plan) = 0
    BY <1>2 DEF Idle
<1> DEFINE r == [i EXCEPT !.at = "closing", !.kind = k, !.status = s]
<1>4. r \in Request
    BY DEF Request, Places
<1>5. r.at = "closing" /\ r.kind = k /\ r.status = s /\ r.tries = i.tries /\ r.plan = i.plan
    BY DEF Request
<1>6. job' = [job EXCEPT ![w] = r]
    BY <1>1, <1>2 DEF Leave
<1> HIDE DEF r
<1>7. Shape(r)
    BY <1>3, <1>5 DEF Shape
<1> QED
    BY <1>1, <1>3, <1>4, <1>5, <1>6, <1>7 DEF Served

(* Connections and locks have their owners. *)
Owned ==
    /\ owner \in [Lock -> Worker \cup {Nobody}]
    /\ conn \subseteq Worker /\ Cardinality(conn) <= pool

Usage == [there : BOOLEAN, charges : -1 .. MaxCharges, updated : Nat, forced : BOOLEAN]

LEMMA EndOwned ==
    ASSUME Types, NEW w \in Worker, End(w), pool' = pool
    PROVE  Owned'
<1>1. owner \in [Lock -> Worker \cup {Nobody}] /\ conn \subseteq Worker /\ Cardinality(conn) <= pool
    BY DEF Types, TypeOK
<1>2. IsFiniteSet(conn) /\ IsFiniteSet(conn \ {w})
    BY <1>1, ServiceAssumption, FS_Subset
<1>3. Cardinality(conn \ {w}) <= Cardinality(conn)
    BY <1>2, FS_Subset
<1>4. /\ Cardinality(conn) \in Nat /\ Cardinality(conn \ {w}) \in Nat /\ pool \in Nat
    BY <1>2, FS_CardinalityType DEF Types
<1> QED
    BY <1>1, <1>3, <1>4 DEF Owned, End

LEMMA SameOwned ==
    ASSUME Types, UNCHANGED <<owner, conn, pool>>
    PROVE  Owned'
BY DEF Types, TypeOK, Owned

(* A request that goes on without counting. *)
LEMMA Keeps ==
    ASSUME Accounts, NEW w \in Worker, NEW r \in Request, job' = [job EXCEPT ![w] = r], Shape(r),
           r.at = "business" /\ r.kind = "seen" /\ ~r.absent => seen,
           Served(r) <=> Served(job[w]), Owned', usage' \in Usage, clock' \in Nat,
           grants' \in Seq(Grant), UNCHANGED <<seen, counter, answered, lost, marks, pool>>
    PROVE  Accounts'
<1>1. /\ job' \in [Worker -> Request]
      /\ \A x \in Worker : Shape(job[x])' /\ Looked(x)'
      /\ ServedOnes' = IF Served(r) THEN ServedOnes \cup {w} ELSE ServedOnes \ {w}
    BY Goes
<1>2. Tallies'
    BY <1>1, QuietTallies
<1>3. TypeOK'
    BY <1>1 DEF Accounts, Types, TypeOK, Owned, Usage, Request
<1>4. Types'
    BY <1>3 DEF Accounts, Types
<1> QED
    BY <1>1, <1>2, <1>4 DEF Accounts

LEMMA ConnectAccounts ==
    ASSUME Accounts, NEW w \in Worker, Connect(w)
    PROVE  Accounts'
<1>1. PICK j \in Request : j = job[w] /\ Shape(j)
    BY Typed DEF Accounts
<1>2. j.at \in {"handler", "statistics"} /\ j.tries <= 1
    BY <1>1 DEF Connect, Shape, Request
<1> DEFINE at == IF j.at = "handler" THEN "business" ELSE "counting"
           plan == Planned(j.at, j.kind)
           absent == j.kind = "seen" /\ ~seen
           r == [at |-> at, kind |-> j.kind, now |-> j.now, tries |-> j.tries + 1, plan |-> plan,
                 absent |-> absent, status |-> j.status]
<1>3. plan \in Seq(Lock) /\ (j.kind = "seen" => \A i \in 1 .. Len(plan) : plan[i] # "usage")
    BY PlanTyped DEF Request
<1>4. at \in Places /\ absent \in BOOLEAN /\ j.tries + 1 \in 0 .. 2
    BY <1>2 DEF Places, Request
<1>5. r \in Request
    BY <1>3, <1>4 DEF Request
<1>6. job' = [job EXCEPT ![w].at = IF @ = "handler" THEN "business" ELSE "counting",
                          ![w].plan = plan, ![w].absent = absent, ![w].tries = @ + 1]
    BY <1>1 DEF Connect
<1>7. /\ at \in {"business", "counting"} /\ (at = "business" <=> j.at = "handler")
      /\ absent <=> j.kind = "seen" /\ ~seen
    BY <1>2
<1> HIDE DEF at, plan, absent
<1>8. job' = [job EXCEPT ![w] = r]
    <2>1. job \in [Worker -> Request]
        BY Typed DEF Accounts
    <2> QED
        BY <1>1, <1>6, <2>1 DEF Request, at
<1>9. /\ r.at = at /\ r.kind = j.kind /\ r.status = j.status /\ r.plan = plan /\ r.absent = absent
    OBVIOUS
<1> HIDE DEF r
<1>10. Shape(r)
    BY <1>1, <1>2, <1>3, <1>7, <1>9 DEF Shape
<1>11. (r.at = "business" /\ r.kind = "seen" /\ ~r.absent => seen) /\ (Served(r) <=> Served(job[w]))
    BY <1>1, <1>7, <1>9 DEF Served
<1>12. Owned'
    <2>1. owner \in [Lock -> Worker \cup {Nobody}] /\ conn \subseteq Worker /\ pool \in Nat
        BY DEF Accounts, Types, TypeOK
    <2>2. IsFiniteSet(conn)
        BY <2>1, ServiceAssumption, FS_Subset
    <2>3. PICK c : c = conn \cup {w}
        OBVIOUS
    <2>4. IsFiniteSet(c) /\ (w \notin conn => Cardinality(c) = Cardinality(conn) + 1)
        BY <2>2, <2>3, FS_AddElement
    <2>5. w \in conn => c = conn
        BY <2>3
    <2>6. Cardinality(c) \in Nat /\ Cardinality(conn) \in Nat
        BY <2>2, <2>4, FS_CardinalityType
    <2>7. Cardinality(c) <= Cardinality(conn) + 1
        BY <2>4, <2>5, <2>6
    <2>8. /\ conn' = c /\ Cardinality(conn) < pool
          /\ pool' = pool /\ owner' = owner
        BY <2>3 DEF Connect, bounds
    <2>9. conn' \subseteq Worker /\ Cardinality(conn') <= pool'
        BY <2>1, <2>3, <2>6, <2>7, <2>8
    <2> QED
        BY <2>1, <2>8, <2>9 DEF Owned
<1> QED
    BY <1>5, <1>8, <1>10, <1>11, <1>12, Keeps
    DEF Connect, data, bounds, history, Accounts, Types, TypeOK, Usage

-----------------------------------------------------------------------------
(* The bucket *)

(* Recovery, when it does not fill the bucket, gives a charge for each       *)
(* interval that it counts, and leaves less than an interval uncounted.      *)
LEMMA RecoveredExact ==
    ASSUME NEW c \in 0 .. MaxCharges, NEW u \in Nat, NEW now \in Nat
    PROVE  LET b == Recovered(c, u, now)[1]
               v == Recovered(c, u, now)[2]
           IN  /\ b \in 0 .. MaxCharges /\ v \in Nat
               /\ \/ /\ b = MaxCharges /\ v = now
                     /\ c < MaxCharges => /\ u <= now
                                          /\ Recover * MaxCharges - now <= Recover * c - u
                  \/ /\ b < MaxCharges /\ Recover * b - v = Recover * c - u
                     /\ u <= v /\ now < v + Recover
                     /\ (v = u /\ b = c) \/ v <= now
<1>1. Recover \in Nat \ {0} /\ MaxCharges \in Nat
    BY ServiceAssumption
<1> DEFINE k == IF now > u THEN (now - u) \div Recover ELSE 0
<1>2. k \in Nat /\ Recover * k \in Nat /\ now < u + Recover * k + Recover
      /\ (k = 0 \/ u + Recover * k <= now)
    <2>1. CASE now > u
        <3>1. PICK n \in Nat : n = now - u
            BY <2>1
        <3>2. n \div Recover \in Nat /\ Recover * (n \div Recover) <= n
              /\ n < Recover * (n \div Recover) + Recover
            BY <1>1
        <3>3. PICK m \in Nat : m = n \div Recover
            BY <3>2
        <3>4. Recover * m \in Nat
            BY <1>1
        <3>5. k = m
            BY <2>1, <3>1, <3>3
        <3> QED
            BY <1>1, <3>1, <3>2, <3>3, <3>4, <3>5
    <2>2. CASE ~(now > u)
        BY <1>1, <2>2
    <2> QED
        BY <2>1, <2>2
<1>3. Recovered(c, u, now) = IF c + k >= MaxCharges THEN <<MaxCharges, now>>
                             ELSE <<c + k, u + k * Recover>>
    BY DEF Recovered
<1> HIDE DEF k
<1>4. Recover * (c + k) = Recover * c + Recover * k /\ k * Recover = Recover * k
    BY <1>1, <1>2
<1>5. CASE c + k >= MaxCharges
    <2>1. ASSUME c < MaxCharges
          PROVE  u <= now /\ Recover * MaxCharges - now <= Recover * c - u
        <3>1. k > 0 /\ u + Recover * k <= now
            BY <1>1, <1>2, <1>5, <2>1
        <3>2. Recover * MaxCharges <= Recover * (c + k)
            BY <1>1, <1>2, <1>5
        <3>3. Recover * c \in Nat /\ Recover * MaxCharges \in Nat
            BY <1>1
        <3> QED
            BY <1>2, <1>4, <3>1, <3>2, <3>3
    <2> QED
        BY <1>1, <1>3, <1>5, <2>1
<1>6. CASE c + k < MaxCharges
    <2>1. Recover * c \in Nat
        BY <1>1
    <2>2. /\ Recovered(c, u, now)[1] = c + k
          /\ Recovered(c, u, now)[2] = u + Recover * k
        BY <1>1, <1>2, <1>3, <1>4, <1>6
    <2> QED
        BY <1>1, <1>2, <1>4, <1>6, <2>1, <2>2
<1> QED
    BY <1>1, <1>2, <1>5, <1>6

(* The grants among those numbered i to j. *)
Given(g, i, j) == Cardinality({n \in i .. j : g[n].allowed})

LEMMA GivenTyped ==
    ASSUME NEW g \in Seq(Grant), NEW i \in Nat, NEW j \in Nat
    PROVE  Given(g, i, j) \in Nat
<1>1. IsFiniteSet(i .. j)
    BY FS_Interval
<1>2. IsFiniteSet({n \in i .. j : g[n].allowed})
    BY <1>1, FS_Subset
<1> QED
    BY <1>2, FS_CardinalityType DEF Given

LEMMA GivenAppend ==
    ASSUME NEW g \in Seq(Grant), NEW e \in Grant, NEW i \in 1 .. Len(g) + 1
    PROVE  /\ Given(Append(g, e), i, Len(g) + 1)
                = Given(g, i, Len(g)) + IF e.allowed THEN 1 ELSE 0
           /\ \A j \in 0 .. Len(g) : Given(Append(g, e), i, j) = Given(g, i, j)
           /\ Given(g, Len(g) + 1, Len(g)) = 0
<1> DEFINE L == Len(g)
           h == Append(g, e)
           S == {n \in i .. L : g[n].allowed}
<1>1. L \in Nat /\ h[L + 1] = e /\ \A n \in 1 .. L : h[n] = g[n]
    OBVIOUS
<1> HIDE DEF h, L
<1>2. IsFiniteSet(i .. L)
    BY <1>1, FS_Interval
<1>3. IsFiniteSet(S) /\ L + 1 \notin S
    BY <1>1, <1>2, FS_Subset
<1>4. /\ e.allowed => {n \in i .. L + 1 : h[n].allowed} = S \cup {L + 1}
      /\ ~e.allowed => {n \in i .. L + 1 : h[n].allowed} = S
    BY <1>1 DEF L
<1>5. Cardinality(S) \in Nat /\ Cardinality(S \cup {L + 1}) = Cardinality(S) + 1
    BY <1>3, FS_AddElement, FS_CardinalityType
<1>6. Given(h, i, L + 1) = Given(g, i, L) + IF e.allowed THEN 1 ELSE 0
    <2>1. Given(g, i, L) = Cardinality(S)
        BY DEF Given
    <2>2. CASE e.allowed
        <3>1. Given(h, i, L + 1) = Cardinality(S \cup {L + 1})
            BY <1>4, <2>2 DEF Given
        <3> QED
            BY <1>5, <2>1, <2>2, <3>1
    <2>3. CASE ~e.allowed
        <3>1. Given(h, i, L + 1) = Cardinality(S)
            BY <1>4, <2>3 DEF Given
        <3> QED
            BY <1>5, <2>1, <2>3, <3>1
    <2> QED
        BY <2>2, <2>3
<1>7. ASSUME NEW j \in 0 .. L
      PROVE  Given(h, i, j) = Given(g, i, j)
    <2>1. {n \in i .. j : h[n].allowed} = {n \in i .. j : g[n].allowed}
        BY <1>1 DEF L
    <2> QED
        BY <2>1 DEF Given
<1>8. Given(g, L + 1, L) = 0
    <2>1. {n \in L + 1 .. L : g[n].allowed} = {}
        BY <1>1
    <2> QED
        BY <2>1, FS_EmptySet DEF Given
<1> QED
    BY <1>6, <1>7, <1>8 DEF h, L

(* What a sequence of roasts g has left: c charges, u their time.  Of any    *)
(* end of the sequence, the grants and what is left are bounded by a full    *)
(* bucket and the time that was counted; of the part since the bucket was    *)
(* last full, they make exactly that.                                        *)
Bounded(g, i, c, u) ==
    /\ \E m \in i .. Len(g) :
          Recover * Given(g, i, Len(g)) + Recover * c - u <= Recover * MaxCharges - g[m].now
    /\ \/ Given(g, i, Len(g)) + c <= MaxCharges
       \/ \E n \in i .. Len(g) : u <= g[n].now

Reached(g, i, c, u) ==
    /\ Recover * Given(g, i, Len(g)) + Recover * c - u = Recover * MaxCharges - g[i].now
    /\ g[i].now <= u

Balanced(g, c, u) ==
    /\ \A i \in 1 .. Len(g) : Bounded(g, i, c, u)
    /\ \E i \in 1 .. Len(g) : Reached(g, i, c, u)

(* A roast at a time takes charges c, u to d, v; a is what it was granted.   *)
Continues(a, c, u, d, v, now) ==
    /\ a \in {0, 1} /\ Recover * d + Recover * a - v = Recover * c - u
    /\ u <= v /\ now < v + Recover /\ d + a < MaxCharges
    /\ (v = u /\ d + a = c) \/ v <= now

(* A roast that finds the bucket full is the last from which it counts.      *)
LEMMA RefillBalanced ==
    ASSUME NEW g \in Seq(Grant), NEW e \in Grant, e.allowed, NEW d \in Nat, d = MaxCharges - 1,
           \/ g = <<>>
           \/ \E c \in 0 .. MaxCharges - 1, u \in Nat :
                 Balanced(g, c, u) /\ Recover * MaxCharges - e.now <= Recover * c - u
    PROVE  Balanced(Append(g, e), d, e.now)
<1> DEFINE L == Len(g)
           h == Append(g, e)
<1>1. /\ Recover \in Nat \ {0} /\ MaxCharges \in Nat /\ L \in Nat /\ e.now \in Nat
      /\ Len(h) = L + 1 /\ h \in Seq(Grant) /\ h[L + 1] = e /\ \A n \in 1 .. L : h[n] = g[n]
    BY ServiceAssumption DEF Grant
<1>2. \A i \in 1 .. L + 1 : Given(h, i, L + 1) = Given(g, i, L) + 1
    BY GivenAppend
<1>3. Given(g, L + 1, L) = 0
    <2>1. L + 1 \in 1 .. L + 1
        BY <1>1
    <2> QED
        BY <2>1, GivenAppend
<1>4. \A i \in 1 .. L + 1 : Given(g, i, L) \in Nat
    BY <1>1, GivenTyped
<1> HIDE DEF h, L
<1>5. Recover * d = Recover * MaxCharges - Recover
    BY <1>1
<1>6. ASSUME NEW i \in 1 .. L + 1
      PROVE  Bounded(h, i, d, e.now)
    <2>1. L + 1 \in i .. L + 1
        BY <1>1
    <2>2. \E m \in i .. L + 1 :
             Recover * (Given(g, i, L) + 1) + Recover * d - e.now <= Recover * MaxCharges - h[m].now
        <3>1. Recover * (Given(g, i, L) + 1) = Recover * Given(g, i, L) + Recover
            BY <1>1, <1>4
        <3>2. CASE i = L + 1
            <4>1. Recover * Given(g, i, L) = 0
                BY <1>1, <1>3, <3>2
            <4> QED
                BY <1>1, <1>5, <2>1, <3>1, <4>1
        <3>3. CASE i # L + 1
            <4>1. i \in 1 .. L /\ g # <<>>
                BY <1>1, <3>3 DEF L
            <4>2. PICK c \in 0 .. MaxCharges - 1, u \in Nat :
                     Balanced(g, c, u) /\ Recover * MaxCharges - e.now <= Recover * c - u
                BY <4>1
            <4>3. PICK m \in i .. L :
                     Recover * Given(g, i, L) + Recover * c - u <= Recover * MaxCharges - g[m].now
                BY <4>1, <4>2 DEF Balanced, Bounded, L
            <4>4. m \in 1 .. L /\ m \in i .. L + 1
                <5>1. i \in Nat /\ i >= 1 /\ L \in Nat
                    BY <1>1, <4>1
                <5>2. m \in Int /\ i <= m /\ m <= L
                    BY <5>1
                <5> QED
                    BY <5>1, <5>2
            <4>5. h[m] = g[m] /\ g[m].now \in Nat
                <5>1. g[m] \in Grant
                    BY <4>4 DEF L
                <5> QED
                    BY <1>1, <4>4, <5>1 DEF Grant
            <4>6. PICK x \in Nat, y \in Nat, z \in Nat, t \in Nat, n \in Nat :
                     /\ x = Recover * Given(g, i, L) /\ y = Recover * c /\ z = Recover * MaxCharges
                     /\ t = g[m].now /\ n = e.now
                <5>1. /\ Recover * Given(g, i, L) \in Nat /\ Recover * c \in Nat
                      /\ Recover * MaxCharges \in Nat
                    BY <1>1, <1>4
                <5> QED
                    BY <1>1, <4>5, <5>1
            <4>7. x + y - u <= z - t /\ z - n <= y - u
                BY <4>2, <4>3, <4>6
            <4>8. x + Recover + (z - Recover) - n <= z - t
                BY <1>1, <4>2, <4>7
            <4> QED
                BY <1>5, <3>1, <4>4, <4>5, <4>6, <4>8
        <3> QED
            BY <3>2, <3>3
    <2>3. e.now <= h[L + 1].now
        BY <1>1
    <2> QED
        BY <1>1, <1>2, <2>1, <2>2, <2>3 DEF Bounded
<1>7. L + 1 \in 1 .. L + 1 /\ Reached(h, L + 1, d, e.now)
    <2>1. L + 1 \in 1 .. L + 1 /\ Given(h, L + 1, L + 1) = 1 /\ Recover * 1 = Recover
        BY <1>1, <1>2, <1>3
    <2>2. Recover * MaxCharges \in Nat
        BY <1>1
    <2> QED
        BY <1>1, <1>5, <2>1, <2>2 DEF Reached
<1> QED
    BY <1>1, <1>6, <1>7 DEF Balanced, h

LEMMA TimesNat ==
    ASSUME NEW m \in Nat, NEW n \in Nat
    PROVE  m * n \in Nat
OBVIOUS

(* A roast that does not leaves the balance of the others as it is. *)
LEMMA ContinueBalanced ==
    ASSUME NEW g \in Seq(Grant), NEW c \in 0 .. MaxCharges - 1, NEW u \in Nat, Balanced(g, c, u),
           NEW e \in Grant, NEW a \in Nat, a = IF e.allowed THEN 1 ELSE 0,
           NEW d \in Nat, NEW v \in Nat, Continues(a, c, u, d, v, e.now)
    PROVE  Balanced(Append(g, e), d, v)
<1> DEFINE L == Len(g)
           h == Append(g, e)
<1>1. /\ Recover \in Nat \ {0} /\ MaxCharges \in Nat /\ L \in Nat /\ e.now \in Nat
      /\ Len(h) = L + 1 /\ h \in Seq(Grant) /\ h[L + 1] = e /\ \A n \in 1 .. L : h[n] = g[n]
    BY ServiceAssumption DEF Grant
<1>2. \A i \in 1 .. L + 1 : Given(h, i, L + 1) = Given(g, i, L) + a
    BY GivenAppend
<1>3. Given(g, L + 1, L) = 0
    <2>1. L + 1 \in 1 .. L + 1
        BY <1>1
    <2> QED
        BY <2>1, GivenAppend
<1>4. \A i \in 1 .. L + 1 : Given(g, i, L) \in Nat
    BY <1>1, GivenTyped
<1>5. \A m \in 1 .. L : g[m].now \in Nat
    <2>1. \A m \in 1 .. L : g[m] \in Grant
        OBVIOUS
    <2> QED
        BY <2>1 DEF Grant
<1> HIDE DEF h, L
<1>6. /\ a \in {0, 1} /\ Recover * d + Recover * a - v = Recover * c - u
      /\ u <= v /\ e.now < v + Recover /\ d + a < MaxCharges
      /\ (v = u /\ d + a = c) \/ v <= e.now
    BY DEF Continues
<1>7. PICK rd \in Nat, ra \in Nat, rc \in Nat, rm \in Nat :
         rd = Recover * d /\ ra = Recover * a /\ rc = Recover * c /\ rm = Recover * MaxCharges
    <2>1. /\ Recover * d \in Nat /\ Recover * a \in Nat /\ Recover * c \in Nat
          /\ Recover * MaxCharges \in Nat
        <3>1. Recover \in Nat /\ c \in Nat /\ MaxCharges \in Nat
            BY <1>1
        <3> QED
            BY <3>1, TimesNat
    <2> QED
        BY <2>1
<1>8. rd + ra - v = rc - u
    BY <1>6, <1>7
<1>9. \A i \in 1 .. L + 1 : /\ Recover * Given(g, i, L) \in Nat
                            /\ Recover * (Given(g, i, L) + a) = Recover * Given(g, i, L) + ra
    BY <1>1, <1>4, <1>7
<1>10. ASSUME NEW i \in 1 .. L + 1
       PROVE  Bounded(h, i, d, v)
    <2> DEFINE x == Recover * Given(g, i, L)
    <2>1. x \in Nat /\ Recover * Given(h, i, L + 1) = x + ra /\ i \in Nat /\ L + 1 \in i .. L + 1
        BY <1>1, <1>2, <1>9
    <2>2. \E m \in i .. L + 1 : x + ra + rd - v <= rm - h[m].now
        <3>1. CASE i = L + 1
            <4>1. x = 0
                BY <1>1, <1>3, <3>1
            <4>2. rd + ra <= rm - Recover
                <5>1. Recover * (d + a) <= Recover * (MaxCharges - 1)
                    BY <1>1, <1>6
                <5>2. Recover * (d + a) = rd + ra /\ Recover * (MaxCharges - 1) = rm - Recover
                    BY <1>1, <1>7
                <5> QED
                    BY <5>1, <5>2
            <4> HIDE DEF x
            <4>3. x + ra + rd - v <= rm - e.now
                BY <1>1, <1>6, <4>1, <4>2
            <4> QED
                BY <1>1, <2>1, <4>3
        <3>2. CASE i # L + 1
            <4>1. i \in 1 .. L
                BY <1>1, <3>2
            <4>2. PICK m \in i .. L : x + rc - u <= rm - g[m].now
                BY <1>7, <4>1 DEF Balanced, Bounded, L
            <4> HIDE DEF x
            <4>3. m \in 1 .. L /\ m \in i .. L + 1
                BY <1>1, <4>1
            <4>4. x + ra + rd - v <= rm - g[m].now
                BY <1>5, <1>8, <2>1, <4>2, <4>3
            <4> QED
                BY <1>1, <4>3, <4>4
        <3> QED
            BY <3>1, <3>2
    <2> HIDE DEF x
    <2>3. \/ Given(g, i, L) + a + d <= MaxCharges
          \/ \E n \in i .. L + 1 : v <= h[n].now
        <3>1. CASE v <= e.now
            BY <1>1, <2>1, <3>1
        <3>2. CASE v = u /\ d + a = c /\ i = L + 1
            BY <1>1, <1>3, <1>6, <3>2
        <3>3. CASE v = u /\ d + a = c /\ i # L + 1
            <4>1. i \in 1 .. L
                BY <1>1, <3>3
            <4>2. CASE Given(g, i, L) + c <= MaxCharges
                BY <1>1, <1>4, <3>3, <4>2
            <4>3. CASE \E n \in i .. L : u <= g[n].now
                <5>1. PICK n \in i .. L : u <= g[n].now
                    BY <4>3
                <5>2. n \in 1 .. L /\ n \in i .. L + 1
                    BY <1>1, <4>1
                <5> QED
                    BY <1>1, <3>3, <5>1, <5>2
            <4> QED
                BY <4>1, <4>2, <4>3 DEF Balanced, Bounded, L
        <3> QED
            BY <1>6, <3>1, <3>2, <3>3
    <2>4. Given(h, i, L + 1) + d = Given(g, i, L) + a + d
        BY <1>2, <1>4
    <2>5. /\ \E m \in i .. L + 1 : Recover * Given(h, i, L + 1) + Recover * d - v <= Recover * MaxCharges - h[m].now
          /\ \/ Given(h, i, L + 1) + d <= MaxCharges
             \/ \E n \in i .. L + 1 : v <= h[n].now
        BY <1>7, <2>1, <2>2, <2>3, <2>4
    <2> QED
        BY <1>1, <2>5 DEF Bounded
<1>11. PICK i \in 1 .. L : Reached(g, i, c, u)
    BY DEF Balanced, L
<1>12. i \in 1 .. L + 1 /\ Reached(h, i, d, v)
    <2> DEFINE x == Recover * Given(g, i, L)
    <2>1. x + rc - u = rm - g[i].now /\ g[i].now <= u
        BY <1>7, <1>11 DEF Reached, L
    <2>2. i \in 1 .. L + 1
        BY <1>1
    <2>3. x \in Nat /\ Recover * Given(h, i, L + 1) = x + ra /\ h[i] = g[i] /\ g[i].now \in Nat
        BY <1>1, <1>2, <1>5, <1>9, <2>2
    <2> HIDE DEF x
    <2>4. x + ra + rd - v = rm - h[i].now /\ h[i].now <= v
        <3>1. PICK t \in Nat : t = g[i].now
            BY <2>3
        <3>2. u <= v
            BY <1>6
        <3>3. x + rc - u = rm - t /\ t <= u
            BY <2>1, <3>1
        <3>4. x + ra + rd - v = rm - t /\ t <= v
            BY <1>8, <2>3, <3>2, <3>3
        <3> QED
            BY <2>3, <3>1, <3>4
    <2> QED
        BY <1>1, <1>7, <2>2, <2>3, <2>4 DEF Reached
<1> QED
    BY <1>1, <1>10, <1>12 DEF Balanced, h

LEMMA Cancel ==
    ASSUME NEW r \in Nat \ {0}, NEW m \in Int, NEW n \in Int, r * m <= r * n
    PROVE  m <= n
OBVIOUS

(* What was earned in a time. *)
LEMMA EarnedAtLeast ==
    ASSUME NEW n \in Nat, NEW t \in Int, Recover * n <= Recover * MaxCharges + t
    PROVE  n <= Earned(t)
<1>1. Recover \in Nat \ {0} /\ MaxCharges \in Nat
    BY ServiceAssumption
<1>2. PICK k \in Int : k = n - MaxCharges
    BY <1>1
<1>3. Recover * k = Recover * n - Recover * MaxCharges
    BY <1>1, <1>2
<1>4. Recover * k <= t
    <2>1. Recover * n \in Int /\ Recover * MaxCharges \in Int
        BY <1>1
    <2> QED
        BY <1>3, <2>1
<1>5. CASE t > 0
    <2>1. k <= t \div Recover
        BY <1>1, <1>4
    <2>2. t \div Recover \in Int
        BY <1>1
    <2> QED
        BY <1>1, <1>2, <1>5, <2>1, <2>2 DEF Earned
<1>6. CASE ~(t > 0)
    <2>1. k <= 0
        BY <1>1, <1>4, <1>6
    <2> QED
        BY <1>1, <1>2, <1>6, <2>1 DEF Earned
<1> QED
    BY <1>5, <1>6

LEMMA EarnedAtMost ==
    ASSUME NEW n \in Nat, NEW t \in Int, n >= MaxCharges, Recover * MaxCharges + t < Recover * n + Recover
    PROVE  n >= Earned(t)
<1>1. Recover \in Nat \ {0} /\ MaxCharges \in Nat
    BY ServiceAssumption
<1>2. PICK k \in Int : k = n - MaxCharges
    BY <1>1
<1>3. Recover * k = Recover * n - Recover * MaxCharges
    BY <1>1, <1>2
<1>4. t < Recover * k + Recover
    <2>1. Recover * n \in Int /\ Recover * MaxCharges \in Int
        BY <1>1
    <2> QED
        BY <1>1, <1>3, <2>1
<1>5. CASE t > 0
    <2>1. t \div Recover <= k
        BY <1>1, <1>4
    <2>2. t \div Recover \in Int
        BY <1>1
    <2> QED
        BY <1>1, <1>2, <1>5, <2>1, <2>2 DEF Earned
<1>6. CASE ~(t > 0)
    BY <1>1, <1>6 DEF Earned
<1> QED
    BY <1>5, <1>6

(* What BucketIsExact says of the roasts up to the j-th. *)
Exact(g, j) ==
    /\ \A i \in 1 .. j : \E m, n \in i .. j : Given(g, i, j) <= Earned(g[n].now - g[m].now)
    /\ ~g[j].allowed => \E i \in 1 .. j : Given(g, i, j) >= Earned(g[j].now - g[i].now)

(* A balanced sequence is exact: a part that counted no time gave no more    *)
(* than a full bucket, another no more than that and the time it counted.    *)
LEMMA LastExact ==
    ASSUME NEW g \in Seq(Grant), NEW c \in 0 .. MaxCharges - 1, NEW u \in Nat, Balanced(g, c, u),
           ~g[Len(g)].allowed => c = 0 /\ g[Len(g)].now < u + Recover
    PROVE  Exact(g, Len(g))
<1> DEFINE L == Len(g)
<1>1. Recover \in Nat \ {0} /\ MaxCharges \in Nat /\ L \in Nat /\ c \in Nat
    BY ServiceAssumption
<1>2. \A m \in 1 .. L : g[m].now \in Nat
    <2>1. \A m \in 1 .. L : g[m] \in Grant
        OBVIOUS
    <2> QED
        BY <2>1 DEF Grant
<1>3. \A i \in 1 .. L : Given(g, i, L) \in Nat
    BY <1>1, GivenTyped
<1> HIDE DEF L
<1>4. PICK rc \in Nat, rm \in Nat : rc = Recover * c /\ rm = Recover * MaxCharges
    BY <1>1, TimesNat
<1>5. \A i \in 1 .. L : Recover * Given(g, i, L) \in Nat
    BY <1>1, <1>3, TimesNat
<1>6. ASSUME NEW i \in 1 .. L
      PROVE  \E m, n \in i .. L : Given(g, i, L) <= Earned(g[n].now - g[m].now)
    <2>1. Bounded(g, i, c, u)
        BY DEF Balanced, L
    <2>2. i .. L \subseteq 1 .. L /\ i \in i .. L
        BY <1>1
    <2>3. CASE Given(g, i, L) + c <= MaxCharges
        <3>1. Given(g, i, L) <= MaxCharges
            BY <1>1, <1>3, <2>3
        <3>2. g[i].now - g[i].now = 0
            BY <1>2
        <3>3. Given(g, i, L) <= Earned(g[i].now - g[i].now)
            BY <3>1, <3>2, <1>1 DEF Earned
        <3> QED
            BY <2>2, <3>3
    <2>4. CASE \E n \in i .. L : u <= g[n].now
        <3>1. PICK n \in i .. L : u <= g[n].now
            BY <2>4
        <3>2. PICK m \in i .. L : Recover * Given(g, i, L) + rc - u <= rm - g[m].now
            BY <1>4, <2>1 DEF Bounded, L
        <3>3. PICK x \in Nat, tn \in Nat, tm \in Nat :
                 x = Recover * Given(g, i, L) /\ tn = g[n].now /\ tm = g[m].now
            BY <1>2, <1>5, <2>2
        <3>4. x <= rm + (tn - tm)
            <4>1. x + rc - u <= rm - tm
                BY <3>2, <3>3
            <4>2. u <= tn
                BY <3>1, <3>3
            <4> QED
                BY <4>1, <4>2
        <3>5. PICK n0 \in Nat : n0 = Given(g, i, L)
            BY <1>3
        <3>6. Recover * n0 <= Recover * MaxCharges + (tn - tm) /\ tn - tm \in Int
            <4>1. Recover * n0 = x /\ Recover * MaxCharges = rm
                BY <1>4, <3>3, <3>5
            <4>2. tn - tm \in Int
                OBVIOUS
            <4> QED
                BY <3>4, <4>1, <4>2
        <3>7. n0 <= Earned(tn - tm)
            BY <3>6, EarnedAtLeast
        <3> QED
            BY <3>3, <3>5, <3>7
    <2> QED
        BY <2>1, <2>3, <2>4 DEF Bounded, L
<1>7. ASSUME ~g[L].allowed
      PROVE  \E i \in 1 .. L : Given(g, i, L) >= Earned(g[L].now - g[i].now)
    <2>1. c = 0 /\ g[L].now < u + Recover
        BY <1>7 DEF L
    <2>2. PICK i \in 1 .. L : Reached(g, i, c, u)
        BY DEF Balanced, L
    <2>3. L \in 1 .. L
        BY <1>1
    <2>4. PICK x \in Nat, tl \in Nat, ti \in Nat :
             x = Recover * Given(g, i, L) /\ tl = g[L].now /\ ti = g[i].now
        BY <1>2, <1>5, <2>3
    <2>5. rc = 0
        BY <1>1, <1>4, <2>1
    <2>6. x = rm + u - ti /\ ti <= u
        <3>1. x + rc - u = rm - ti /\ ti <= u
            BY <1>4, <2>2, <2>4 DEF Reached, L
        <3> QED
            BY <2>5, <3>1
    <2>7. tl < u + Recover
        BY <2>1, <2>4
    <2>8. PICK n \in Nat : n = Given(g, i, L)
        BY <1>3
    <2>9. n >= MaxCharges
        <3>1. Recover * MaxCharges <= Recover * n
            BY <1>4, <2>4, <2>6, <2>8
        <3> QED
            BY <1>1, <3>1, Cancel
    <2>10. Recover * MaxCharges + (tl - ti) < Recover * n + Recover /\ tl - ti \in Int
        <3>1. rm + (tl - ti) < x + Recover
            BY <1>1, <2>6, <2>7
        <3> QED
            BY <1>4, <2>4, <2>8, <3>1
    <2>11. n >= Earned(tl - ti)
        BY <2>9, <2>10, EarnedAtMost
    <2> QED
        BY <2>4, <2>8, <2>11
<1> QED
    BY <1>6, <1>7 DEF Exact, L

LEMMA ExactStays ==
    ASSUME NEW g \in Seq(Grant), NEW e \in Grant, NEW j \in 1 .. Len(g), Exact(g, j)
    PROVE  Exact(Append(g, e), j)
<1> DEFINE h == Append(g, e)
<1>1. \A n \in 1 .. j : h[n] = g[n]
    OBVIOUS
<1>2. \A i \in 1 .. j : Given(h, i, j) = Given(g, i, j)
    <2>1. \A i \in 1 .. j : i \in 1 .. Len(g) + 1
        OBVIOUS
    <2>2. j \in 0 .. Len(g)
        OBVIOUS
    <2> QED
        BY <2>1, <2>2, GivenAppend
<1> HIDE DEF h
<1>3. \A i \in 1 .. j : i .. j \subseteq 1 .. j /\ j \in 1 .. j
    OBVIOUS
<1>4. Exact(h, j)
    <2>1. ASSUME NEW i \in 1 .. j
          PROVE  \E m, n \in i .. j : Given(h, i, j) <= Earned(h[n].now - h[m].now)
        <3>1. PICK m, n \in i .. j : Given(g, i, j) <= Earned(g[n].now - g[m].now)
            BY DEF Exact
        <3>2. m \in 1 .. j /\ n \in 1 .. j
            BY <1>3
        <3> QED
            BY <1>1, <1>2, <3>1, <3>2
    <2>2. ASSUME ~h[j].allowed
          PROVE  \E i \in 1 .. j : Given(h, i, j) >= Earned(h[j].now - h[i].now)
        <3>1. h[j] = g[j]
            BY <1>1, <1>3
        <3>2. PICK i \in 1 .. j : Given(g, i, j) >= Earned(g[j].now - g[i].now)
            BY <2>2, <3>1 DEF Exact
        <3> QED
            BY <1>1, <1>2, <3>1, <3>2
    <2> QED
        BY <2>1, <2>2 DEF Exact
<1> QED
    BY <1>4 DEF h

LEMMA ExactForm ==
    BucketIsExact <=> \A j \in DOMAIN grants : Exact(grants, j)
BY DEF BucketIsExact, Exact, Allowed, Given

(* Before the first roast there is no row or one that a forced roast made;   *)
(* then the charges are what the roasts have left.                           *)
Metered ==
    /\ grants = <<>> => ~usage.there \/ usage.charges < 0
    /\ grants # <<>> => /\ usage.there /\ usage.charges \in 0 .. MaxCharges - 1
                        /\ Balanced(grants, usage.charges, usage.updated)
    /\ BucketIsExact

LEMMA MeteredStays ==
    ASSUME Metered, usage' = usage, grants' = grants
    PROVE  Metered'
BY DEF Metered, BucketIsExact, Allowed

(* The decision about a roast. *)
LEMMA RoastDecides ==
    ASSUME Types, NEW w \in Worker, Roast(w), NEW now \in Nat, now = job[w].now,
           NEW b \in 0 .. MaxCharges, NEW v \in Nat, Bucket(now)[1] = b, Bucket(now)[2] = v
    PROVE  \E e \in Grant :
              /\ grants' = Append(grants, e) /\ e.now = now /\ (e.allowed <=> b > 0)
              /\ usage' \in Usage /\ usage'.there
              /\ usage'.charges = IF e.allowed THEN b - 1 ELSE b
              /\ usage'.updated = IF b = MaxCharges THEN now ELSE v
<1>1. MaxCharges \in Nat \ {0} /\ usage \in Usage
    BY ServiceAssumption DEF Types, TypeOK, Usage
<1> DEFINE allowed == b > 0
           d == IF allowed THEN b - 1 ELSE b
           t == IF allowed /\ b >= MaxCharges THEN now ELSE v
<1>2. PICK e \in Grant : e = [now |-> now, allowed |-> allowed]
    <2>1. allowed \in BOOLEAN
        OBVIOUS
    <2> HIDE DEF allowed
    <2> QED
        BY <2>1 DEF Grant
<1>3. d \in -1 .. MaxCharges /\ t \in Nat /\ t = IF b = MaxCharges THEN now ELSE v
    BY <1>1
<1>4. /\ usage' = [usage EXCEPT !.there = TRUE, !.charges = d, !.updated = t]
      /\ grants' = Append(grants, [now |-> now, allowed |-> allowed])
    BY DEF Roast, Spent
<1>5. (e.allowed <=> allowed) /\ e.now = now
    BY <1>2
<1> HIDE DEF d, t
<1>6. usage' \in Usage /\ usage'.there /\ usage'.charges = d /\ usage'.updated = t
    BY <1>1, <1>3, <1>4 DEF Usage
<1> QED
    BY <1>2, <1>3, <1>4, <1>5, <1>6 DEF d

LEMMA RoastMetered ==
    ASSUME Types, Metered, NEW w \in Worker, Roast(w)
    PROVE  Metered' /\ usage' \in Usage /\ grants' \in Seq(Grant)
<1>1. PICK now \in Nat : now = job[w].now
    BY Typed DEF Request
<1>2. /\ MaxCharges \in Nat \ {0} /\ Recover \in Nat \ {0}
      /\ grants \in Seq(Grant) /\ usage \in Usage
    BY ServiceAssumption DEF Types, TypeOK, Usage
<1>3. \/ /\ Bucket(now)[1] = MaxCharges /\ Bucket(now)[2] = now /\ grants = <<>>
      \/ /\ grants # <<>> /\ usage.there /\ usage.charges \in 0 .. MaxCharges - 1
         /\ Bucket(now) = Recovered(usage.charges, usage.updated, now)
    BY <1>2 DEF Bucket, Metered, Usage
<1>4. ASSUME NEW e \in Grant, grants' = Append(grants, e), e.now = now, usage' \in Usage, usage'.there,
             usage'.charges \in 0 .. MaxCharges - 1,
             Balanced(grants', usage'.charges, usage'.updated),
             ~e.allowed => usage'.charges = 0 /\ now < usage'.updated + Recover
      PROVE  Metered' /\ usage' \in Usage /\ grants' \in Seq(Grant)
    <2> DEFINE L == Len(grants)
    <2>1. /\ grants' \in Seq(Grant) /\ Len(grants') = L + 1 /\ grants'[L + 1] = e /\ L \in Nat
          /\ grants' # <<>>
        BY <1>2, <1>4
    <2>2. PICK c \in 0 .. MaxCharges - 1, u \in Nat : c = usage'.charges /\ u = usage'.updated
        BY <1>4 DEF Usage
    <2>3. Exact(grants', L + 1)
        BY <1>4, <2>1, <2>2, LastExact
    <2>4. \A j \in 1 .. L : Exact(grants', j)
        BY <1>2, <1>4, ExactStays, ExactForm DEF Metered
    <2>5. \A j \in DOMAIN grants' : Exact(grants', j)
        BY <2>1, <2>3, <2>4
    <2>6. BucketIsExact'
        BY <2>5 DEF BucketIsExact, Exact, Allowed, Given
    <2> QED
        BY <1>4, <2>1, <2>6 DEF Metered
<1>5. CASE Bucket(now)[1] = MaxCharges /\ Bucket(now)[2] = now /\ grants = <<>>
    <2>1. PICK e \in Grant :
              /\ grants' = Append(grants, e) /\ e.now = now /\ e.allowed
              /\ usage' \in Usage /\ usage'.there
              /\ usage'.charges = MaxCharges - 1 /\ usage'.updated = now
        BY <1>1, <1>2, <1>5, RoastDecides
    <2>2. PICK d \in Nat : d = MaxCharges - 1
        BY <1>2
    <2>3. Balanced(grants', d, now)
        BY <1>2, <1>5, <2>1, <2>2, RefillBalanced
    <2>4. d \in 0 .. MaxCharges - 1
        BY <1>2, <2>2
    <2> QED
        BY <1>4, <2>1, <2>2, <2>3, <2>4
<1>6. CASE /\ grants # <<>> /\ usage.there /\ usage.charges \in 0 .. MaxCharges - 1
           /\ Bucket(now) = Recovered(usage.charges, usage.updated, now)
    <2>1. PICK c \in 0 .. MaxCharges - 1, u \in Nat :
             c = usage.charges /\ u = usage.updated /\ Balanced(grants, c, u)
        BY <1>2, <1>6 DEF Usage, Metered
    <2>2. c \in 0 .. MaxCharges /\ c < MaxCharges
        BY <1>2
    <2>3. PICK b \in 0 .. MaxCharges, v \in Nat :
             /\ Bucket(now)[1] = b /\ Bucket(now)[2] = v
             /\ \/ /\ b = MaxCharges /\ v = now
                   /\ u <= now /\ Recover * MaxCharges - now <= Recover * c - u
                \/ /\ b < MaxCharges /\ Recover * b - v = Recover * c - u
                   /\ u <= v /\ now < v + Recover
                   /\ (v = u /\ b = c) \/ v <= now
        <3>1. PICK b, v : b = Recovered(c, u, now)[1] /\ v = Recovered(c, u, now)[2]
            OBVIOUS
        <3>2. /\ b \in 0 .. MaxCharges /\ v \in Nat
              /\ \/ /\ b = MaxCharges /\ v = now
                    /\ c < MaxCharges => u <= now /\ Recover * MaxCharges - now <= Recover * c - u
                 \/ /\ b < MaxCharges /\ Recover * b - v = Recover * c - u
                    /\ u <= v /\ now < v + Recover
                    /\ (v = u /\ b = c) \/ v <= now
            BY <2>2, <3>1, RecoveredExact
        <3>3. Bucket(now)[1] = b /\ Bucket(now)[2] = v
            BY <1>6, <2>1, <3>1
        <3> QED
            BY <2>2, <3>2, <3>3
    <2>4. PICK e \in Grant :
              /\ grants' = Append(grants, e) /\ e.now = now /\ (e.allowed <=> b > 0)
              /\ usage' \in Usage /\ usage'.there
              /\ usage'.charges = IF e.allowed THEN b - 1 ELSE b
              /\ usage'.updated = IF b = MaxCharges THEN now ELSE v
        BY <1>1, <2>3, RoastDecides
    <2>5. CASE /\ b = MaxCharges /\ v = now
               /\ u <= now /\ Recover * MaxCharges - now <= Recover * c - u
        <3>1. e.allowed /\ usage'.charges = MaxCharges - 1 /\ usage'.updated = now
            BY <1>2, <2>4, <2>5
        <3>2. PICK d \in Nat : d = MaxCharges - 1
            BY <1>2
        <3>3. Balanced(grants', d, now)
            BY <1>2, <2>1, <2>4, <2>5, <3>1, <3>2, RefillBalanced
        <3>4. d \in 0 .. MaxCharges - 1
            BY <1>2, <3>2
        <3> QED
            BY <1>4, <2>4, <3>1, <3>2, <3>3, <3>4
    <2>6. CASE /\ b < MaxCharges /\ Recover * b - v = Recover * c - u
               /\ u <= v /\ now < v + Recover
               /\ (v = u /\ b = c) \/ v <= now
        <3>1. PICK a \in Nat, d \in Nat :
                 /\ a = IF e.allowed THEN 1 ELSE 0
                 /\ d = usage'.charges /\ d + a = b /\ a \in {0, 1} /\ d \in 0 .. MaxCharges - 1
            BY <2>4, <2>6, <1>2
        <3>2. usage'.updated = v
            BY <2>4, <2>6
        <3>3. Recover * d + Recover * a = Recover * b
            BY <1>2, <3>1
        <3>4. Continues(a, c, u, d, v, now)
            <4>1. Recover * d + Recover * a - v = Recover * c - u
                <5>1. PICK x \in Nat, y \in Nat, z \in Nat : x = Recover * d /\ y = Recover * a /\ z = Recover * b
                    BY <1>2, TimesNat
                <5>2. x + y = z /\ z - v = Recover * c - u
                    BY <2>6, <3>3, <5>1
                <5>3. x + y - v = z - v
                    BY <5>2
                <5> QED
                    BY <5>1, <5>2, <5>3
            <4>2. u <= v /\ now < v + Recover /\ ((v = u /\ b = c) \/ v <= now)
                BY <2>6
            <4>3. b < MaxCharges
                BY <2>6
            <4> QED
                BY <3>1, <4>1, <4>2, <4>3 DEF Continues
        <3>5. Balanced(grants', d, v)
            BY <1>2, <2>1, <2>4, <3>1, <3>4, ContinueBalanced
        <3>6. ~e.allowed => d = 0
            BY <2>4, <3>1
        <3> QED
            BY <1>4, <2>4, <2>6, <3>1, <3>2, <3>5, <3>6
    <2> QED
        BY <2>3, <2>5, <2>6
<1> QED
    BY <1>3, <1>5, <1>6

-----------------------------------------------------------------------------
(* The other steps *)

LEMMA TakeLockAccounts ==
    ASSUME Accounts, NEW w \in Worker, TakeLock(w)
    PROVE  Accounts'
<1>1. PICK j \in Request : j = job[w] /\ Shape(j)
    BY Typed DEF Accounts
<1>2. j.plan # <<>> /\ InTransaction(w)
    BY <1>1 DEF TakeLock
<1> DEFINE l == Head(j.plan)
           none == l = "usage" /\ ~usage.there
           plan == Tail(j.plan)
           absent == IF l = "usage" THEN none ELSE j.absent
           r == [at |-> j.at, kind |-> j.kind, now |-> j.now, tries |-> j.tries, plan |-> plan,
                 absent |-> absent, status |-> j.status]
<1>3. /\ l \in Lock /\ l = j.plan[1] /\ plan \in Seq(Lock)
      /\ Len(j.plan) \in Nat /\ Len(j.plan) > 0 /\ Len(plan) = Len(j.plan) - 1
      /\ \A i \in 1 .. Len(plan) : plan[i] = j.plan[i + 1]
    <2>1. j.plan \in Seq(Lock)
        BY DEF Request
    <2> QED
        BY <1>2, <2>1
<1>4. none \in BOOLEAN /\ absent \in BOOLEAN
    BY DEF Request
<1>5. /\ owner' = IF none THEN owner ELSE [owner EXCEPT ![l] = w]
      /\ job' = [job EXCEPT ![w].plan = Tail(@), ![w].absent = IF l = "usage" THEN none ELSE @]
      /\ UNCHANGED <<data, conn, bounds, history>>
    BY <1>1 DEF TakeLock
<1>6. r \in Request
    BY <1>3, <1>4 DEF Request
<1>7. job' = [job EXCEPT ![w] = r]
    <2>1. job \in [Worker -> Request]
        BY Typed DEF Accounts
    <2> HIDE DEF none
    <2>2. Tail(job[w].plan) = plan /\ (IF l = "usage" THEN none ELSE job[w].absent) = absent
        BY <1>1
    <2> HIDE DEF l, plan, absent
    <2>3. job' = [job EXCEPT ![w].plan = plan, ![w].absent = absent]
        BY <1>5, <2>1, <2>2
    <2>4. job' = [job EXCEPT ![w] = [[j EXCEPT !.plan = plan] EXCEPT !.absent = absent]]
        BY <1>1, <2>1, <2>3
    <2>5. [j EXCEPT !.plan = plan] \in Request
        BY <1>3 DEF Request, plan
    <2>6. PICK k \in Request : k = [j EXCEPT !.plan = plan]
        BY <2>5
    <2>7. /\ k.at = j.at /\ k.kind = j.kind /\ k.now = j.now /\ k.tries = j.tries /\ k.plan = plan
          /\ k.status = j.status
        BY <2>6 DEF Request
    <2>8. [k EXCEPT !.absent = absent]
            = [at |-> k.at, kind |-> k.kind, now |-> k.now, tries |-> k.tries, plan |-> k.plan,
               absent |-> absent, status |-> k.status]
        BY DEF Request
    <2>9. [k EXCEPT !.absent = absent] = r
        BY <2>7, <2>8
    <2> QED
        BY <2>4, <2>6, <2>9
<1>8. r.at = j.at /\ r.kind = j.kind /\ r.tries = j.tries /\ r.status = j.status /\ r.plan = plan /\ r.absent = absent
    OBVIOUS
<1>9. j.kind = "seen" => l # "usage" /\ \A i \in 1 .. Len(plan) : plan[i] # "usage"
    BY <1>1, <1>3 DEF Shape
<1>10. j.kind = "seen" => absent = j.absent
    BY <1>9
<1> HIDE DEF l, none, plan, absent, r
<1>11. Shape(r)
    BY <1>1, <1>8, <1>9 DEF Shape
<1>12. (r.at = "business" /\ r.kind = "seen" /\ ~r.absent => seen) /\ (Served(r) <=> Served(job[w]))
    BY <1>1, <1>8, <1>10 DEF Served, Accounts, Looked
<1>13. Owned'
    BY <1>3, <1>5 DEF Owned, Accounts, Types, TypeOK, bounds
<1> QED
    BY <1>5, <1>6, <1>7, <1>11, <1>12, <1>13, Keeps
    DEF data, bounds, history, Accounts, Types, TypeOK, Usage

(* The end of a handler that marks nothing. *)
LEMMA LeaveAccounts ==
    ASSUME Accounts, NEW w \in Worker, NEW s \in {"ok", "failed"}, Leave(w, s),
           job[w].at \in {"handler", "business"}, ~(job[w].kind = "seen" /\ s = "ok"),
           Owned', usage' \in Usage, clock' \in Nat, grants' \in Seq(Grant),
           UNCHANGED <<seen, counter, answered, lost, marks, pool>>
    PROVE  Accounts'
<1>1. PICK r \in Request : /\ job' = [job EXCEPT ![w] = r] /\ Shape(r) /\ r.at = "closing"
                           /\ Served(r) <=> job[w].kind = "seen" /\ s = "ok"
    BY LeaveTyped
<1>2. ~Served(job[w])
    BY DEF Accounts, Shape, Served
<1> QED
    BY <1>1, <1>2, Keeps

LEMMA SameTypes ==
    ASSUME Accounts
    PROVE  /\ UNCHANGED data => usage' \in Usage
           /\ UNCHANGED usage => usage' \in Usage
           /\ UNCHANGED clock => clock' \in Nat
           /\ UNCHANGED grants => grants' \in Seq(Grant)
BY DEF data, Accounts, Types, TypeOK, Usage

LEMMA RoastAccounts ==
    ASSUME Accounts, Metered, NEW w \in Worker, Roast(w)
    PROVE  Accounts' /\ Metered'
<1>1. Metered' /\ usage' \in Usage /\ grants' \in Seq(Grant)
    BY RoastMetered DEF Accounts
<1>2. /\ Leave(w, "ok") /\ End(w) /\ UNCHANGED <<seen, counter, bounds, answered, lost, marks>>
      /\ job[w].at = "business" /\ job[w].kind = "roast"
    BY DEF Roast, Ready
<1>3. Owned'
    BY <1>2, EndOwned DEF Accounts, bounds
<1> QED
    BY <1>1, <1>2, <1>3, SameTypes, LeaveAccounts DEF bounds

LEMMA ForceAccounts ==
    ASSUME Accounts, Metered, NEW w \in Worker, ForceUsage(w)
    PROVE  Accounts' /\ Metered'
<1>1. /\ Leave(w, "ok") /\ End(w) /\ UNCHANGED <<seen, counter, bounds, history>>
      /\ job[w].at = "business" /\ job[w].kind = "force"
    BY DEF ForceUsage, Ready
<1>2. Owned'
    BY <1>1, EndOwned DEF Accounts, bounds
<1>3. usage \in Usage /\ MaxCharges \in Nat
    BY ServiceAssumption DEF Accounts, Types, TypeOK, Usage
<1>4. PICK charges \in -1 .. MaxCharges : charges = IF usage.there THEN usage.charges ELSE -1
    BY <1>3 DEF Usage
<1>5. usage' = [usage EXCEPT !.there = TRUE, !.forced = TRUE, !.charges = charges]
    BY <1>3, <1>4 DEF ForceUsage, Usage
<1>7. /\ usage' \in Usage /\ usage'.there /\ usage'.charges = charges
      /\ usage'.updated = usage.updated
    BY <1>3, <1>5 DEF Usage
<1>8. Accounts'
    BY <1>1, <1>2, <1>7, SameTypes, LeaveAccounts DEF bounds, history
<1>9. Metered'
    <2>1. grants' = grants
        BY <1>1 DEF history
    <2>2. BucketIsExact'
        BY <2>1 DEF Metered, BucketIsExact, Allowed
    <2>3. grants # <<>> => usage'.charges = usage.charges /\ usage'.updated = usage.updated
        BY <1>4, <1>7 DEF Metered
    <2>4. grants = <<>> => usage'.charges < 0
        BY <1>3, <1>4, <1>7 DEF Metered, Usage
    <2> QED
        BY <1>7, <2>1, <2>2, <2>3, <2>4 DEF Metered
<1> QED
    BY <1>8, <1>9

LEMMA ClashOnUsageAccounts ==
    ASSUME Accounts, NEW w \in Worker, ClashOnUsage(w)
    PROVE  Accounts'
<1>1. /\ job[w].kind \in {"roast", "force"} /\ job[w].at = "business"
      /\ UNCHANGED <<data, bounds, history>>
    BY DEF ClashOnUsage, Ready
<1>2. CASE Leave(w, "failed") /\ UNCHANGED <<conn, owner>>
    BY <1>1, <1>2, SameOwned, SameTypes, LeaveAccounts DEF Accounts, data, bounds, history
<1>3. CASE job[w].tries < 2 /\ job' = [job EXCEPT ![w].at = "handler"] /\ End(w)
    <2>1. PICK j \in Request : j = job[w] /\ Shape(j)
        BY Typed DEF Accounts
    <2> DEFINE r == [j EXCEPT !.at = "handler"]
    <2>2. r \in Request
        BY DEF Request, Places
    <2>3. /\ r.at = "handler" /\ r.kind = j.kind /\ r.status = j.status /\ r.tries = j.tries
          /\ r.plan = j.plan
        BY DEF Request
    <2>4. job' = [job EXCEPT ![w] = r]
        BY <1>3, <2>1
    <2> HIDE DEF r
    <2>5. j.tries \in 0 .. 2 /\ j.tries < 2
        BY <1>3, <2>1 DEF Request
    <2>6. Shape(r)
        BY <1>1, <2>1, <2>3, <2>5 DEF Shape
    <2>7. Served(r) <=> Served(job[w])
        BY <2>1, <2>3 DEF Served
    <2>8. Owned'
        BY <1>1, <1>3, EndOwned DEF Accounts, bounds
    <2> QED
        BY <1>1, <2>2, <2>3, <2>4, <2>6, <2>7, <2>8, SameTypes, Keeps DEF data, bounds, history
<1> QED
    BY <1>2, <1>3 DEF ClashOnUsage

LEMMA PlainLeaves ==
    ASSUME Accounts, NEW w \in Worker, ClashOnSeen(w) \/ Read(w) \/ Fail(w)
    PROVE  Accounts'
<1>1. Owned'
    BY SameOwned DEF Accounts, ClashOnSeen, Read, Fail, bounds
<1> QED
    BY <1>1, SameTypes, LeaveAccounts DEF ClashOnSeen, Read, Fail, Ready, data, bounds, history

LEMMA CloseAccounts ==
    ASSUME Accounts, NEW w \in Worker, Close(w)
    PROVE  Accounts'
<1>1. PICK j \in Request : j = job[w] /\ Shape(j)
    BY Typed DEF Accounts
<1>2. /\ j.at = "closing" /\ job' = [job EXCEPT ![w].at = "statistics"] /\ End(w)
      /\ UNCHANGED <<data, bounds, history>>
    BY <1>1 DEF Close
<1> DEFINE r == [j EXCEPT !.at = "statistics"]
<1>3. r \in Request
    BY DEF Request, Places
<1>4. /\ r.at = "statistics" /\ r.kind = j.kind /\ r.status = j.status /\ r.tries = j.tries
      /\ r.plan = j.plan
    BY DEF Request
<1>5. job' = [job EXCEPT ![w] = r]
    BY <1>1, <1>2
<1> HIDE DEF r
<1>6. Shape(r)
    BY <1>1, <1>2, <1>4 DEF Shape
<1>7. Served(r) <=> Served(job[w])
    BY <1>1, <1>4 DEF Served
<1>8. Owned'
    BY <1>2, EndOwned DEF Accounts, bounds
<1> QED
    BY <1>2, <1>3, <1>4, <1>5, <1>6, <1>7, <1>8, SameTypes, Keeps DEF data, bounds, history

LEMMA ArriveAccounts ==
    ASSUME Accounts, NEW w \in Worker, Arrive(w)
    PROVE  Accounts'
<1>1. PICK k \in Kind, time \in clock .. LastTime, late \in 0 .. Skew :
         /\ late <= time /\ (k # "roast" => time = clock /\ late = 0)
         /\ clock' = time
         /\ job' = [job EXCEPT ![w] = [Idle EXCEPT !.at = "handler", !.kind = k,
                                                   !.now = IF k = "roast" THEN time - late ELSE 0]]
    BY DEF Arrive
<1>2. PICK i \in Request : i = Idle
    BY IdleTyped
<1>3. clock \in Nat /\ LastTime \in Nat /\ Skew \in Nat
    BY ServiceAssumption DEF Accounts, Types
<1>4. PICK now \in Nat : now = IF k = "roast" THEN time - late ELSE 0
    BY <1>1, <1>3
<1>5. i.tries = 0 /\ Len(i.plan) = 0 /\ i.status = "none"
    BY <1>2 DEF Idle
<1> DEFINE r == [i EXCEPT !.at = "handler", !.kind = k, !.now = now]
<1>6. r \in Request
    BY DEF Request, Places
<1>7. r.at = "handler" /\ r.status = i.status /\ r.tries = i.tries /\ r.plan = i.plan
    BY DEF Request
<1>8. job' = [job EXCEPT ![w] = r]
    BY <1>1, <1>2, <1>4
<1> HIDE DEF r
<1>9. Shape(r)
    BY <1>5, <1>7 DEF Shape
<1>10. ~Served(r) /\ ~Served(job[w])
    BY <1>5, <1>7 DEF Served, Arrive, Accounts, Shape
<1>11. clock' \in Nat
    BY <1>1, <1>3
<1>12. UNCHANGED <<data, owner, conn, pool, faults, history>>
    BY DEF Arrive
<1>13. Owned'
    BY <1>12, SameOwned DEF Accounts
<1> QED
    BY <1>6, <1>7, <1>8, <1>9, <1>10, <1>11, <1>12, <1>13, SameTypes, Keeps DEF data, history

-----------------------------------------------------------------------------
(* What is counted *)

CounterType == [Kind -> [ok : Nat, failed : Nat, created : Nat, hits : Nat]]

LEMMA MarkSeenAccounts ==
    ASSUME Accounts, NEW w \in Worker, MarkSeen(w)
    PROVE  Accounts'
<1>1. PICK r \in Request : job' = [job EXCEPT ![w] = r] /\ Shape(r) /\ r.at = "closing" /\ Served(r)
    BY LeaveTyped DEF MarkSeen, Ready
<1>2. /\ job[w].at = "business" /\ job[w].kind = "seen" /\ job[w].plan = <<>>
      /\ seen' = TRUE /\ marks' = marks + 1 /\ End(w)
      /\ UNCHANGED <<usage, bounds, answered, lost, grants>>
    BY DEF MarkSeen, Ready
<1>3. ~Served(job[w]) /\ (seen <=> ~job[w].absent)
    BY <1>2 DEF Accounts, Shape, Served, Looked, MarkSeen, Beaten
<1>4. PICK absent \in BOOLEAN : absent <=> job[w].absent
    OBVIOUS
<1>5. counter \in CounterType /\ "seen" \in Kind
    BY DEF Accounts, Types, TypeOK, CounterType, Kind
<1>6. PICK row \in [ok : Nat, failed : Nat, created : Nat, hits : Nat] : row = counter["seen"]
    BY <1>5 DEF CounterType
<1>7. PICK created \in Nat, hits \in Nat :
         /\ created = IF absent THEN row.created + 1 ELSE row.created
         /\ hits = IF absent THEN row.hits ELSE row.hits + 1
    OBVIOUS
<1> DEFINE half == [row EXCEPT !.created = created]
<1>8. /\ half \in [ok : Nat, failed : Nat, created : Nat, hits : Nat]
      /\ half.ok = row.ok /\ half.failed = row.failed /\ half.created = created
    OBVIOUS
<1> HIDE DEF half
<1> DEFINE next == [half EXCEPT !.hits = hits]
<1>9. /\ next \in [ok : Nat, failed : Nat, created : Nat, hits : Nat]
      /\ next.ok = row.ok /\ next.failed = row.failed /\ next.created = created /\ next.hits = hits
    BY <1>8
<1> HIDE DEF next
<1>9a. counter' = [counter EXCEPT !["seen"] = next]
    <2>1. counter' = [counter EXCEPT !["seen"].created = created, !["seen"].hits = hits]
        <3>1. counter' = [counter EXCEPT !["seen"].created = IF absent THEN @ + 1 ELSE @,
                                         !["seen"].hits = IF absent THEN @ ELSE @ + 1]
            BY <1>4 DEF MarkSeen
        <3> QED
            BY <1>5, <1>6, <1>7, <3>1 DEF CounterType
    <2>2. counter' = [counter EXCEPT !["seen"] = [[row EXCEPT !.created = created] EXCEPT !.hits = hits]]
        BY <1>5, <1>6, <2>1 DEF CounterType
    <2> QED
        BY <2>2 DEF half, next
<1>10. /\ counter' \in CounterType /\ counter'["seen"] = next
       /\ \A k \in Kind : counter'[k].ok = counter[k].ok /\ counter'[k].failed = counter[k].failed
    BY <1>5, <1>6, <1>9, <1>9a DEF CounterType
<1>11. /\ job' \in [Worker -> Request]
       /\ \A x \in Worker : Shape(job[x])' /\ Looked(x)'
       /\ ServedOnes' = ServedOnes \cup {w}
    BY <1>1, <1>2, Goes
<1>12. Cardinality(ServedOnes') = Cardinality(ServedOnes) + 1 /\ Cardinality(ServedOnes) \in Nat
    <2>1. w \notin ServedOnes /\ IsFiniteSet(ServedOnes)
        BY <1>3, ServiceAssumption, FS_Subset DEF ServedOnes
    <2> QED
        BY <1>11, <2>1, FS_AddElement, FS_CardinalityType
<1>13. marks \in Nat /\ answered \in Counts /\ lost \in Counts /\ row.created \in Nat /\ row.hits \in Nat
    BY DEF Accounts, Types
<1>14. Tallies'
    <2>1. counter'["seen"].created = 1 /\ counter'["seen"].created + counter'["seen"].hits = marks + 1
        BY <1>3, <1>4, <1>6, <1>7, <1>9, <1>10, <1>13 DEF Accounts, Tallies
    <2>2. marks' - answered'["seen"].ok = Cardinality(ServedOnes')
        <3>1. answered["seen"].ok \in Nat
            BY <1>5, <1>13 DEF Counts
        <3>2. marks - answered["seen"].ok = Cardinality(ServedOnes)
            BY DEF Accounts, Tallies
        <3>3. PICK n \in Nat, k \in Nat : n = Cardinality(ServedOnes) /\ k = answered["seen"].ok
            BY <1>12, <3>1
        <3>4. marks - k = n
            BY <3>2, <3>3
        <3>5. (marks + 1) - k = n + 1
            BY <1>13, <3>4
        <3> QED
            BY <1>2, <1>12, <3>3, <3>5
    <2>3. \A k \in Kind : /\ counter'[k].ok + lost'[k].ok = answered'[k].ok
                          /\ counter'[k].failed + lost'[k].failed = answered'[k].failed
        BY <1>2, <1>10 DEF Accounts, Tallies
    <2> QED
        BY <1>2, <2>1, <2>2, <2>3 DEF Tallies
<1>15. Owned'
    BY <1>2, EndOwned DEF Accounts, bounds
<1>16. usage' \in Usage
    BY <1>2, SameTypes
<1>17. Types'
    <2>1. TypeOK'
        BY <1>2, <1>10, <1>11, <1>15, <1>16 DEF TypeOK, Owned, Usage, Request, CounterType
    <2> QED
        BY <1>2, <1>13, <2>1 DEF Accounts, Types, bounds
<1> QED
    BY <1>11, <1>14, <1>17 DEF Accounts

(* One more request of kind k with outcome s. *)
OneMore(f, k, s) == [f EXCEPT ![k][s] = @ + 1]
Counted(f, g, k, s) ==
    \A x \in Kind :
      /\ g[x].ok = IF x = k /\ s = "ok" THEN f[x].ok + 1 ELSE f[x].ok
      /\ g[x].failed = IF x = k /\ s = "failed" THEN f[x].failed + 1 ELSE f[x].failed
SameWork(f, g) == \A x \in Kind : g[x].created = f[x].created /\ g[x].hits = f[x].hits

LEMMA CountsOneMore ==
    ASSUME NEW f \in Counts, NEW k \in Kind, NEW s \in {"ok", "failed"}, NEW g, g = OneMore(f, k, s)
    PROVE  /\ g \in Counts
           /\ Counted(f, g, k, s)
<1>1. CASE s = "ok"
    BY <1>1 DEF Counts, OneMore, Counted
<1>2. CASE s = "failed"
    BY <1>2 DEF Counts, OneMore, Counted
<1> QED
    BY <1>1, <1>2

LEMMA CounterOneMore ==
    ASSUME NEW f \in CounterType, NEW k \in Kind, NEW s \in {"ok", "failed"}, NEW g,
           g = OneMore(f, k, s)
    PROVE  /\ g \in CounterType
           /\ Counted(f, g, k, s)
           /\ SameWork(f, g)
<1>1. CASE s = "ok"
    BY <1>1 DEF CounterType, OneMore, Counted, SameWork
<1>2. CASE s = "failed"
    BY <1>2 DEF CounterType, OneMore, Counted, SameWork
<1> QED
    BY <1>1, <1>2

(* An answer takes a request from those served to those answered. *)
LEMMA Answers ==
    ASSUME Accounts, NEW w \in Worker, Answer(w), job[w].at \in {"statistics", "counting"},
           seen' = seen,
           NEW k \in Kind, k = job[w].kind, NEW s \in {"ok", "failed"}, s = job[w].status
    PROVE  /\ job' \in [Worker -> Request]
           /\ \A x \in Worker : Shape(job[x])' /\ Looked(x)'
           /\ answered' \in Counts
           /\ Counted(answered, answered', k, s)
           /\ marks - answered'["seen"].ok = Cardinality(ServedOnes')
<1>1. PICK i \in Request : i = Idle
    BY IdleTyped
<1>2. Shape(i) /\ ~Served(i) /\ i.at = "idle" /\ job' = [job EXCEPT ![w] = i]
    BY <1>1, IdleTyped DEF Answer
<1>3. /\ job' \in [Worker -> Request]
      /\ \A x \in Worker : Shape(job[x])' /\ Looked(x)'
      /\ ServedOnes' = ServedOnes \ {w}
    BY <1>2, Goes
<1>4. answered \in Counts /\ answered' = OneMore(answered, k, s)
    BY DEF Accounts, Types, Answer, OneMore
<1>5. /\ answered' \in Counts
      /\ Counted(answered, answered', k, s)
    BY <1>4, CountsOneMore
<1>6. w \in ServedOnes <=> k = "seen" /\ s = "ok"
    BY DEF ServedOnes, Served
<1>7. IsFiniteSet(ServedOnes)
    BY ServiceAssumption, FS_Subset DEF ServedOnes
<1>8. "seen" \in Kind /\ marks \in Nat /\ marks - answered["seen"].ok = Cardinality(ServedOnes)
    BY DEF Kind, Accounts, Types, Tallies
<1>9. PICK n \in Nat, a \in Nat : n = Cardinality(ServedOnes) /\ a = answered["seen"].ok
    BY <1>4, <1>7, <1>8, FS_CardinalityType DEF Counts
<1>10. marks - answered'["seen"].ok = Cardinality(ServedOnes')
    <2>1. CASE w \in ServedOnes
        <3>1. Cardinality(ServedOnes') = n - 1
            BY <1>3, <1>7, <1>9, <2>1, FS_RemoveElement
        <3>2. answered'["seen"].ok = a + 1
            BY <1>5, <1>6, <1>8, <1>9, <2>1 DEF Counted
        <3> QED
            BY <1>8, <1>9, <3>1, <3>2
    <2>2. CASE w \notin ServedOnes
        <3>1. ServedOnes' = ServedOnes
            BY <1>3, <2>2
        <3>2. answered'["seen"].ok = a
            BY <1>5, <1>6, <1>8, <1>9, <2>2 DEF Counted
        <3> QED
            BY <1>8, <1>9, <3>1, <3>2
    <2> QED
        BY <2>1, <2>2
<1> QED
    BY <1>3, <1>5, <1>10

LEMMA StatusSettled ==
    ASSUME Accounts, NEW w \in Worker, job[w].at \in {"statistics", "counting"}
    PROVE  job[w].kind \in Kind /\ job[w].status \in {"ok", "failed"}
<1>1. job[w] \in Request
    BY Typed DEF Accounts
<1> QED
    BY <1>1 DEF Accounts, Shape, Request

LEMMA CountAccounts ==
    ASSUME Accounts, NEW w \in Worker, Count(w)
    PROVE  Accounts'
<1>1. /\ job[w].at = "counting" /\ End(w) /\ Answer(w)
      /\ UNCHANGED <<usage, seen, bounds, lost, marks, grants>>
    BY DEF Count
<1>2. PICK k \in Kind, s \in {"ok", "failed"} : k = job[w].kind /\ s = job[w].status
    BY <1>1, StatusSettled
<1>3. /\ job' \in [Worker -> Request]
      /\ \A x \in Worker : Shape(job[x])' /\ Looked(x)'
      /\ answered' \in Counts
      /\ Counted(answered, answered', k, s)
      /\ marks - answered'["seen"].ok = Cardinality(ServedOnes')
    BY <1>1, <1>2, Answers
<1>4. counter \in CounterType /\ counter' = OneMore(counter, k, s)
    BY <1>2 DEF Count, Accounts, Types, TypeOK, CounterType, OneMore
<1>5. /\ counter' \in CounterType
      /\ Counted(counter, counter', k, s)
      /\ SameWork(counter, counter')
    BY <1>4, CounterOneMore
<1>6. Tallies'
    <2>1. ASSUME NEW x \in Kind
          PROVE  /\ counter'[x].ok + lost'[x].ok = answered'[x].ok
                 /\ counter'[x].failed + lost'[x].failed = answered'[x].failed
        <3>1. /\ counter[x].ok \in Nat /\ counter[x].failed \in Nat
              /\ lost[x].ok \in Nat /\ lost[x].failed \in Nat
              /\ answered[x].ok \in Nat /\ answered[x].failed \in Nat
            BY <1>4 DEF Accounts, Types, Counts, CounterType
        <3>2. /\ counter[x].ok + lost[x].ok = answered[x].ok
              /\ counter[x].failed + lost[x].failed = answered[x].failed
            BY DEF Accounts, Tallies
        <3> QED
            BY <1>1, <1>3, <1>5, <3>1, <3>2 DEF Counted
    <2>2. "seen" \in Kind
        BY DEF Kind
    <2> QED
        BY <1>1, <1>3, <1>5, <2>1, <2>2 DEF Accounts, Tallies, SameWork
<1>7. Owned'
    BY <1>1, EndOwned DEF Accounts, bounds
<1>8. usage' \in Usage
    BY <1>1, SameTypes
<1>9. Types'
    <2>1. TypeOK'
        BY <1>1, <1>3, <1>5, <1>7, <1>8 DEF Accounts, Types, TypeOK, Owned, Usage, Request, CounterType
    <2> QED
        BY <1>1, <1>3, <2>1 DEF Accounts, Types, bounds
<1> QED
    BY <1>3, <1>6, <1>9 DEF Accounts

LEMMA UncountedAccounts ==
    ASSUME Accounts, NEW w \in Worker, Uncounted(w)
    PROVE  Accounts'
<1>1. /\ job[w].at \in {"statistics", "counting"} /\ End(w) /\ Answer(w)
      /\ UNCHANGED <<data, pool, clock, requests, marks, grants>>
    BY DEF Uncounted
<1>2. PICK k \in Kind, s \in {"ok", "failed"} : k = job[w].kind /\ s = job[w].status
    BY <1>1, StatusSettled
<1>3. /\ job' \in [Worker -> Request]
      /\ \A x \in Worker : Shape(job[x])' /\ Looked(x)'
      /\ answered' \in Counts
      /\ Counted(answered, answered', k, s)
      /\ marks - answered'["seen"].ok = Cardinality(ServedOnes')
    BY <1>1, <1>2, Answers DEF data
<1>4. lost \in Counts /\ lost' = OneMore(lost, k, s)
    BY <1>2 DEF Uncounted, Accounts, Types, OneMore
<1>5. /\ lost' \in Counts
      /\ Counted(lost, lost', k, s)
    BY <1>4, CountsOneMore
<1>6. Tallies'
    <2>1. ASSUME NEW x \in Kind
          PROVE  /\ counter'[x].ok + lost'[x].ok = answered'[x].ok
                 /\ counter'[x].failed + lost'[x].failed = answered'[x].failed
        <3>1. /\ counter[x].ok \in Nat /\ counter[x].failed \in Nat
              /\ lost[x].ok \in Nat /\ lost[x].failed \in Nat
              /\ answered[x].ok \in Nat /\ answered[x].failed \in Nat
            BY <1>4 DEF Accounts, Types, TypeOK, Counts
        <3>2. /\ counter[x].ok + lost[x].ok = answered[x].ok
              /\ counter[x].failed + lost[x].failed = answered[x].failed
            BY DEF Accounts, Tallies
        <3> QED
            BY <1>1, <1>3, <1>5, <3>1, <3>2 DEF Counted, data
    <2> QED
        BY <1>1, <1>3, <2>1 DEF Accounts, Tallies, data
<1>7. Owned'
    BY <1>1, EndOwned DEF Accounts
<1>8. usage' \in Usage
    BY <1>1, SameTypes
<1>9. Types'
    <2>1. TypeOK'
        BY <1>1, <1>3, <1>7, <1>8 DEF Accounts, Types, TypeOK, Owned, Usage, Request, data
    <2> QED
        BY <1>1, <1>3, <1>5, <2>1 DEF Accounts, Types
<1> QED
    BY <1>3, <1>6, <1>9 DEF Accounts

-----------------------------------------------------------------------------
(* Who waits for whom *)

(* Rows are locked in this order. *)
Rank(l) == IF l \in {"usage", "active"} THEN 0 ELSE IF l = "identity" THEN 1 ELSE 2

Ascends(plan) == \A i, j \in 1 .. Len(plan) : i < j => Rank(plan[i]) < Rank(plan[j])

(* The places in which a session holds a connection and locks. *)
Holding == {"business", "counting", "closing"}

(* A request has locked only rows that come before those of its plan, and    *)
(* who waits for a connection has none.                                      *)
Held ==
    /\ pool > 0
    /\ \A w \in conn : job[w].at \in Holding
    /\ \A w \in Worker : Ascends(job[w].plan)
    /\ \A l \in Lock : \A w \in Worker :
          owner[l] = w => /\ job[w].at \in Holding
                          /\ \A i \in 1 .. Len(job[w].plan) : Rank(l) < Rank(job[w].plan[i])

LEMMA RankTyped ==
    ASSUME NEW l
    PROVE  Rank(l) \in 0 .. 2
BY DEF Rank

LEMMA PlanAscends ==
    ASSUME NEW at, NEW k \in Kind
    PROVE  Ascends(Planned(at, k))
<1>1. /\ Rank("usage") = 0 /\ Rank("active") = 0 /\ Rank("identity") = 1
      /\ \A x \in Kind : Rank(x) = 2
    BY DEF Rank, Kind
<1>2. CASE at = "statistics"
    <2>1. Planned(at, k) = <<"identity", k>>
        BY <1>2 DEF Planned
    <2>2. Len(<<"identity", k>>) = 2 /\ <<"identity", k>>[1] = "identity" /\ <<"identity", k>>[2] = k
        OBVIOUS
    <2>3. \A i, j \in 1 .. 2 : i < j => i = 1 /\ j = 2
        OBVIOUS
    <2> QED
        BY <1>1, <2>1, <2>2, <2>3 DEF Ascends
<1>3. CASE at # "statistics" /\ k \in {"roast", "force"}
    <2>1. Planned(at, k) = <<"usage">>
        BY <1>3 DEF Planned
    <2> QED
        BY <2>1 DEF Ascends
<1>4. CASE at # "statistics" /\ k = "seen"
    <2>1. Planned(at, k) = <<"active", "identity", k>>
        BY <1>4 DEF Planned
    <2>2. /\ Len(<<"active", "identity", k>>) = 3
          /\ <<"active", "identity", k>>[1] = "active"
          /\ <<"active", "identity", k>>[2] = "identity"
          /\ <<"active", "identity", k>>[3] = k
        OBVIOUS
    <2>3. \A i, j \in 1 .. 3 : i < j => (i = 1 /\ j = 2) \/ (i = 1 /\ j = 3) \/ (i = 2 /\ j = 3)
        OBVIOUS
    <2> QED
        BY <1>1, <2>1, <2>2, <2>3 DEF Ascends
<1>5. CASE at # "statistics" /\ k = "read"
    <2>1. Planned(at, k) = <<>>
        BY <1>5 DEF Planned
    <2> QED
        BY <2>1 DEF Ascends
<1> QED
    BY <1>2, <1>3, <1>4, <1>5 DEF Kind

(* One request moves on, and the locks and connections of others stay. *)
LEMMA Moves ==
    ASSUME Types, Held, NEW w \in Worker, NEW r, job'[w] = r,
           \A x \in Worker : x # w => job'[x] = job[x],
           Ascends(r.plan), pool' = pool, conn' \subseteq conn \cup {w},
           w \in conn' => r.at \in Holding,
           \A l \in Lock : owner'[l] = w =>
              r.at \in Holding /\ \A i \in 1 .. Len(r.plan) : Rank(l) < Rank(r.plan[i]),
           \A l \in Lock : \A x \in Worker : x # w /\ owner'[l] = x => owner[l] = x
    PROVE  Held'
<1>1. job \in [Worker -> Request] /\ conn \subseteq Worker
    BY Typed DEF Types, TypeOK
<1>2. job'[w] = r /\ \A x \in Worker : x # w => job'[x] = job[x]
    OBVIOUS
<1>3. \A x \in conn' : job'[x].at \in Holding
    BY <1>1, <1>2 DEF Held
<1>4. \A x \in Worker : Ascends(job'[x].plan)
    <2>1. ASSUME NEW x \in Worker
          PROVE  Ascends(job'[x].plan)
        <3>1. CASE x = w
            BY <1>2, <3>1
        <3>2. CASE x # w
            <4>1. job'[x] = job[x]
                BY <1>2, <3>2
            <4> QED
                BY <4>1 DEF Held
        <3> QED
            BY <3>1, <3>2
    <2> QED
        BY <2>1
<1>5. ASSUME NEW l \in Lock, NEW x \in Worker, owner'[l] = x
      PROVE  /\ job'[x].at \in Holding
             /\ \A i \in 1 .. Len(job'[x].plan) : Rank(l) < Rank(job'[x].plan[i])
    <2>1. CASE x = w
        BY <1>2, <1>5, <2>1
    <2>2. CASE x # w
        <3>1. owner[l] = x /\ job'[x] = job[x]
            BY <1>2, <1>5, <2>2
        <3> QED
            BY <3>1 DEF Held
    <2> QED
        BY <2>1, <2>2
<1>6. pool' > 0
    BY DEF Held
<1> QED
    BY <1>3, <1>4, <1>5, <1>6 DEF Held, Ascends

LEMMA NoPlanAscends ==
    ASSUME NEW plan, Len(plan) = 0
    PROVE  Ascends(plan)
BY DEF Ascends

(* A transaction ends. *)
LEMMA EndHeld ==
    ASSUME Types, Held, NEW w \in Worker, NEW r \in Request, job' = [job EXCEPT ![w] = r],
           Ascends(r.plan), End(w), pool' = pool
    PROVE  Held'
<1>1. Nobody \notin Worker /\ owner \in [Lock -> Worker \cup {Nobody}]
    BY ServiceAssumption DEF Types, TypeOK
<1>2. /\ conn' = conn \ {w}
      /\ \A l \in Lock : owner'[l] = IF owner[l] = w THEN Nobody ELSE owner[l]
    BY <1>1 DEF End
<1>3. /\ conn' \subseteq conn \cup {w} /\ w \notin conn'
      /\ \A l \in Lock : owner'[l] # w
      /\ \A l \in Lock : \A x \in Worker : x # w /\ owner'[l] = x => owner[l] = x
    BY <1>1, <1>2
<1>4. job'[w] = r /\ \A x \in Worker : x # w => job'[x] = job[x]
    BY Typed
<1> QED
    BY <1>3, <1>4, Moves

(* A handler ends, and the transaction is still open. *)
LEMMA StayHeld ==
    ASSUME Types, Held, NEW w \in Worker, NEW r \in Request, job' = [job EXCEPT ![w] = r],
           Len(r.plan) = 0, r.at \in Holding \/ job[w].at \notin Holding,
           UNCHANGED <<owner, conn, pool>>
    PROVE  Held'
<1>1. \A i \in 1 .. Len(r.plan) : FALSE
    OBVIOUS
<1>2. w \in conn => r.at \in Holding
    BY DEF Held
<1>3. \A l \in Lock : owner[l] = w => r.at \in Holding
    BY DEF Held
<1>4. job'[w] = r /\ \A x \in Worker : x # w => job'[x] = job[x]
    BY Typed
<1> QED
    BY <1>1, <1>2, <1>3, <1>4, NoPlanAscends, Moves

LEMMA LeaveHeld ==
    ASSUME Accounts, Held, NEW w \in Worker, NEW s \in {"ok", "failed"}, Leave(w, s), pool' = pool,
           End(w) \/ UNCHANGED <<owner, conn>>
    PROVE  Held'
<1>1. PICK r \in Request : job' = [job EXCEPT ![w] = r] /\ r.at = "closing" /\ Len(r.plan) = 0
    BY LeaveTyped
<1>2. r.at \in Holding /\ Types
    BY <1>1 DEF Holding, Accounts
<1> QED
    BY <1>1, <1>2, NoPlanAscends, EndHeld, StayHeld

LEMMA ConnectHeld ==
    ASSUME Accounts, Held, NEW w \in Worker, Connect(w)
    PROVE  Held'
<1>1. PICK j \in Request : j = job[w]
    BY Typed DEF Accounts
<1>2. job \in [Worker -> Request]
    BY Typed DEF Accounts
<1> DEFINE at == IF j.at = "handler" THEN "business" ELSE "counting"
           plan == Planned(j.at, j.kind)
           absent == j.kind = "seen" /\ ~seen
<1>3. /\ job' = [job EXCEPT ![w].at = IF @ = "handler" THEN "business" ELSE "counting",
                            ![w].plan = plan, ![w].absent = absent, ![w].tries = @ + 1]
      /\ conn' = conn \cup {w} /\ j.at \in {"handler", "statistics"}
      /\ UNCHANGED <<owner, pool>>
    BY <1>1 DEF Connect, bounds
<1>4. Ascends(plan) /\ at \in Holding
    BY PlanAscends DEF Request, Holding
<1> HIDE DEF plan, absent
<1>5. /\ job'[w].at = at /\ job'[w].plan = plan
      /\ \A x \in Worker : x # w => job'[x] = job[x]
    <2>1. \A x \in Worker : x # w => job'[x] = job[x]
        BY <1>2, <1>3
    <2>2. job'[w].at = at
        BY <1>1, <1>2, <1>3 DEF Request
    <2>3. job'[w].plan = plan
        BY <1>1, <1>2, <1>3 DEF Request
    <2> QED
        BY <2>1, <2>2, <2>3
<1> HIDE DEF at
<1>6. \A l \in Lock : owner'[l] # w
    BY <1>1, <1>3 DEF Held, Holding
<1>7. PICK r : r = job'[w]
    OBVIOUS
<1>8. Ascends(r.plan) /\ r.at \in Holding
    BY <1>4, <1>5, <1>7
<1>9. \A l \in Lock : \A x \in Worker : x # w /\ owner'[l] = x => owner[l] = x
    BY <1>3
<1>10. conn' \subseteq conn \cup {w} /\ pool' = pool /\ Types
    BY <1>3 DEF Accounts
<1> QED
    BY <1>5, <1>6, <1>7, <1>8, <1>9, <1>10, Moves

LEMMA TakeLockHeld ==
    ASSUME Accounts, Held, NEW w \in Worker, TakeLock(w)
    PROVE  Held'
<1>1. PICK j \in Request : j = job[w]
    BY Typed DEF Accounts
<1>2. job \in [Worker -> Request] /\ owner \in [Lock -> Worker \cup {Nobody}]
    BY Typed DEF Accounts, Types, TypeOK
<1> DEFINE l == Head(j.plan)
           none == l = "usage" /\ ~usage.there
           plan == Tail(j.plan)
<1>3. /\ job' = [job EXCEPT ![w].plan = Tail(@), ![w].absent = IF l = "usage" THEN none ELSE @]
      /\ owner' = IF none THEN owner ELSE [owner EXCEPT ![l] = w]
      /\ j.plan # <<>> /\ j.at \in Holding /\ UNCHANGED <<conn, pool>>
    BY <1>1 DEF TakeLock, InTransaction, Holding, bounds
<1>4. /\ l \in Lock /\ l = j.plan[1]
      /\ Len(j.plan) \in Nat /\ Len(j.plan) > 0 /\ Len(plan) = Len(j.plan) - 1
      /\ \A i \in 1 .. Len(plan) : plan[i] = j.plan[i + 1]
    <2>1. j.plan \in Seq(Lock)
        BY DEF Request
    <2> QED
        BY <1>3, <2>1
<1> HIDE DEF none
<1>5. /\ job'[w].at = j.at /\ job'[w].plan = plan
      /\ \A x \in Worker : x # w => job'[x] = job[x]
    BY <1>1, <1>2, <1>3 DEF Request
<1>6. Ascends(j.plan)
    BY <1>1 DEF Held
<1> HIDE DEF plan, l
<1>7. \A i \in 1 .. Len(plan) : /\ Rank(l) < Rank(plan[i])
                                /\ i + 1 \in 1 .. Len(j.plan) /\ plan[i] = j.plan[i + 1]
    <2>1. ASSUME NEW i \in 1 .. Len(plan)
          PROVE  /\ Rank(l) < Rank(plan[i])
                 /\ i + 1 \in 1 .. Len(j.plan) /\ plan[i] = j.plan[i + 1]
        <3>1. 1 \in 1 .. Len(j.plan) /\ i + 1 \in 1 .. Len(j.plan) /\ 1 < i + 1
            BY <1>4
        <3> QED
            BY <1>4, <1>6, <3>1 DEF Ascends
    <2> QED
        BY <2>1
<1>8. Ascends(plan)
    <2>1. ASSUME NEW i \in 1 .. Len(plan), NEW k \in 1 .. Len(plan), i < k
          PROVE  Rank(plan[i]) < Rank(plan[k])
        <3>1. i + 1 < k + 1
            BY <1>4, <2>1
        <3> QED
            BY <1>6, <1>7, <3>1 DEF Ascends
    <2> QED
        BY <2>1 DEF Ascends
<1>9. ASSUME NEW m \in Lock, owner'[m] = w
      PROVE  \A i \in 1 .. Len(plan) : Rank(m) < Rank(plan[i])
    <2>1. CASE m = l
        BY <1>7, <2>1
    <2>2. CASE m # l
        <3>1. owner[m] = w
            BY <1>2, <1>3, <1>9, <2>2
        <3>2. \A i \in 1 .. Len(j.plan) : Rank(m) < Rank(j.plan[i])
            BY <1>1, <3>1 DEF Held
        <3> QED
            BY <1>7, <3>2
    <2> QED
        BY <2>1, <2>2
<1>10. \A m \in Lock : \A x \in Worker : x # w /\ owner'[m] = x => owner[m] = x
    BY <1>2, <1>3
<1>11. PICK r : r = job'[w]
    OBVIOUS
<1>12. /\ r.at \in Holding /\ r.plan = plan /\ conn' \subseteq conn \cup {w}
    BY <1>3, <1>5, <1>11
<1>13. \A m \in Lock : owner'[m] = w =>
          r.at \in Holding /\ \A i \in 1 .. Len(r.plan) : Rank(m) < Rank(r.plan[i])
    BY <1>9, <1>12
<1> QED
    BY <1>3, <1>5, <1>8, <1>10, <1>11, <1>12, <1>13, Moves DEF Accounts

LEMMA ArriveHeld ==
    ASSUME Accounts, Held, NEW w \in Worker, Arrive(w)
    PROVE  Held'
<1>1. job \in [Worker -> Request]
    BY Typed DEF Accounts
<1>2. PICK i \in Request : i = Idle
    BY IdleTyped
<1>3. Len(i.plan) = 0
    BY <1>2 DEF Idle
<1>4. PICK k \in Kind, time \in clock .. LastTime, late \in 0 .. Skew :
         job' = [job EXCEPT ![w] = [Idle EXCEPT !.at = "handler", !.kind = k,
                                                !.now = IF k = "roast" THEN time - late ELSE 0]]
    BY DEF Arrive
<1>5. PICK now : now = IF k = "roast" THEN time - late ELSE 0
    OBVIOUS
<1>6. job' = [job EXCEPT ![w] = [i EXCEPT !.at = "handler", !.kind = k, !.now = now]]
    BY <1>2, <1>4, <1>5
<1>7. job'[w].plan = i.plan /\ \A x \in Worker : x # w => job'[x] = job[x]
    BY <1>1, <1>6 DEF Request
<1>8. w \notin conn /\ (\A l \in Lock : owner[l] # w) /\ UNCHANGED <<owner, conn, pool>>
    BY DEF Arrive, Held, Holding
<1>9. PICK r : r = job'[w] /\ Len(r.plan) = 0
    BY <1>3, <1>7
<1> QED
    BY <1>7, <1>8, <1>9, NoPlanAscends, Moves DEF Accounts

LEMMA ClashOnUsageHeld ==
    ASSUME Accounts, Held, NEW w \in Worker, ClashOnUsage(w)
    PROVE  Held'
<1>1. UNCHANGED bounds
    BY DEF ClashOnUsage
<1>2. CASE Leave(w, "failed") /\ UNCHANGED <<conn, owner>>
    BY <1>1, <1>2, LeaveHeld DEF bounds
<1>3. CASE job' = [job EXCEPT ![w].at = "handler"] /\ End(w)
    <2>1. PICK j \in Request : j = job[w]
        BY Typed DEF Accounts
    <2> DEFINE r == [j EXCEPT !.at = "handler"]
    <2>2. r \in Request /\ r.plan = j.plan
        BY DEF Request, Places
    <2>3. job' = [job EXCEPT ![w] = r]
        BY <1>3, <2>1
    <2> HIDE DEF r
    <2>4. Ascends(r.plan)
        BY <2>1, <2>2 DEF Held
    <2> QED
        BY <1>1, <1>3, <2>2, <2>3, <2>4, EndHeld DEF bounds, Accounts
<1> QED
    BY <1>2, <1>3 DEF ClashOnUsage

LEMMA CloseHeld ==
    ASSUME Accounts, Held, NEW w \in Worker, Close(w)
    PROVE  Held'
<1>1. PICK j \in Request : j = job[w]
    BY Typed DEF Accounts
<1> DEFINE r == [j EXCEPT !.at = "statistics"]
<1>2. r \in Request /\ r.plan = j.plan
    BY DEF Request, Places
<1>3. job' = [job EXCEPT ![w] = r] /\ End(w) /\ pool' = pool
    BY <1>1 DEF Close, bounds
<1> HIDE DEF r
<1>4. Ascends(r.plan)
    BY <1>1, <1>2 DEF Held
<1> QED
    BY <1>2, <1>3, <1>4, EndHeld DEF Accounts

-----------------------------------------------------------------------------
(* The theorems *)

IInv == Accounts /\ Metered /\ Held

LEMMA InitIInv ==
    Init => IInv
<1> SUFFICES ASSUME Init
             PROVE  IInv
    OBVIOUS
<1>1. MaxCharges \in Nat /\ "seen" \in Kind /\ PoolSize \subseteq Nat \ {0} /\ IsFiniteSet(Worker)
    BY ServiceAssumption DEF Kind
<1>2. pool \in Nat /\ Cardinality(conn) = 0 /\ conn = {}
    BY <1>1, FS_EmptySet DEF Init
<1>3. usage \in Usage /\ ~usage.there
    BY <1>1 DEF Init, NoUsage, Usage
<1>4. /\ counter \in CounterType
      /\ \A k \in Kind : /\ counter[k].ok = 0 /\ counter[k].failed = 0
                         /\ counter[k].created = 0 /\ counter[k].hits = 0
    BY DEF Init, CounterType
<1>5. /\ answered \in Counts /\ lost \in Counts
      /\ \A k \in Kind : /\ answered[k].ok = 0 /\ answered[k].failed = 0
                         /\ lost[k].ok = 0 /\ lost[k].failed = 0
    BY DEF Init, Counts, NoCounts
<1>6. PICK i \in Request : i = Idle
    BY IdleTyped
<1>7. job \in [Worker -> Request] /\ \A w \in Worker : job[w] = i
    BY <1>6 DEF Init
<1>8. Shape(i) /\ ~Served(i) /\ i.at = "idle"
    BY <1>6, IdleTyped
<1>9. ServedOnes = {}
    BY <1>7, <1>8 DEF ServedOnes
<1>10. TypeOK
    <2>1. job \in [Worker -> [at : Places, kind : Kind, now : Nat, tries : 0 .. 2,
                           plan : Seq(Lock), absent : BOOLEAN, status : {"none", "ok", "failed"}]]
        BY <1>7 DEF Request
    <2>2. owner \in [Lock -> Worker \cup {Nobody}] /\ seen \in BOOLEAN
        BY DEF Init
    <2>3. conn \subseteq Worker /\ Cardinality(conn) <= pool
        BY <1>2
    <2> QED
        BY <1>3, <1>4, <2>1, <2>2, <2>3 DEF TypeOK, Usage, CounterType
<1>11. Types
    BY <1>2, <1>5, <1>10 DEF Init, Types
<1>12. \A w \in Worker : Shape(job[w]) /\ Looked(w)
    BY <1>7, <1>8 DEF Looked
<1>13. Tallies
    <2>1. Cardinality(ServedOnes) = 0
        BY <1>9, FS_EmptySet
    <2> QED
        BY <1>1, <1>4, <1>5, <2>1 DEF Init, Tallies
<1>14. Metered
    BY <1>3 DEF Init, Metered, BucketIsExact
<1>15. Held
    <2>1. Ascends(i.plan)
        BY <1>6, NoPlanAscends DEF Idle
    <2>2. \A l \in Lock : \A w \in Worker : owner[l] # w
        BY ServiceAssumption DEF Init
    <2> QED
        BY <1>1, <1>2, <1>7, <2>1, <2>2 DEF Init, Held
<1> QED
    BY <1>11, <1>12, <1>13, <1>14, <1>15 DEF IInv, Accounts

LEMMA NextMetered ==
    Accounts /\ Metered /\ [Next]_vars => Accounts' /\ Metered'
<1> SUFFICES ASSUME Accounts, Metered, [Next]_vars
             PROVE  Accounts' /\ Metered'
    OBVIOUS
<1>1. ASSUME NEW w \in Worker, Arrive(w)
      PROVE  Accounts' /\ Metered'
    BY <1>1, ArriveAccounts, MeteredStays DEF Arrive, data, history
<1>2. ASSUME NEW w \in Worker, Connect(w)
      PROVE  Accounts' /\ Metered'
    BY <1>2, ConnectAccounts, MeteredStays DEF Connect, data, history
<1>3. ASSUME NEW w \in Worker, TakeLock(w)
      PROVE  Accounts' /\ Metered'
    BY <1>3, TakeLockAccounts, MeteredStays DEF TakeLock, data, history
<1>4. ASSUME NEW w \in Worker, Roast(w)
      PROVE  Accounts' /\ Metered'
    BY <1>4, RoastAccounts
<1>5. ASSUME NEW w \in Worker, ForceUsage(w)
      PROVE  Accounts' /\ Metered'
    BY <1>5, ForceAccounts
<1>6. ASSUME NEW w \in Worker, ClashOnUsage(w)
      PROVE  Accounts' /\ Metered'
    BY <1>6, ClashOnUsageAccounts, MeteredStays DEF ClashOnUsage, data, history
<1>7. ASSUME NEW w \in Worker, MarkSeen(w)
      PROVE  Accounts' /\ Metered'
    BY <1>7, MarkSeenAccounts, MeteredStays DEF MarkSeen
<1>8. ASSUME NEW w \in Worker, ClashOnSeen(w)
      PROVE  Accounts' /\ Metered'
    BY <1>8, PlainLeaves, MeteredStays DEF ClashOnSeen, data, history
<1>9. ASSUME NEW w \in Worker, Read(w)
       PROVE  Accounts' /\ Metered'
    BY <1>9, PlainLeaves, MeteredStays DEF Read, data, history
<1>10. ASSUME NEW w \in Worker, Fail(w)
       PROVE  Accounts' /\ Metered'
    BY <1>10, PlainLeaves, MeteredStays DEF Fail, data, history
<1>11. ASSUME NEW w \in Worker, Close(w)
       PROVE  Accounts' /\ Metered'
    BY <1>11, CloseAccounts, MeteredStays DEF Close, data, history
<1>12. ASSUME NEW w \in Worker, Count(w)
       PROVE  Accounts' /\ Metered'
    BY <1>12, CountAccounts, MeteredStays DEF Count
<1>13. ASSUME NEW w \in Worker, Uncounted(w)
       PROVE  Accounts' /\ Metered'
    BY <1>13, UncountedAccounts, MeteredStays DEF Uncounted, data
<1>14. CASE UNCHANGED vars
    <2>1. UNCHANGED <<usage, seen, counter, job, owner, conn, pool, clock, answered, lost, marks, grants>>
        BY <1>14 DEF vars, data, bounds, history
    <2>2. Types'
        BY <2>1 DEF Accounts, Types, TypeOK
    <2>3. \A w \in Worker : Shape(job[w])' /\ Looked(w)'
        BY <2>1 DEF Accounts, Shape, Looked
    <2>4. ServedOnes' = ServedOnes
        BY <2>1 DEF ServedOnes, Served
    <2>5. Tallies'
        BY <2>1, <2>4 DEF Accounts, Tallies
    <2>6. Metered'
        BY <2>1, MeteredStays
    <2> QED
        BY <2>2, <2>3, <2>5, <2>6 DEF Accounts
<1> QED
    BY <1>1, <1>2, <1>3, <1>4, <1>5, <1>6, <1>7, <1>8, <1>9, <1>10, <1>11, <1>12, <1>13, <1>14
    DEF Next, Step

LEMMA AnswerHeld ==
    ASSUME Accounts, Held, NEW w \in Worker, Answer(w), End(w), pool' = pool
    PROVE  Held'
<1>1. PICK i \in Request : i = Idle
    BY IdleTyped
<1>2. job' = [job EXCEPT ![w] = i] /\ Ascends(i.plan)
    BY <1>1, NoPlanAscends DEF Answer, Idle
<1> QED
    BY <1>2, EndHeld DEF Accounts

LEMMA NextHeld ==
    Accounts /\ Held /\ [Next]_vars => Held'
<1> SUFFICES ASSUME Accounts, Held, [Next]_vars
             PROVE  Held'
    OBVIOUS
<1>1. ASSUME NEW w \in Worker, Roast(w) \/ ForceUsage(w) \/ MarkSeen(w)
      PROVE  Held'
    BY <1>1, LeaveHeld DEF Roast, ForceUsage, MarkSeen, bounds
<1>2. ASSUME NEW w \in Worker, ClashOnSeen(w) \/ Read(w) \/ Fail(w)
      PROVE  Held'
    BY <1>2, LeaveHeld DEF ClashOnSeen, Read, Fail, bounds
<1>3. ASSUME NEW w \in Worker, Count(w) \/ Uncounted(w)
      PROVE  Held'
    BY <1>3, AnswerHeld DEF Count, Uncounted, bounds
<1>4. ASSUME NEW w \in Worker, Connect(w)
      PROVE  Held'
    BY <1>4, ConnectHeld
<1>5. ASSUME NEW w \in Worker, TakeLock(w)
      PROVE  Held'
    BY <1>5, TakeLockHeld
<1>6. ASSUME NEW w \in Worker, ClashOnUsage(w)
      PROVE  Held'
    BY <1>6, ClashOnUsageHeld
<1>7. ASSUME NEW w \in Worker, Close(w)
      PROVE  Held'
    BY <1>7, CloseHeld
<1>8. ASSUME NEW w \in Worker, Arrive(w)
      PROVE  Held'
    BY <1>8, ArriveHeld
<1>9. CASE UNCHANGED vars
    BY <1>9 DEF vars, bounds, Held, Ascends
<1> QED
    BY <1>1, <1>2, <1>3, <1>4, <1>5, <1>6, <1>7, <1>8, <1>9 DEF Next, Step

(* Everything the next theorems rest on: the types, what the place of a      *)
(* request tells of it, the tallies of the requests served but not answered  *)
(* yet, the balance of the charges, and who holds connections and locks.     *)
(* (main.py, db.py, services/key_usage.py, services/usage.py.)               *)
THEOREM InvariantHolds ==
    Spec => []IInv
<1>1. IInv /\ [Next]_vars => IInv'
    BY NextMetered, NextHeld DEF IInv
<1> QED
    BY InitIInv, <1>1, PTL DEF Spec

(* Statistics and business data agree, whatever fails and in whatever order  *)
(* the requests end: record_key_request and record_group_roll_seen_usage     *)
(* count each answered request and each mark once.  (services/key_usage.py,  *)
(* main.py, routers/group_rolls.py.)                                         *)
THEOREM CountsTellHistoryHolds ==
    Spec => []CountsTellHistory
<1>1. IInv => CountsTellHistory
    <2>1. ServedOnes = {w \in Worker : job[w].kind = "seen" /\ job[w].status = "ok"}
        BY DEF ServedOnes, Served
    <2> QED
        BY <2>1 DEF IInv, Accounts, Types, Tallies, CountsTellHistory
<1> QED
    BY <1>1, InvariantHolds, PTL

(* The bucket of charges gives neither more nor less than was earned, with   *)
(* any settings and however late the bots' times are.                        *)
(* (services/usage.py:32-110.)                                               *)
THEOREM BucketIsExactHolds ==
    Spec => []BucketIsExact
<1>1. IInv => BucketIsExact
    BY DEF IInv, Metered
<1> QED
    BY <1>1, InvariantHolds, PTL

(* When nobody goes on, each transaction waits for one that waits for a      *)
(* later row.                                                                *)
LEMMA WaitsForLater ==
    ASSUME Accounts, Held, \A w \in Worker : ~GoesOn(w), NEW w \in Worker, InTransaction(w)
    PROVE  \E v \in Worker : /\ InTransaction(v)
                             /\ Rank(Head(job[w].plan)) < Rank(Head(job[v].plan))
<1>1. job[w].plan \in Seq(Lock) /\ job[w].plan # <<>> /\ owner[Head(job[w].plan)] # Nobody
    BY Typed DEF GoesOn, Accounts, Request
<1>2. PICK l \in Lock : l = Head(job[w].plan)
    BY <1>1
<1>3. PICK v \in Worker : owner[l] = v
    BY <1>1, <1>2 DEF Accounts, Types, TypeOK
<1>4. job[v].at \in Holding /\ \A i \in 1 .. Len(job[v].plan) : Rank(l) < Rank(job[v].plan[i])
    BY <1>3 DEF Held
<1>5. InTransaction(v)
    BY <1>4 DEF GoesOn, Holding, InTransaction
<1>6. job[v].plan \in Seq(Lock) /\ job[v].plan # <<>>
    BY <1>5, Typed DEF GoesOn, Accounts, Request
<1>7. 1 \in 1 .. Len(job[v].plan) /\ Head(job[v].plan) = job[v].plan[1]
    BY <1>6
<1> QED
    BY <1>2, <1>4, <1>5, <1>7

(* However many requests and however small the pool, they never all wait for *)
(* each other: a session releases its connection before the statistics ask   *)
(* for one, and every transaction locks the rows in the same order.          *)
(* (db.py:79-84, main.py, services/key_usage.py.)                            *)
THEOREM NotAllWaitHolds ==
    Spec => []NotAllWait
<1>1. IInv => NotAllWait
    <2> SUFFICES ASSUME Accounts, Held, NEW b \in Worker, job[b].at # "idle",
                        \A w \in Worker : ~GoesOn(w)
                 PROVE  FALSE
        BY DEF IInv, NotAllWait
    <2>1. \E w \in Worker : InTransaction(w)
        <3>1. job[b].at \in Places /\ conn \subseteq Worker /\ pool \in Nat /\ pool > 0
            BY Typed DEF Accounts, Types, TypeOK, Request, Held
        <3>2. CASE job[b].at \in {"handler", "statistics"}
            <4>1. ~(Cardinality(conn) < pool)
                BY <3>2 DEF GoesOn
            <4>2. conn # {}
                BY <3>1, <4>1, FS_EmptySet
            <4>3. PICK w \in Worker : w \in conn
                BY <3>1, <4>2
            <4>4. job[w].at \in Holding
                BY <4>3 DEF Held
            <4> QED
                BY <4>4 DEF GoesOn, Holding, InTransaction
        <3>3. CASE job[b].at \notin {"handler", "statistics"}
            BY <3>1, <3>3 DEF GoesOn, InTransaction, Places
        <3> QED
            BY <3>2, <3>3
    <2>2. PICK w0 \in Worker : InTransaction(w0)
        BY <2>1
    <2>3. PICK w1 \in Worker : InTransaction(w1) /\ Rank(Head(job[w0].plan)) < Rank(Head(job[w1].plan))
        BY <2>2, WaitsForLater
    <2>4. PICK w2 \in Worker : InTransaction(w2) /\ Rank(Head(job[w1].plan)) < Rank(Head(job[w2].plan))
        BY <2>3, WaitsForLater
    <2>5. PICK w3 \in Worker : InTransaction(w3) /\ Rank(Head(job[w2].plan)) < Rank(Head(job[w3].plan))
        BY <2>4, WaitsForLater
    <2>6. /\ Rank(Head(job[w0].plan)) \in 0 .. 2 /\ Rank(Head(job[w1].plan)) \in 0 .. 2
          /\ Rank(Head(job[w2].plan)) \in 0 .. 2 /\ Rank(Head(job[w3].plan)) \in 0 .. 2
        BY RankTyped
    <2> QED
        BY <2>3, <2>4, <2>5, <2>6
<1> QED
    BY <1>1, InvariantHolds, PTL
================================================================================
