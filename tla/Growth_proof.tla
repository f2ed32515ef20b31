------------------------------ MODULE Growth_proof ------------------------------
(***************************************************************************)
(* Theorems about Growth, for any pigs, workers, appearances and levels.   *)
(* What concerns the feeds and the answers holds on either database; that  *)
(* no growth is lost, and that rolls are kept, needs MySQL's row locks.    *)
(***************************************************************************)
EXTENDS Growth, FiniteSetTheorems, TLAPS

(* The rows that transactions lock; SQLite's database. *)
Lock == {<<"pig", g>> : g \in Pig} \cup {<<"roll", d>> : d \in Day} \cup {<<"draw">>, <<"database">>}

(* The transactions of the workers. *)
Reading == [op : {"roll", "makeup"}, pc : {"read"}, day : Day, pig : Pig, withGroup : BOOLEAN,
            tries : Nat, owned : SUBSET Pig, locks : {{}}]
Rolling == [op : {"roll", "makeup"}, pc : {"grown"}, day : Day, pig : Pig, withGroup : BOOLEAN,
            tries : Nat, result : Roll, collects : BOOLEAN, counts : BOOLEAN, draws : BOOLEAN,
            locks : SUBSET Lock]
Losing == [op : {"roll", "makeup"}, pc : {"lost"}, day : Day, pig : Pig, withGroup : BOOLEAN,
           tries : Nat, locks : {{}}]
Hungry == [op : {"feed"}, pc : {"read"}, day : Day, locks : {{}}]
Feeding == [op : {"feed"}, pc : {"grown"}, day : Day, counts : BOOLEAN, bonus : Nat, row : Feed,
            locks : SUBSET Lock]
Showing == [op : {"snapshot"}, pc : {"grown"}, day : Day, look : Look, makeup : BOOLEAN,
            locks : SUBSET Lock]

Job == Reading \cup Rolling \cup Losing \cup Hungry \cup Feeding \cup Showing \cup {Idle}

-----------------------------------------------------------------------------
(* On either database *)

Rolls(j) == j.op \in {"roll", "makeup"}

(* What a transaction writes of a roll it has not made, or of a roll that is *)
(* there and keeps its pig.                                                  *)
Faithful(j) ==
    /\ Rolls(j) => (j.op = "makeup" => j.day = "yesterday" /\ ~j.withGroup)
    /\ Rolls(j) /\ j.pc = "grown" =>
          /\ j.result.pig = j.pig /\ j.result.kept /\ j.result.look = NoLook
          /\ j.result.makeup <=> j.op = "makeup"
    /\ j.op = "feed" /\ j.pc = "grown" =>
          /\ Rolled(j.day) /\ ~roll[j.day].makeup /\ j.row.pig = roll[j.day].pig
          /\ j.row.after = j.row.before + 1 /\ j.row.after <= MaxLevel
    /\ j.op = "snapshot" => Rolled(j.day) /\ j.makeup = roll[j.day].makeup

Base ==
    /\ TypeOK
    /\ job \in [Worker -> Job]
    /\ \A p \in Worker : Faithful(job[p])
    /\ OnePigPerDay
    /\ FeedsAreEarned

-----------------------------------------------------------------------------
(* With row locks *)

LocksApart == \A p, q \in Worker : p # q => job[p].locks \cap job[q].locks = {}

(* What a transaction has read is still true of the rows that it has locked; *)
(* of a row that was not there it knows what it will write if there is none. *)
UpToDate(j) ==
    /\ Rolls(j) /\ j.pc = "read" => j.owned \subseteq owned
    /\ Rolls(j) /\ j.pc = "grown" =>
          /\ j.result.after = j.result.before + 1
          /\ j.result.to = IF j.result.new THEN 0 ELSE j.result.from + 1
          /\ j.result.new <=> j.collects /\ j.counts
          /\ ~j.collects => j.pig \in owned
          /\ j.counts => j.result.before = IF j.collects THEN 0 ELSE 1
          /\ ~j.counts => /\ HasProgress(j.pig) /\ <<"pig", j.pig>> \in j.locks
                          /\ j.result.before = progress[j.pig].copies
          /\ j.draws => j.result.from = 0
          /\ ~j.draws => streak >= 0 /\ <<"draw">> \in j.locks /\ j.result.from = streak
    /\ j.op = "feed" /\ j.pc = "grown" =>
          /\ j.counts => j.bonus = 1 /\ j.row.before = Level(1, 0)
          /\ ~j.counts => /\ HasProgress(j.row.pig) /\ <<"pig", j.row.pig>> \in j.locks
                          /\ j.bonus = progress[j.row.pig].bonus + 1
                          /\ j.row.before = Level(progress[j.row.pig].copies, progress[j.row.pig].bonus)
    /\ j.op = "snapshot" =>
          <<"roll", j.day>> \in j.locks /\ roll[j.day].kept /\ roll[j.day].look = NoLook

DrawnDays(g) == {d \in Drawn : roll[d].pig = g}
FedDays(g) == {d \in Day : feed[d].pig = g}

(* The growth of a pig is its history, whether or not it has a row yet. *)
PigSound(g) ==
    /\ HasProgress(g) =>
          progress[g].copies = Cardinality(DrawnDays(g)) + IF g \in old THEN 1 ELSE 0
    /\ DrawnDays(g) # {} => HasProgress(g)
    /\ g \in owned <=> g \in old \/ DrawnDays(g) # {}
    /\ progress[g].bonus = Cardinality(FedDays(g))
    /\ ~HasProgress(g) => FedDays(g) = {}

(* The last roll left the streak and the copies that its pig has. *)
Serial ==
    /\ \A d \in Drawn : /\ roll[d].after = roll[d].before + 1
                        /\ roll[d].new <=> roll[d].before = 0
    /\ Drawn # {} => \E last \in Drawn :
          /\ streak = roll[last].to
          /\ progress[roll[last].pig].copies = roll[last].after
          /\ \A d \in Drawn \ {last} :
                /\ roll[last].from = roll[d].to
                /\ roll[last].pig = roll[d].pig => roll[last].before = roll[d].after

(* Only a roll of the time before progress has no recorded growth. *)
OldRolls == \A d \in Day : Rolled(d) /\ ~roll[d].kept => roll[d].pig \in old

IInv ==
    /\ Base
    /\ LocksApart
    /\ \A p \in Worker : UpToDate(job[p])
    /\ \A g \in Pig : PigSound(g)
    /\ Serial
    /\ OldRolls

-----------------------------------------------------------------------------
(* Transactions *)

LEMMA JobKinds ==
    ASSUME job \in [Worker -> Job], NEW p \in Worker
    PROVE  /\ job[p] \in Job
           /\ Rolls(job[p]) => job[p] \in Reading \cup Rolling \cup Losing
           /\ Rolls(job[p]) /\ job[p].pc = "read" => job[p] \in Reading
           /\ Rolls(job[p]) /\ job[p].pc = "grown" => job[p] \in Rolling
           /\ Rolls(job[p]) /\ job[p].pc = "lost" => job[p] \in Losing
           /\ job[p].op = "feed" /\ job[p].pc = "read" => job[p] \in Hungry
           /\ job[p].op = "feed" /\ job[p].pc = "grown" => job[p] \in Feeding
           /\ job[p].op = "snapshot" => job[p] \in Showing
BY DEF Job, Rolls, Reading, Rolling, Losing, Hungry, Feeding, Showing, Idle

LEMMA Kinds ==
    /\ Reading \subseteq Job /\ Rolling \subseteq Job /\ Losing \subseteq Job /\ Hungry \subseteq Job
    /\ Feeding \subseteq Job /\ Showing \subseteq Job /\ Idle \in Job
    /\ ~Rolls(Idle) /\ Idle.op = "idle" /\ Idle.locks = {}
BY DEF Job, Rolls, Idle

(* Rolls keep their pigs and their kind. *)
RollsStay ==
    \A d \in Day : Rolled(d) => roll'[d].pig = roll[d].pig /\ roll'[d].makeup = roll[d].makeup

LEMMA FaithfulStays ==
    ASSUME Base, RollsStay, NEW p \in Worker, NEW r \in Job, job' = [job EXCEPT ![p] = r],
           Faithful(r)'
    PROVE  job' \in [Worker -> Job] /\ \A x \in Worker : Faithful(job[x])'
<1>1. job \in [Worker -> Job]
    BY DEF Base
<1>2. job' \in [Worker -> Job] /\ job'[p] = r /\ \A x \in Worker \ {p} : job'[x] = job[x]
    BY <1>1
<1>3. ASSUME NEW x \in Worker, x # p PROVE Faithful(job[x])'
    <2>1. job'[x] = job[x] /\ Faithful(job[x])
        BY <1>2, <1>3 DEF Base
    <2>2. /\ job[x].op = "feed" /\ job[x].pc = "grown" => job[x].day \in Day
          /\ job[x].op = "snapshot" => job[x].day \in Day
        BY <1>1, JobKinds DEF Feeding, Showing
    <2> QED
        BY <2>1, <2>2 DEF Faithful, RollsStay, Rolled
<1>4. Faithful(job[p])'
    BY <1>2 DEF Faithful, Rolled
<1> QED
    BY <1>2, <1>3, <1>4

(* A step that only changes a transaction. *)
LEMMA JobOnly ==
    ASSUME Base, NEW p \in Worker, NEW r \in Job, job' = [job EXCEPT ![p] = r], Faithful(r),
           UNCHANGED <<roll, owned, progress, streak, feed, grouped, told, old>>
    PROVE  Base'
<1>1. RollsStay /\ Faithful(r)'
    BY DEF RollsStay, Faithful, Rolled
<1>2. job' \in [Worker -> Job] /\ \A x \in Worker : Faithful(job[x])'
    BY <1>1, FaithfulStays
<1>3. TypeOK' /\ OnePigPerDay' /\ FeedsAreEarned'
    BY DEF Base, TypeOK, OnePigPerDay, FeedsAreEarned, Rolled, Fed
<1> QED
    BY <1>2, <1>3 DEF Base

LEMMA StopOnly ==
    ASSUME Base, NEW p \in Worker, Stop(p),
           UNCHANGED <<roll, owned, progress, streak, feed, grouped, told, old>>
    PROVE  Base'
<1>1. Faithful(Idle)
    BY Kinds DEF Faithful
<1> QED
    BY <1>1, Kinds, JobOnly DEF Stop

-----------------------------------------------------------------------------
(* The steps, on either database *)

LEMMA StartedSound ==
    ASSUME Base, NEW op \in {"roll", "makeup"}, NEW d \in Day, NEW g \in Pig,
           NEW withGroup \in BOOLEAN, NEW n \in Nat,
           op = "makeup" => d = "yesterday" /\ ~withGroup
    PROVE  /\ Started(op, d, g, withGroup, n) \in Reading
           /\ Faithful(Started(op, d, g, withGroup, n))
<1>1. Started(op, d, g, withGroup, n) \in Reading
    BY DEF Started, Reading, Base, TypeOK
<1>2. /\ Started(op, d, g, withGroup, n).op = op /\ Started(op, d, g, withGroup, n).pc = "read"
      /\ Started(op, d, g, withGroup, n).withGroup = withGroup /\ Started(op, d, g, withGroup, n).day = d
    BY DEF Started
<1> QED
    BY <1>1, <1>2 DEF Faithful

LEMMA BaseRollBegin ==
    ASSUME Base, NEW p \in Worker, NEW op \in {"roll", "makeup"}, NEW d \in Day, NEW g \in Pig,
           NEW withGroup \in BOOLEAN, RollBegin(p, op, d, g, withGroup)
    PROVE  Base'
<1> DEFINE r == Started(op, d, g, withGroup, 1)
<1>1. r \in Job /\ Faithful(r)
    BY StartedSound, Kinds DEF RollBegin
<1> HIDE DEF r
<1> QED
    BY <1>1, JobOnly DEF RollBegin, r

(* What the new roll will record. *)
LEMMA GrownTyped ==
    ASSUME Base, NEW j \in Reading
    PROVE  /\ Grown(j) \in Roll /\ Grown(j).pig = j.pig /\ Grown(j).kept /\ Grown(j).look = NoLook
           /\ Grown(j).makeup <=> j.op = "makeup"
           /\ Grown(j).new <=> j.pig \notin SeenOwned(j) /\ ~HasProgress(j.pig)
           /\ Grown(j).after = Grown(j).before + 1
           /\ Grown(j).before = IF Grown(j).new THEN 0
                                ELSE IF HasProgress(j.pig) THEN progress[j.pig].copies ELSE 1
           /\ Grown(j).from = IF streak >= 0 THEN streak ELSE 0
           /\ Grown(j).to = IF Grown(j).new THEN 0 ELSE Grown(j).from + 1
<1>0. j.pig \in Pig /\ progress[j.pig].copies \in Nat /\ streak \in Nat \cup {-1}
    BY DEF Reading, Base, TypeOK
<1> DEFINE isNew == j.pig \notin SeenOwned(j) /\ ~HasProgress(j.pig)
           before == IF isNew THEN 0 ELSE IF HasProgress(j.pig) THEN progress[j.pig].copies ELSE 1
           from == IF streak >= 0 THEN streak ELSE 0
           to == IF isNew THEN 0 ELSE from + 1
           makeup == j.op = "makeup"
<1>1. before \in Nat /\ from \in Nat /\ to \in Nat /\ isNew \in BOOLEAN /\ makeup \in BOOLEAN
    BY <1>0
<1>2. Grown(j) = [pig |-> j.pig, makeup |-> makeup, kept |-> TRUE, look |-> NoLook, before |-> before,
                  after |-> before + 1, new |-> isNew, from |-> from, to |-> to]
    BY DEF Grown
<1>3. /\ before = IF isNew THEN 0 ELSE IF HasProgress(j.pig) THEN progress[j.pig].copies ELSE 1
      /\ from = IF streak >= 0 THEN streak ELSE 0
      /\ to = IF isNew THEN 0 ELSE from + 1
      /\ isNew <=> j.pig \notin SeenOwned(j) /\ ~HasProgress(j.pig)
      /\ makeup <=> j.op = "makeup"
    OBVIOUS
<1> HIDE DEF isNew, before, from, to, makeup
<1>4. Grown(j) \in Roll
    BY <1>0, <1>1, <1>2 DEF Roll
<1> QED
    BY <1>1, <1>2, <1>3, <1>4

(* The transaction of a roll that has read what it needs. *)
Grows(j) == [op |-> j.op, pc |-> "grown", day |-> j.day, pig |-> j.pig,
             withGroup |-> j.withGroup, tries |-> j.tries, result |-> Grown(j),
             collects |-> j.pig \notin SeenOwned(j),
             counts |-> ~HasProgress(j.pig), draws |-> streak < 0,
             locks |-> IF LocksDatabase(j) THEN {<<"database">>} ELSE GrowthRows(j.pig)]

LEMMA GrowsTyped ==
    ASSUME Base, NEW j \in Reading
    PROVE  /\ Grows(j) \in Rolling /\ Grows(j).op = j.op /\ Grows(j).pc = "grown" /\ Grows(j).pig = j.pig
           /\ Grows(j).day = j.day /\ Grows(j).withGroup = j.withGroup /\ Grows(j).result = Grown(j)
           /\ Grows(j).collects <=> j.pig \notin SeenOwned(j)
           /\ Grows(j).counts <=> ~HasProgress(j.pig)
           /\ Grows(j).draws <=> streak < 0
           /\ ~LocksDatabase(j) => Grows(j).locks = GrowthRows(j.pig)
<1>1. Grown(j) \in Roll
    BY GrownTyped
<1> DEFINE collects == j.pig \notin SeenOwned(j)
           counts == ~HasProgress(j.pig)
           draws == streak < 0
           locks == IF LocksDatabase(j) THEN {<<"database">>} ELSE GrowthRows(j.pig)
<1>2. locks \in SUBSET Lock
    BY DEF Reading, GrowthRows, PigRow, DrawRow, Lock
<1>3. collects \in BOOLEAN /\ counts \in BOOLEAN /\ draws \in BOOLEAN
    OBVIOUS
<1>4. Grows(j) = [op |-> j.op, pc |-> "grown", day |-> j.day, pig |-> j.pig,
                  withGroup |-> j.withGroup, tries |-> j.tries, result |-> Grown(j),
                  collects |-> collects, counts |-> counts, draws |-> draws, locks |-> locks]
    BY DEF Grows
<1>5. /\ collects <=> j.pig \notin SeenOwned(j)
      /\ counts <=> ~HasProgress(j.pig)
      /\ draws <=> streak < 0
      /\ ~LocksDatabase(j) => locks = GrowthRows(j.pig)
    OBVIOUS
<1> HIDE DEF collects, counts, draws, locks
<1>6. Grows(j) \in Rolling
    BY <1>1, <1>2, <1>3, <1>4 DEF Reading, Rolling
<1> QED
    BY <1>4, <1>5, <1>6

LEMMA BaseRollGrow ==
    ASSUME Base, NEW p \in Worker, RollGrow(p)
    PROVE  Base'
<1> DEFINE j == job[p]
           r == Grows(j)
<1>1. j \in Reading /\ Rolls(j) /\ Faithful(j)
    BY JobKinds DEF RollGrow, Base, Rolls
<1>2. job' = [job EXCEPT ![p] = r]
      /\ UNCHANGED <<roll, owned, progress, streak, feed, grouped, told, old>>
    BY DEF RollGrow, Grows
<1> HIDE DEF j
<1>3. /\ r \in Rolling /\ r.op = j.op /\ r.pig = j.pig /\ r.day = j.day /\ r.withGroup = j.withGroup
      /\ r.result = Grown(j)
    BY <1>1, GrowsTyped
<1> HIDE DEF r
<1>4. Faithful(r)
    BY <1>1, <1>3, GrownTyped DEF Faithful, Rolls, Rolling
<1> QED
    BY <1>2, <1>3, <1>4, Kinds, JobOnly

(* A transaction that has lost its rows, or whose database gives up. *)
LEMMA BaseClash ==
    ASSUME Base, NEW p \in Worker, Clash(p)
    PROVE  Base'
<1> DEFINE j == job[p]
           r == [op |-> j.op, pc |-> "lost", day |-> j.day, pig |-> j.pig,
                  withGroup |-> j.withGroup, tries |-> j.tries, locks |-> {}]
<1>1. j \in Reading \cup Rolling \cup Losing /\ Rolls(j) /\ Faithful(j)
    BY JobKinds DEF Clash, Base, Rolls
<1>2. job' = [job EXCEPT ![p] = r]
      /\ UNCHANGED <<roll, owned, progress, streak, feed, grouped, told, old>>
    BY DEF Clash
<1> HIDE DEF j
<1>3. r \in Losing /\ Faithful(r)
    BY <1>1 DEF Reading, Rolling, Losing, Faithful, Rolls
<1> HIDE DEF r
<1> QED
    BY <1>2, <1>3, Kinds, JobOnly

LEMMA BaseRetry ==
    ASSUME Base, NEW p \in Worker, Rolls(job[p]), Retry(p, job[p]),
           UNCHANGED <<roll, owned, progress, streak, feed, grouped, told, old>>
    PROVE  Base'
<1> DEFINE j == job[p]
           r == Started(j.op, j.day, j.pig, j.withGroup, j.tries + 1)
<1>1. j \in Reading \cup Rolling \cup Losing /\ Faithful(j)
    BY JobKinds DEF Base
<1>2. job' = [job EXCEPT ![p] = r] \/ Stop(p)
    BY DEF Retry, Stop
<1> HIDE DEF j
<1>3. /\ j.op \in {"roll", "makeup"} /\ j.day \in Day /\ j.pig \in Pig /\ j.withGroup \in BOOLEAN
      /\ j.tries + 1 \in Nat /\ (j.op = "makeup" => j.day = "yesterday" /\ ~j.withGroup)
    BY <1>1 DEF Reading, Rolling, Losing, Faithful, Rolls
<1>4. r \in Reading /\ Faithful(r)
    BY <1>3, StartedSound
<1> HIDE DEF r
<1> QED
    BY <1>2, <1>4, Kinds, JobOnly, StopOnly

(* A client is told the roll of a day, and the day may get a group roll. *)
LEMMA BaseAnswer ==
    ASSUME Base, NEW op \in {"roll", "makeup"}, NEW d \in Day, NEW withGroup \in BOOLEAN, Rolled(d),
           Answer(op, d, withGroup), UNCHANGED <<roll, owned, progress, streak, feed, old>>,
           job' = job \/ \E p \in Worker : Stop(p)
    PROVE  Base'
<1>1. roll[d].pig \in Pig
    BY DEF Base, TypeOK, Roll, Rolled
<1>2. TypeOK'
    BY <1>1 DEF Answer, Registered, Base, TypeOK
<1>3. OnePigPerDay'
    <2> SUFFICES ASSUME NEW e \in Day
                 PROVE  /\ told'[e] \subseteq {roll[e].pig}
                        /\ grouped'[e] = "roll" => Rolled(e) /\ ~roll[e].makeup
        BY DEF OnePigPerDay, Rolled
    <2>1. told'[e] \subseteq told[e] \cup (IF e = d THEN {roll[d].pig} ELSE {})
        BY DEF Answer, Base, TypeOK
    <2>2. grouped'[e] = "roll" => grouped[e] = "roll" \/ (e = d /\ ~roll[d].makeup)
        BY DEF Answer, Registered, Base, TypeOK
    <2> QED
        BY <2>1, <2>2 DEF Base, OnePigPerDay
<1>4. FeedsAreEarned'
    BY DEF FeedsAreEarned, Base, Fed
<1>5. job' \in [Worker -> Job] /\ \A x \in Worker : Faithful(job[x])'
    <2>1. RollsStay
        BY DEF RollsStay
    <2>2. ASSUME NEW p \in Worker, Stop(p)
          PROVE  job' \in [Worker -> Job] /\ \A x \in Worker : Faithful(job[x])'
        <3>1. Faithful(Idle)'
            BY Kinds DEF Faithful
        <3> QED
            BY <2>1, <2>2, <3>1, Kinds, FaithfulStays DEF Stop
    <2>3. CASE job' = job
        BY <2>3 DEF Base, Faithful, Rolled
    <2> QED
        BY <2>2, <2>3
<1> QED
    BY <1>2, <1>3, <1>4, <1>5 DEF Base

LEMMA BaseRollLost ==
    ASSUME Base, NEW p \in Worker, RollLost(p)
    PROVE  Base'
<1>1. job[p] \in Losing /\ Rolls(job[p])
    BY JobKinds DEF RollLost, Base, Rolls
<1>2. /\ job[p].op \in {"roll", "makeup"} /\ job[p].day \in Day /\ job[p].withGroup \in BOOLEAN
    BY <1>1 DEF Losing
<1>3. CASE Rolled(job[p].day) /\ Answer(job[p].op, job[p].day, job[p].withGroup) /\ Stop(p)
    BY <1>2, <1>3, BaseAnswer DEF RollLost
<1>4. CASE Retry(p, job[p]) /\ UNCHANGED <<grouped, told>>
    BY <1>1, <1>4, BaseRetry DEF RollLost
<1> QED
    BY <1>3, <1>4 DEF RollLost

LEMMA BaseAbort ==
    ASSUME Base, NEW p \in Worker, Abort(p)
    PROVE  Base'
<1>1. UNCHANGED <<roll, owned, progress, streak, feed, grouped, told, old>>
    BY DEF Abort
<1>2. CASE Stop(p)
    BY <1>1, <1>2, StopOnly
<1>3. CASE job[p].op \in {"roll", "makeup"} /\ Retry(p, job[p])
    BY <1>1, <1>3, BaseRetry DEF Rolls
<1> QED
    BY <1>2, <1>3 DEF Abort

(* Below the cap, one more meal is one more level. *)
LEMMA LevelGrows ==
    ASSUME NEW c \in Nat, NEW b \in Nat
    PROVE  /\ Level(c, b) \in Nat
           /\ c > 0 /\ ~AtCap(Level(c, b)) => /\ Level(c, b + 1) = Level(c, b) + 1
                                              /\ Level(c, b + 1) <= MaxLevel
BY GrowthAssumption DEF Level, AtCap

LEMMA BaseFeedBegin ==
    ASSUME Base, NEW p \in Worker, NEW d \in Day, FeedBegin(p, d)
    PROVE  Base'
<1> DEFINE r == [op |-> "feed", pc |-> "read", day |-> d, locks |-> {}]
<1>1. r \in Hungry /\ Faithful(r)
    BY DEF Hungry, Faithful, Rolls
<1> HIDE DEF r
<1> QED
    BY <1>1, Kinds, JobOnly DEF FeedBegin, r

(* The transaction of a feed that has read what it needs. *)
RowCopies(g) == IF HasProgress(g) THEN progress[g].copies ELSE 1
Feeds(d, g) == [op |-> "feed", pc |-> "grown", day |-> d,
                counts |-> ~HasProgress(g), bonus |-> progress[g].bonus + 1,
                row |-> [pig |-> g, before |-> Level(RowCopies(g), progress[g].bonus),
                         after |-> Level(RowCopies(g), progress[g].bonus + 1)],
                locks |-> {<<"roll", d>>} \cup PigRow(g)]

LEMMA FeedsTyped ==
    ASSUME Base, NEW d \in Day, NEW g \in Pig, ~AtCap(Level(RowCopies(g), progress[g].bonus))
    PROVE  /\ Feeds(d, g) \in Feeding /\ Feeds(d, g).day = d /\ Feeds(d, g).row.pig = g
           /\ Feeds(d, g).counts <=> ~HasProgress(g)
           /\ Feeds(d, g).bonus = progress[g].bonus + 1
           /\ Feeds(d, g).locks = {<<"roll", d>>} \cup PigRow(g)
           /\ Feeds(d, g).row.before = Level(RowCopies(g), progress[g].bonus)
           /\ Feeds(d, g).row.after = Feeds(d, g).row.before + 1
           /\ Feeds(d, g).row.after <= MaxLevel
<1>1. RowCopies(g) \in Nat /\ RowCopies(g) > 0 /\ progress[g].bonus \in Nat
    BY DEF Base, TypeOK, RowCopies, HasProgress
<1> DEFINE before == Level(RowCopies(g), progress[g].bonus)
           after == Level(RowCopies(g), progress[g].bonus + 1)
           counts == ~HasProgress(g)
           bonus == progress[g].bonus + 1
           locks == {<<"roll", d>>} \cup PigRow(g)
<1>2. before \in Nat /\ after = before + 1 /\ after <= MaxLevel
    BY <1>1, LevelGrows
<1>3. locks \in SUBSET Lock
    BY DEF PigRow, Lock
<1>4. Feeds(d, g) = [op |-> "feed", pc |-> "grown", day |-> d, counts |-> counts, bonus |-> bonus,
                     row |-> [pig |-> g, before |-> before, after |-> after], locks |-> locks]
    BY DEF Feeds
<1>5. /\ counts \in BOOLEAN /\ (counts <=> ~HasProgress(g))
      /\ bonus \in Nat /\ bonus = progress[g].bonus + 1
      /\ locks = {<<"roll", d>>} \cup PigRow(g)
      /\ before = Level(RowCopies(g), progress[g].bonus)
    BY <1>1
<1> HIDE DEF before, after, counts, bonus, locks
<1>6. [pig |-> g, before |-> before, after |-> after] \in Feed
    BY <1>2 DEF Feed
<1>7. Feeds(d, g) \in Feeding
    BY <1>3, <1>4, <1>5, <1>6 DEF Feeding
<1> QED
    BY <1>2, <1>4, <1>5, <1>7

LEMMA FeedGrowShape ==
    ASSUME Base, NEW p \in Worker, FeedGrow(p)
    PROVE  LET d == job[p].day
               g == roll[d].pig
           IN  /\ job[p] \in Hungry /\ MayLock(p, {<<"roll", d>>})
               /\ \/ Stop(p)
                  \/ /\ Rolled(d) /\ ~roll[d].makeup /\ g \in Pig /\ MayLock(p, PigRow(g))
                     /\ ~AtCap(Level(RowCopies(g), progress[g].bonus))
                     /\ job' = [job EXCEPT ![p] = Feeds(d, g)]
<1> DEFINE d == job[p].day
           g == roll[d].pig
<1>1. job[p] \in Hungry /\ d \in Day
    BY JobKinds DEF FeedGrow, Base, Hungry
<1>2. Rolled(d) => g \in Pig
    BY <1>1 DEF Base, TypeOK, Roll, Rolled
<1>3. CASE ~Feedable(d)
    BY <1>1, <1>3 DEF FeedGrow
<1>4. CASE Feedable(d)
    BY <1>1, <1>2, <1>4 DEF FeedGrow, Feedable, Feeds, RowCopies
<1> QED
    BY <1>3, <1>4

LEMMA BaseFeedGrow ==
    ASSUME Base, NEW p \in Worker, FeedGrow(p)
    PROVE  Base'
<1> DEFINE d == job[p].day
           g == roll[d].pig
           r == Feeds(d, g)
<1>1. UNCHANGED <<roll, owned, progress, streak, feed, grouped, told, old>>
    BY DEF FeedGrow
<1>2. CASE Stop(p)
    BY <1>1, <1>2, StopOnly
<1>3. CASE /\ Rolled(d) /\ ~roll[d].makeup /\ g \in Pig
           /\ ~AtCap(Level(RowCopies(g), progress[g].bonus))
           /\ job' = [job EXCEPT ![p] = r]
    <2>1. d \in Day
        BY FeedGrowShape DEF Hungry
    <2>2. /\ r \in Feeding /\ r.day = d /\ r.row.pig = g
          /\ r.row.after = r.row.before + 1 /\ r.row.after <= MaxLevel
        BY <1>3, <2>1, FeedsTyped
    <2> HIDE DEF r
    <2>3. Faithful(r)
        BY <1>3, <2>2 DEF Faithful, Feeding, Rolls
    <2> QED
        BY <1>1, <1>3, <2>2, <2>3, Kinds, JobOnly
<1> QED
    BY <1>2, <1>3, FeedGrowShape

LEMMA BaseFeedLost ==
    ASSUME Base, NEW p \in Worker, FeedLost(p)
    PROVE  Base'
BY StopOnly DEF FeedLost

LEMMA BaseSnapshotRead ==
    ASSUME Base, NEW p \in Worker, NEW d \in Day, NEW look \in Look, SnapshotRead(p, d, look)
    PROVE  Base'
<1> DEFINE r == [op |-> "snapshot", pc |-> "grown", day |-> d, look |-> look,
                 makeup |-> roll[d].makeup, locks |-> {<<"roll", d>>}]
<1>1. r \in Showing
    <2>1. roll[d].makeup \in BOOLEAN /\ {<<"roll", d>>} \in SUBSET Lock
        BY DEF Base, TypeOK, Roll, Lock
    <2> QED
        BY <2>1 DEF Showing
<1>2. r.op = "snapshot" /\ r.day = d /\ r.makeup = roll[d].makeup
    OBVIOUS
<1> HIDE DEF r
<1>3. Faithful(r)
    BY <1>2 DEF Faithful, Rolls, SnapshotRead
<1> QED
    BY <1>1, <1>3, Kinds, JobOnly DEF SnapshotRead, r

(* A roll that is committed is the first of its day. *)
LEMMA BaseRollCommit ==
    ASSUME Base, NEW p \in Worker, RollCommit(p)
    PROVE  Base'
<1> DEFINE j == job[p]
<1>1. j \in Rolling /\ Rolls(j) /\ j.pc = "grown" /\ Faithful(j) /\ ~Rolled(j.day)
    BY JobKinds DEF RollCommit, Clashes, Base, Rolls
<1>2. /\ roll' = [roll EXCEPT ![j.day] = j.result] /\ owned' = owned \cup {j.pig}
      /\ progress' = [progress EXCEPT ![j.pig].copies = j.result.after] /\ streak' = j.result.to
      /\ grouped' = IF j.withGroup THEN Registered(j.day, "roll") ELSE grouped
      /\ told' = [told EXCEPT ![j.day] = @ \cup {j.pig}]
      /\ Stop(p) /\ feed' = feed /\ old' = old
    BY DEF RollCommit
<1> HIDE DEF j
<1>3. /\ j.day \in Day /\ j.pig \in Pig /\ j.result \in Roll /\ j.result.pig = j.pig
      /\ (j.withGroup => ~j.result.makeup) /\ j.result.after \in Nat /\ j.result.to \in Nat
    BY <1>1 DEF Rolling, Faithful, Rolls, Roll
<1>4. TypeOK'
    <2>1. roll' \in [Day -> Roll] /\ feed' \in [Day -> Feed]
        BY <1>2, <1>3 DEF Base, TypeOK
    <2>2. owned' \subseteq Pig /\ old' \subseteq Pig
        BY <1>2, <1>3 DEF Base, TypeOK
    <2>3. progress' \in [Pig -> [copies : Nat, bonus : Nat]] /\ streak' \in Nat \cup {-1}
        BY <1>2, <1>3 DEF Base, TypeOK
    <2>4. grouped' \in [Day -> {"none", "roll", "mark-seen"}] /\ told' \in [Day -> SUBSET Pig]
        BY <1>2, <1>3 DEF Base, TypeOK, Registered
    <2> QED
        BY <2>1, <2>2, <2>3, <2>4 DEF TypeOK
<1>5. RollsStay
    BY <1>1, <1>2, <1>3 DEF RollsStay, Base, TypeOK
<1>6. job' \in [Worker -> Job] /\ \A x \in Worker : Faithful(job[x])'
    <2>1. Faithful(Idle)'
        BY Kinds DEF Faithful
    <2> QED
        BY <1>2, <1>5, <2>1, Kinds, FaithfulStays DEF Stop
<1>7. \A e \in Day : roll'[e] = IF e = j.day THEN j.result ELSE roll[e]
    BY <1>2, <1>3 DEF Base, TypeOK
<1>8. OnePigPerDay'
    <2> SUFFICES ASSUME NEW e \in Day
                 PROVE  /\ told'[e] \subseteq {roll'[e].pig}
                        /\ grouped'[e] = "roll" => roll'[e].pig # NoPig /\ ~roll'[e].makeup
        BY DEF OnePigPerDay, Rolled
    <2>1. told'[e] = IF e = j.day THEN told[e] \cup {j.pig} ELSE told[e]
        BY <1>2, <1>3 DEF Base, TypeOK
    <2>2. CASE e = j.day
        <3>1. told[e] \subseteq Pig /\ told[e] \subseteq {NoPig} /\ grouped[e] # "roll"
            BY <1>1, <2>2 DEF Base, TypeOK, OnePigPerDay, Rolled
        <3>2. NoPig \notin Pig
            BY GrowthAssumption
        <3>3. grouped'[e] = "roll" => j.withGroup
            BY <1>2, <3>1
        <3> QED
            BY <1>3, <1>7, <2>1, <2>2, <3>1, <3>2, <3>3
    <2>3. CASE e # j.day
        <3>1. grouped'[e] = grouped[e]
            BY <1>2, <1>3, <2>3 DEF Base, TypeOK, Registered
        <3> QED
            BY <1>7, <2>1, <2>3, <3>1 DEF Base, OnePigPerDay, Rolled
    <2> QED
        BY <2>2, <2>3
<1>9. FeedsAreEarned'
    <2> SUFFICES ASSUME NEW e \in Day, feed[e].pig # NoPig
                 PROVE  /\ feed[e].pig = roll'[e].pig /\ ~roll'[e].makeup
                        /\ feed[e].after = feed[e].before + 1 /\ feed[e].after <= MaxLevel
        BY <1>2 DEF FeedsAreEarned, Fed
    <2>1. /\ feed[e].pig = roll[e].pig /\ ~roll[e].makeup
          /\ feed[e].after = feed[e].before + 1 /\ feed[e].after <= MaxLevel
        BY DEF Base, FeedsAreEarned, Fed
    <2>2. e # j.day
        BY <1>1, <2>1 DEF Rolled
    <2> QED
        BY <1>7, <2>1, <2>2
<1> QED
    BY <1>4, <1>6, <1>8, <1>9 DEF Base

(* A feed that is committed is the first of its day, and its pig is the day's. *)
LEMMA BaseFeedCommit ==
    ASSUME Base, NEW p \in Worker, FeedCommit(p)
    PROVE  Base'
<1> DEFINE j == job[p]
<1>1. j \in Feeding /\ j.op = "feed" /\ j.pc = "grown" /\ Faithful(j)
    BY JobKinds DEF FeedCommit, Base
<1>2. /\ feed' = [feed EXCEPT ![j.day] = j.row]
      /\ progress' = [progress EXCEPT ![j.row.pig] =
                        [copies |-> IF j.counts THEN 1 ELSE @.copies, bonus |-> j.bonus]]
      /\ Stop(p) /\ UNCHANGED <<roll, owned, streak, grouped, told, old>>
    BY DEF FeedCommit
<1> HIDE DEF j
<1>3. j.day \in Day /\ j.row \in Feed /\ j.bonus \in Nat /\ j.counts \in BOOLEAN
    BY <1>1 DEF Feeding
<1>4. /\ Rolled(j.day) /\ ~roll[j.day].makeup /\ j.row.pig = roll[j.day].pig
      /\ j.row.after = j.row.before + 1 /\ j.row.after <= MaxLevel
    BY <1>1 DEF Faithful
<1>5. j.row.pig \in Pig
    BY <1>3, <1>4 DEF Base, TypeOK, Roll, Rolled
<1>6. TypeOK'
    <2>1. feed' \in [Day -> Feed]
        BY <1>2, <1>3 DEF Base, TypeOK
    <2>2. progress[j.row.pig].copies \in Nat
        BY <1>5 DEF Base, TypeOK
    <2>3. [copies |-> IF j.counts THEN 1 ELSE progress[j.row.pig].copies, bonus |-> j.bonus]
            \in [copies : Nat, bonus : Nat]
        BY <1>3, <2>2
    <2>4. progress' \in [Pig -> [copies : Nat, bonus : Nat]]
        BY <1>2, <2>3 DEF Base, TypeOK
    <2> QED
        BY <1>2, <2>1, <2>4 DEF Base, TypeOK
<1>7. RollsStay
    BY <1>2 DEF RollsStay
<1>8. job' \in [Worker -> Job] /\ \A x \in Worker : Faithful(job[x])'
    <2>1. Faithful(Idle)'
        BY Kinds DEF Faithful
    <2> QED
        BY <1>2, <1>7, <2>1, Kinds, FaithfulStays DEF Stop
<1>9. OnePigPerDay'
    BY <1>2 DEF Base, OnePigPerDay, Rolled
<1>10. FeedsAreEarned'
    <2>1. \A e \in Day : feed'[e] = IF e = j.day THEN j.row ELSE feed[e]
        BY <1>2, <1>3 DEF Base, TypeOK
    <2> QED
        BY <1>2, <1>4, <2>1 DEF Base, FeedsAreEarned, Fed
<1> QED
    BY <1>6, <1>8, <1>9, <1>10 DEF Base

(* The resources of a roll are the only thing that its snapshot replaces. *)
LEMMA SnapshotShape ==
    ASSUME Base, NEW p \in Worker, SnapshotWrite(p)
    PROVE  /\ job[p] \in Showing /\ Faithful(job[p])
           /\ roll' = [roll EXCEPT ![job[p].day] = [roll[job[p].day] EXCEPT !.look = job[p].look]]
           /\ Stop(p) /\ UNCHANGED <<owned, progress, streak, feed, grouped, told, old>>
<1> DEFINE d == job[p].day
           look == job[p].look
           makeup == job[p].makeup
<1>1. job[p] \in Showing /\ Faithful(job[p]) /\ d \in Day
    BY JobKinds DEF SnapshotWrite, Base, Showing
<1>2. makeup = roll[d].makeup
    BY <1>1 DEF Faithful, SnapshotWrite
<1>3. /\ roll' = [roll EXCEPT ![d].look = look, ![d].makeup = makeup]
      /\ Stop(p) /\ UNCHANGED <<owned, progress, streak, feed, grouped, told, old>>
    BY DEF SnapshotWrite
<1> HIDE DEF d, look, makeup
<1>4. roll \in [Day -> Roll]
    BY DEF Base, TypeOK
<1>5. roll' = [roll EXCEPT ![d] = [roll[d] EXCEPT !.look = look]]
    <2>1. PICK r \in Roll : r = roll[d]
        BY <1>1, <1>4
    <2>2. roll' = [roll EXCEPT ![d] = [[r EXCEPT !.look = look] EXCEPT !.makeup = makeup]]
        BY <1>1, <1>3, <1>4, <2>1
    <2>3. [[r EXCEPT !.look = look] EXCEPT !.makeup = makeup] = [r EXCEPT !.look = look]
        BY <1>2, <2>1 DEF Roll
    <2> QED
        BY <2>1, <2>2, <2>3
<1> QED
    BY <1>1, <1>3, <1>5 DEF d, look

LEMMA SnapshotRolls ==
    ASSUME Base, NEW p \in Worker, SnapshotWrite(p)
    PROVE  /\ roll' \in [Day -> Roll]
           /\ \A e \in Day : roll'[e] = IF e = job[p].day THEN [roll[e] EXCEPT !.look = job[p].look]
                                        ELSE roll[e]
           /\ \A e \in Day : /\ roll'[e].pig = roll[e].pig /\ roll'[e].makeup = roll[e].makeup
                             /\ roll'[e].kept = roll[e].kept /\ roll'[e].new = roll[e].new
                             /\ roll'[e].before = roll[e].before /\ roll'[e].after = roll[e].after
                             /\ roll'[e].from = roll[e].from /\ roll'[e].to = roll[e].to
<1>1. PICK d \in Day : d = job[p].day
    BY SnapshotShape DEF Showing
<1>2. PICK look \in Look : look = job[p].look
    BY SnapshotShape DEF Showing
<1>3. PICK r \in Roll : r = roll[d]
    BY DEF Base, TypeOK
<1>4. roll' = [roll EXCEPT ![d] = [r EXCEPT !.look = look]]
    BY <1>1, <1>2, <1>3, SnapshotShape
<1>5. /\ [r EXCEPT !.look = look] \in Roll
      /\ [r EXCEPT !.look = look].pig = r.pig /\ [r EXCEPT !.look = look].makeup = r.makeup
      /\ [r EXCEPT !.look = look].kept = r.kept /\ [r EXCEPT !.look = look].new = r.new
      /\ [r EXCEPT !.look = look].before = r.before /\ [r EXCEPT !.look = look].after = r.after
      /\ [r EXCEPT !.look = look].from = r.from /\ [r EXCEPT !.look = look].to = r.to
    BY <1>2, <1>3 DEF Roll
<1>6. PICK s \in Roll : s = [r EXCEPT !.look = look]
    BY <1>5
<1>7. roll' \in [Day -> Roll] /\ \A e \in Day : roll'[e] = IF e = d THEN s ELSE roll[e]
    BY <1>4, <1>6 DEF Base, TypeOK
<1>8. s = [roll[d] EXCEPT !.look = job[p].look]
    BY <1>1, <1>2, <1>3, <1>6
<1>9. s.pig = r.pig /\ s.makeup = r.makeup /\ s.kept = r.kept /\ s.new = r.new
      /\ s.before = r.before /\ s.after = r.after /\ s.from = r.from /\ s.to = r.to
    BY <1>5, <1>6
<1>10. \A e \in Day : roll'[e] = IF e = job[p].day THEN [roll[e] EXCEPT !.look = job[p].look]
                                 ELSE roll[e]
    BY <1>1, <1>7, <1>8
<1> QED
    BY <1>3, <1>7, <1>9, <1>10

LEMMA BaseSnapshotWrite ==
    ASSUME Base, NEW p \in Worker, SnapshotWrite(p)
    PROVE  Base'
<1>1. Stop(p) /\ UNCHANGED <<owned, progress, streak, feed, grouped, told, old>>
    BY SnapshotShape
<1>2. /\ roll' \in [Day -> Roll]
      /\ \A e \in Day : roll'[e].pig = roll[e].pig /\ roll'[e].makeup = roll[e].makeup
    BY SnapshotRolls
<1>3. TypeOK' /\ RollsStay
    BY <1>1, <1>2 DEF Base, TypeOK, RollsStay
<1>4. job' \in [Worker -> Job] /\ \A x \in Worker : Faithful(job[x])'
    <2>1. Faithful(Idle)'
        BY Kinds DEF Faithful
    <2> QED
        BY <1>1, <1>3, <2>1, Kinds, FaithfulStays DEF Stop
<1>5. OnePigPerDay' /\ FeedsAreEarned'
    BY <1>1, <1>2 DEF Base, OnePigPerDay, FeedsAreEarned, Rolled, Fed
<1> QED
    BY <1>3, <1>4, <1>5 DEF Base

LEMMA BaseInit ==
    ASSUME Init
    PROVE  Base
<1>1. PICK had \in SUBSET Pig, first \in Pig \cup {NoPig} :
         \E counted \in SUBSET had :
           /\ old = had /\ owned = had
           /\ progress = [g \in Pig |-> [copies |-> IF g \in counted THEN 1 ELSE 0, bonus |-> 0]]
           /\ streak = IF counted = {} THEN -1 ELSE 0
           /\ roll = [d \in Day |-> IF d = "yesterday" THEN [NoRoll EXCEPT !.pig = first] ELSE NoRoll]
           /\ feed = [d \in Day |-> NoFeed]
           /\ grouped = [d \in Day |-> "none"] /\ told = [d \in Day |-> {}]
           /\ job = [p \in Worker |-> Idle]
    BY DEF Init
<1>2. roll \in [Day -> Roll]
    <2>1. PICK r \in Roll : r = NoRoll
        BY DEF NoRoll, Roll
    <2>2. [r EXCEPT !.pig = first] \in Roll
        BY DEF Roll
    <2> QED
        BY <1>1, <2>1, <2>2
<1>3. feed \in [Day -> Feed] /\ \A d \in Day : ~Fed(d)
    BY <1>1 DEF NoFeed, Feed, Fed
<1>4. /\ progress \in [Pig -> [copies : Nat, bonus : Nat]] /\ streak \in Nat \cup {-1}
      /\ owned \subseteq Pig /\ old \subseteq Pig /\ told \in [Day -> SUBSET Pig]
      /\ grouped \in [Day -> {"none", "roll", "mark-seen"}]
    BY <1>1
<1>5. job \in [Worker -> Job] /\ \A p \in Worker : Faithful(job[p])
    BY <1>1, Kinds DEF Faithful
<1>6. OnePigPerDay /\ FeedsAreEarned
    BY <1>1, <1>3 DEF OnePigPerDay, FeedsAreEarned
<1> QED
    BY <1>2, <1>3, <1>4, <1>5, <1>6 DEF Base, TypeOK

LEMMA BaseMarkSeen ==
    ASSUME Base, NEW d \in Day, MarkSeen(d)
    PROVE  Base'
<1>1. /\ grouped' \in [Day -> {"none", "roll", "mark-seen"}]
      /\ \A e \in Day : grouped'[e] = "roll" => grouped[e] = "roll"
    BY DEF MarkSeen, Registered, Base, TypeOK
<1>2. UNCHANGED <<roll, owned, progress, streak, feed, told, job, old>>
    BY DEF MarkSeen
<1>3. TypeOK' /\ OnePigPerDay' /\ FeedsAreEarned'
    BY <1>1, <1>2 DEF Base, TypeOK, OnePigPerDay, FeedsAreEarned, Rolled, Fed
<1> QED
    BY <1>2, <1>3 DEF Base, Faithful, Rolled

LEMMA BaseNext ==
    ASSUME Base, [Next]_vars
    PROVE  Base'
<1>1. CASE \E op \in {"roll", "makeup"}, d \in Day, withGroup \in BOOLEAN : Repeat(op, d, withGroup)
    BY <1>1, BaseAnswer DEF Repeat
<1>2. ASSUME NEW p \in Worker, Begin(p)
      PROVE  Base'
    BY <1>2, BaseRollBegin, BaseFeedBegin, BaseSnapshotRead DEF Begin
<1>3. ASSUME NEW p \in Worker, Go(p)
      PROVE  Base'
    BY <1>3, BaseRollGrow, BaseRollCommit, BaseClash, BaseRollLost, BaseFeedGrow, BaseFeedCommit,
       BaseFeedLost, BaseSnapshotWrite DEF Go
<1>4. ASSUME NEW p \in Worker, Abort(p)
      PROVE  Base'
    BY <1>4, BaseAbort
<1>5. CASE UNCHANGED vars
    BY <1>5 DEF vars, Base, TypeOK, Faithful, OnePigPerDay, FeedsAreEarned, Rolled, Fed
<1>6. ASSUME NEW d \in Marked, MarkSeen(d)
      PROVE  Base'
    BY <1>6, BaseMarkSeen, GrowthAssumption
<1> QED
    BY <1>1, <1>2, <1>3, <1>4, <1>5, <1>6 DEF Next

(* What the transactions write of rolls and feeds is right on MySQL and on   *)
(* SQLite alike.                                                             *)
THEOREM BaseHolds == Spec => []Base
BY BaseInit, BaseNext, PTL DEF Spec

(* Whoever wins a day, all clients are told its pig, and /get-or-create      *)
(* never registers a day that was made up in a group (daily_rolls.py,        *)
(* get_or_create_daily_roll and makeup_daily_roll).                          *)
THEOREM OnePigPerDayHolds == Spec => []OnePigPerDay
<1>1. Base => OnePigPerDay
    BY DEF Base
<1> QED
    BY <1>1, BaseHolds, PTL

(* A feed takes the day's pig one level up, below the cap, and never a       *)
(* made-up roll's (progress.py, apply_daily_feed).                           *)
THEOREM FeedsAreEarnedHolds == Spec => []FeedsAreEarned
<1>1. Base => FeedsAreEarned
    BY DEF Base
<1> QED
    BY <1>1, BaseHolds, PTL

-----------------------------------------------------------------------------
(* With row locks: the rows a transaction has read cannot change under it *)

(* The history of the rolls and feeds, which a transaction alone leaves.     *)
History == (\A g \in Pig : PigSound(g)) /\ Serial /\ OldRolls

LEMMA HistoryStays ==
    ASSUME History, UNCHANGED <<roll, owned, progress, streak, feed, old>>
    PROVE  History'
<1>1. (\A g \in Pig : PigSound(g))'
    <2> SUFFICES ASSUME NEW g \in Pig
                 PROVE  PigSound(g)'
        OBVIOUS
    <2>1. DrawnDays(g)' = DrawnDays(g) /\ FedDays(g)' = FedDays(g)
        BY DEF DrawnDays, FedDays, Drawn, Rolled
    <2>2. PigSound(g)
        BY DEF History
    <2> QED
        BY <2>1, <2>2 DEF PigSound, HasProgress
<1>2. Serial' /\ OldRolls'
    BY DEF History, Serial, OldRolls, Drawn, Rolled
<1> QED
    BY <1>1, <1>2 DEF History

(* A transaction p that goes on keeps its locks apart from the others'.      *)
LEMMA ApartStays ==
    ASSUME job \in [Worker -> Job], LocksApart, NEW p \in Worker, NEW r,
           job' = [job EXCEPT ![p] = r], r.locks \cap Held(p) = {}
    PROVE  LocksApart'
<1> SUFFICES ASSUME NEW x \in Worker, NEW y \in Worker, x # y
             PROVE  job'[x].locks \cap job'[y].locks = {}
    BY DEF LocksApart
<1>1. job'[p] = r /\ \A z \in Worker \ {p} : job'[z] = job[z]
    OBVIOUS
<1>2. \A z \in Worker \ {p} : job[z].locks \subseteq Held(p)
    BY DEF Held
<1> QED
    BY <1>1, <1>2 DEF LocksApart

LEMMA Quiet ==
    ASSUME IInv, Base', NEW p \in Worker, NEW r, job' = [job EXCEPT ![p] = r],
           r.locks \cap Held(p) = {}, UpToDate(r),
           UNCHANGED <<roll, owned, progress, streak, feed, old>>
    PROVE  IInv'
<1>1. job \in [Worker -> Job] /\ LocksApart
    BY DEF IInv, Base
<1>2. LocksApart'
    BY <1>1, ApartStays
<1>3. \A x \in Worker : UpToDate(job[x])'
    <2>1. \A x \in Worker : UpToDate(job'[x])
        BY <1>1 DEF IInv
    <2> QED
        BY <2>1 DEF UpToDate, HasProgress
<1>4. History'
    BY HistoryStays DEF IInv, History
<1> QED
    BY <1>2, <1>3, <1>4 DEF IInv, History

(* A transaction that holds nothing knows nothing. *)
LEMMA NothingHeld ==
    /\ UpToDate(Idle) /\ Idle.locks = {}
    /\ \A r \in Losing \cup Hungry : UpToDate(r) /\ r.locks = {}
    /\ \A r \in Reading : r.locks = {} /\ (r.owned \subseteq owned => UpToDate(r))
<1>1. UpToDate(Idle) /\ Idle.locks = {}
    BY Kinds DEF UpToDate
<1>2. \A r \in Losing \cup Hungry : UpToDate(r) /\ r.locks = {}
    <2>1. /\ \A r \in Losing : r.op \in {"roll", "makeup"} /\ r.pc = "lost" /\ r.locks = {}
          /\ \A r \in Hungry : r.op = "feed" /\ r.pc = "read" /\ r.locks = {}
        BY DEF Losing, Hungry
    <2> QED
        BY <2>1 DEF UpToDate, Rolls
<1>3. \A r \in Reading : r.locks = {} /\ (r.owned \subseteq owned => UpToDate(r))
    <2> SUFFICES ASSUME NEW r \in Reading
                 PROVE  r.locks = {} /\ (r.owned \subseteq owned => UpToDate(r))
        OBVIOUS
    <2>1. r.op \in {"roll", "makeup"} /\ r.pc = "read" /\ r.locks = {}
        BY DEF Reading
    <2> QED
        BY <2>1 DEF UpToDate
<1> QED
    BY <1>1, <1>2, <1>3

LEMMA QuietStop ==
    ASSUME IInv, Base', NEW p \in Worker, Stop(p),
           UNCHANGED <<roll, owned, progress, streak, feed, old>>
    PROVE  IInv'
BY NothingHeld, Quiet DEF Stop

LEMMA QuietStart ==
    ASSUME IInv, Base', NEW p \in Worker, NEW op \in {"roll", "makeup"}, NEW d \in Day, NEW g \in Pig,
           NEW withGroup \in BOOLEAN, NEW n \in Nat,
           op = "makeup" => d = "yesterday" /\ ~withGroup,
           job' = [job EXCEPT ![p] = Started(op, d, g, withGroup, n)],
           UNCHANGED <<roll, owned, progress, streak, feed, old>>
    PROVE  IInv'
<1> DEFINE r == Started(op, d, g, withGroup, n)
<1>1. r \in Reading /\ r.owned = owned
    <2>1. r \in Reading
        BY StartedSound DEF IInv
    <2> QED
        BY <2>1 DEF Started
<1> HIDE DEF r
<1>2. UpToDate(r) /\ r.locks \cap Held(p) = {}
    BY <1>1, NothingHeld
<1> QED
    BY <1>2, Quiet DEF r

LEMMA QuietRetry ==
    ASSUME IInv, Base', NEW p \in Worker, Rolls(job[p]), Retry(p, job[p]),
           UNCHANGED <<roll, owned, progress, streak, feed, old>>
    PROVE  IInv'
<1> DEFINE j == job[p]
<1>1. j \in Reading \cup Rolling \cup Losing /\ Faithful(j) /\ Rolls(j)
    BY JobKinds DEF Base, IInv
<1>2. \/ job' = [job EXCEPT ![p] = Started(j.op, j.day, j.pig, j.withGroup, j.tries + 1)]
      \/ Stop(p)
    BY DEF Retry, Stop
<1> HIDE DEF j
<1>3. /\ j.op \in {"roll", "makeup"} /\ j.day \in Day /\ j.pig \in Pig /\ j.withGroup \in BOOLEAN
      /\ j.tries + 1 \in Nat /\ (j.op = "makeup" => j.day = "yesterday" /\ ~j.withGroup)
    BY <1>1 DEF Reading, Rolling, Losing, Faithful, Rolls
<1> QED
    BY <1>2, <1>3, QuietStart, QuietStop

(* The growth is computed from rows that are locked, or that are not there.  *)
LEMMA QuietRollGrow ==
    ASSUME RowLocks, IInv, Base', NEW p \in Worker, RollGrow(p)
    PROVE  IInv'
<1> DEFINE j == job[p]
           r == Grows(j)
<1>1. j \in Reading /\ Rolls(j) /\ UpToDate(j) /\ j.pc = "read" /\ Base
    BY JobKinds DEF RollGrow, Base, Rolls, IInv
<1>2. /\ job' = [job EXCEPT ![p] = r] /\ GrowthRows(j.pig) \cap Held(p) = {}
      /\ UNCHANGED <<roll, owned, progress, streak, feed, grouped, told, old>>
    BY DEF RollGrow, Grows, MayLock
<1> HIDE DEF j
<1>3. ~LocksDatabase(j) /\ SeenOwned(j) = j.owned /\ j.owned \subseteq owned
    BY <1>1 DEF LocksDatabase, SeenOwned, UpToDate
<1>4. /\ r \in Rolling /\ r.op = j.op /\ r.pig = j.pig /\ r.pc = "grown" /\ r.result = Grown(j)
      /\ r.collects <=> j.pig \notin j.owned
      /\ r.counts <=> ~HasProgress(j.pig)
      /\ r.draws <=> streak < 0
      /\ r.locks = GrowthRows(j.pig)
    BY <1>1, <1>3, GrowsTyped
<1> HIDE DEF r
<1>5. /\ Rolls(r) /\ r.op # "feed" /\ r.op # "snapshot"
      /\ streak \in Nat \cup {-1}
    BY <1>1, <1>4 DEF Rolls, Base, TypeOK
<1>6. /\ r.result.after = r.result.before + 1
      /\ r.result.to = IF r.result.new THEN 0 ELSE r.result.from + 1
      /\ r.result.new <=> r.collects /\ r.counts
      /\ r.counts => r.result.before = IF r.collects THEN 0 ELSE 1
      /\ ~r.counts => r.result.before = progress[r.pig].copies
      /\ r.result.from = IF streak >= 0 THEN streak ELSE 0
    BY <1>1, <1>3, <1>4, GrownTyped
<1>7. (~r.counts => <<"pig", r.pig>> \in r.locks) /\ (~r.draws => <<"draw">> \in r.locks)
    BY <1>4, <1>5 DEF GrowthRows, PigRow, DrawRow
<1>8. UpToDate(r)
    BY <1>3, <1>4, <1>5, <1>6, <1>7 DEF UpToDate
<1> QED
    BY <1>2, <1>4, <1>8, Quiet

LEMMA QuietFeedGrow ==
    ASSUME RowLocks, IInv, Base', NEW p \in Worker, FeedGrow(p)
    PROVE  IInv'
<1> DEFINE d == job[p].day
           g == roll[d].pig
           r == Feeds(d, g)
<1>1. UNCHANGED <<roll, owned, progress, streak, feed, grouped, told, old>> /\ Base
    BY DEF FeedGrow, IInv
<1>2. CASE Stop(p)
    BY <1>1, <1>2, QuietStop
<1>3. CASE /\ Rolled(d) /\ ~roll[d].makeup /\ g \in Pig /\ MayLock(p, PigRow(g))
           /\ ~AtCap(Level(RowCopies(g), progress[g].bonus))
           /\ job' = [job EXCEPT ![p] = r]
    <2>1. d \in Day /\ MayLock(p, {<<"roll", d>>})
        BY <1>1, FeedGrowShape DEF Hungry
    <2>2. /\ r \in Feeding /\ r.day = d /\ r.row.pig = g
          /\ r.counts <=> ~HasProgress(g)
          /\ r.bonus = progress[g].bonus + 1
          /\ r.row.before = Level(RowCopies(g), progress[g].bonus)
          /\ r.locks = {<<"roll", d>>} \cup PigRow(g)
        BY <1>1, <1>3, <2>1, FeedsTyped
    <2> HIDE DEF r
    <2>3. r.op = "feed" /\ r.pc = "grown"
        BY <2>2 DEF Feeding
    <2>4. /\ r.counts => r.bonus = 1 /\ r.row.before = Level(1, 0)
          /\ ~r.counts => r.row.before = Level(progress[g].copies, progress[g].bonus)
        <3>1. ~HasProgress(g) => progress[g].bonus = 0
            BY <1>3, FS_EmptySet DEF IInv, PigSound
        <3> QED
            BY <2>2, <3>1 DEF RowCopies
    <2>5. UpToDate(r)
        BY <2>2, <2>3, <2>4 DEF UpToDate, Rolls, PigRow
    <2>6. r.locks \cap Held(p) = {}
        BY <1>3, <2>1, <2>2 DEF MayLock
    <2> QED
        BY <1>1, <1>3, <2>5, <2>6, Quiet
<1> QED
    BY <1>1, <1>2, <1>3, FeedGrowShape

LEMMA QuietSnapshotRead ==
    ASSUME RowLocks, IInv, Base', NEW p \in Worker, NEW d \in Day, NEW look \in Look,
           SnapshotRead(p, d, look)
    PROVE  IInv'
<1> DEFINE r == [op |-> "snapshot", pc |-> "grown", day |-> d, look |-> look,
                 makeup |-> roll[d].makeup, locks |-> {<<"roll", d>>}]
<1>1. r.op = "snapshot" /\ r.day = d /\ r.locks = {<<"roll", d>>}
    OBVIOUS
<1>2. job' = [job EXCEPT ![p] = r] /\ UNCHANGED <<roll, owned, progress, streak, feed, old>>
    BY DEF SnapshotRead
<1> HIDE DEF r
<1>3. UpToDate(r)
    BY <1>1 DEF UpToDate, Rolls, SnapshotRead
<1>4. r.locks \cap Held(p) = {}
    BY <1>1 DEF SnapshotRead, MayLock
<1> QED
    BY <1>2, <1>3, <1>4, Quiet

LEMMA QuietOthers ==
    ASSUME IInv, Base', NEW p \in Worker,
           \/ \E op \in {"roll", "makeup"}, d \in Day, g \in Pig, withGroup \in BOOLEAN :
                 RollBegin(p, op, d, g, withGroup)
           \/ \E d \in Day : FeedBegin(p, d)
           \/ Clash(p)
           \/ RollLost(p)
           \/ FeedLost(p)
           \/ Abort(p)
    PROVE  IInv'
<1>1. Base
    BY DEF IInv
<1>2. ASSUME NEW op \in {"roll", "makeup"}, NEW d \in Day, NEW g \in Pig, NEW withGroup \in BOOLEAN,
             RollBegin(p, op, d, g, withGroup)
      PROVE  IInv'
    BY <1>2, QuietStart DEF RollBegin
<1>3. ASSUME NEW d \in Day, FeedBegin(p, d)
      PROVE  IInv'
    <2> DEFINE r == [op |-> "feed", pc |-> "read", day |-> d, locks |-> {}]
    <2>1. r \in Hungry
        BY DEF Hungry
    <2> HIDE DEF r
    <2>2. UpToDate(r) /\ r.locks \cap Held(p) = {}
        BY <2>1, NothingHeld
    <2> QED
        BY <1>3, <2>2, Quiet DEF FeedBegin, r
<1>4. CASE Clash(p)
    <2> DEFINE j == job[p]
               r == [op |-> j.op, pc |-> "lost", day |-> j.day, pig |-> j.pig,
                      withGroup |-> j.withGroup, tries |-> j.tries, locks |-> {}]
    <2>1. j \in Reading \cup Rolling \cup Losing
        BY <1>1, <1>4, JobKinds DEF Clash, Base, Rolls
    <2>2. job' = [job EXCEPT ![p] = r]
          /\ UNCHANGED <<roll, owned, progress, streak, feed, grouped, told, old>>
        BY <1>4 DEF Clash
    <2> HIDE DEF j
    <2>3. r \in Losing
        BY <2>1 DEF Reading, Rolling, Losing
    <2> HIDE DEF r
    <2>4. UpToDate(r) /\ r.locks \cap Held(p) = {}
        BY <2>3, NothingHeld
    <2> QED
        BY <2>2, <2>4, Quiet
<1>5. CASE RollLost(p)
    BY <1>5, QuietStop, QuietRetry DEF RollLost, Rolls
<1>6. CASE FeedLost(p)
    BY <1>6, QuietStop DEF FeedLost
<1>7. CASE Abort(p)
    BY <1>7, QuietStop, QuietRetry DEF Abort, Rolls
<1> QED
    BY <1>2, <1>3, <1>4, <1>5, <1>6, <1>7

(* A transaction that commits changes the rows that are there under its own  *)
(* locks, so the others still know what they have read.                      *)
LEMMA OthersUpToDate ==
    ASSUME IInv, NEW p \in Worker, Stop(p), owned \subseteq owned',
           \A g \in Pig : HasProgress(g) /\ progress'[g] # progress[g] => <<"pig", g>> \in job[p].locks,
           streak >= 0 /\ streak' # streak => <<"draw">> \in job[p].locks,
           \A d \in Day : Rolled(d) /\ roll'[d] # roll[d] => <<"roll", d>> \in job[p].locks
    PROVE  LocksApart' /\ \A x \in Worker : UpToDate(job[x])'
<1>1. job \in [Worker -> Job] /\ LocksApart /\ Base
    BY DEF IInv, Base
<1>2. job' = [job EXCEPT ![p] = Idle]
    BY DEF Stop
<1>3. LocksApart'
    BY <1>1, <1>2, NothingHeld, ApartStays
<1>4. UpToDate(job[p])'
    BY <1>1, <1>2, Kinds DEF UpToDate
<1>5. ASSUME NEW x \in Worker, x # p
      PROVE  UpToDate(job[x])'
    <2> DEFINE i == job[x]
    <2>1. /\ job'[x] = i /\ UpToDate(i) /\ Faithful(i)
          /\ i.locks \cap job[p].locks = {}
        BY <1>1, <1>2, <1>5 DEF IInv, Base, LocksApart
    <2>2. /\ Rolls(i) /\ i.pc = "read" => i \in Reading
          /\ Rolls(i) /\ i.pc = "grown" => i.pig \in Pig
          /\ i.op = "feed" /\ i.pc = "grown" => i.row.pig \in Pig
          /\ i.op = "snapshot" => i.day \in Day
        <3>1. i.op = "feed" /\ i.pc = "grown" => i.row.pig \in Pig
            BY <1>1, <2>1, JobKinds DEF Feeding, Faithful, Base, TypeOK, Roll, Rolled
        <3>2. (Rolls(i) /\ i.pc = "grown" => i.pig \in Pig) /\ (i.op = "snapshot" => i.day \in Day)
            BY <1>1, JobKinds DEF Rolling, Showing
        <3> QED
            BY <1>1, <3>1, <3>2, JobKinds
    <2> HIDE DEF i
    <2>3. CASE Rolls(i)
        <3>1. i.op # "feed" /\ i.op # "snapshot"
            BY <2>3 DEF Rolls
        <3>2. ASSUME i.pc = "grown", ~i.counts
              PROVE  progress'[i.pig] = progress[i.pig]
            BY <2>1, <2>2, <2>3, <3>2 DEF UpToDate
        <3>3. ASSUME i.pc = "grown", ~i.draws
              PROVE  streak' = streak
            BY <2>1, <2>3, <3>3 DEF UpToDate
        <3> QED
            BY <2>1, <2>3, <3>1, <3>2, <3>3 DEF UpToDate, HasProgress
    <2>4. CASE i.op = "feed"
        <3>1. ASSUME i.pc = "grown", ~i.counts
              PROVE  progress'[i.row.pig] = progress[i.row.pig]
            BY <2>1, <2>2, <2>4, <3>1 DEF UpToDate
        <3> QED
            BY <2>1, <2>4, <3>1 DEF UpToDate, Rolls, HasProgress
    <2>5. CASE i.op = "snapshot"
        <3>1. roll'[i.day] = roll[i.day]
            BY <2>1, <2>2, <2>5 DEF UpToDate, Faithful
        <3> QED
            BY <2>1, <2>5, <3>1 DEF UpToDate, Rolls
    <2>6. CASE ~Rolls(i) /\ i.op # "feed" /\ i.op # "snapshot"
        BY <2>1, <2>6 DEF UpToDate
    <2> QED
        BY <2>3, <2>4, <2>5, <2>6
<1> QED
    BY <1>3, <1>4, <1>5

(* What a roll that commits has computed, and from which rows. *)
LEMMA CommittedRoll ==
    ASSUME IInv, NEW p \in Worker, RollCommit(p)
    PROVE  LET j == job[p]
           IN  /\ j \in Rolling /\ UpToDate(j) /\ ~Rolled(j.day) /\ j.result.pig = j.pig /\ j.result.kept
               /\ j.day \in Day /\ j.pig \in Pig /\ j.result \in Roll
               /\ j.collects <=> j.pig \notin owned
               /\ j.counts <=> ~HasProgress(j.pig)
               /\ j.draws <=> streak < 0
               /\ j.result.after = j.result.before + 1
               /\ j.result.to = IF j.result.new THEN 0 ELSE j.result.from + 1
               /\ j.result.new <=> j.collects /\ j.counts
               /\ j.counts => j.result.before = IF j.collects THEN 0 ELSE 1
               /\ ~j.counts => <<"pig", j.pig>> \in j.locks /\ j.result.before = progress[j.pig].copies
               /\ j.draws => j.result.from = 0
               /\ ~j.draws => <<"draw">> \in j.locks /\ j.result.from = streak
<1> DEFINE j == job[p]
<1>1. j \in Rolling /\ Rolls(j) /\ j.pc = "grown" /\ Faithful(j) /\ UpToDate(j) /\ ~Clashes(j)
    BY JobKinds DEF RollCommit, Base, Rolls, IInv
<1> HIDE DEF j
<1>2. /\ j.day \in Day /\ j.pig \in Pig /\ j.result \in Roll
      /\ j.collects \in BOOLEAN /\ j.counts \in BOOLEAN /\ j.draws \in BOOLEAN
    BY <1>1 DEF Rolling
<1>3. j.result.pig = j.pig /\ j.result.kept
    BY <1>1 DEF Faithful
<1>4. streak \in Nat \cup {-1}
    BY DEF IInv, Base, TypeOK
<1>5. /\ ~Rolled(j.day)
      /\ j.collects <=> j.pig \notin owned
      /\ j.counts <=> ~HasProgress(j.pig)
      /\ j.draws <=> streak < 0
    BY <1>1, <1>4 DEF UpToDate, Clashes
<1>6. /\ j.result.after = j.result.before + 1
      /\ j.result.to = IF j.result.new THEN 0 ELSE j.result.from + 1
      /\ j.result.new <=> j.collects /\ j.counts
      /\ j.counts => j.result.before = IF j.collects THEN 0 ELSE 1
      /\ ~j.counts => <<"pig", j.pig>> \in j.locks /\ j.result.before = progress[j.pig].copies
      /\ j.draws => j.result.from = 0
      /\ ~j.draws => <<"draw">> \in j.locks /\ j.result.from = streak
    BY <1>1 DEF UpToDate
<1> QED
    BY <1>1, <1>2, <1>3, <1>5, <1>6 DEF j

(* Days, and those on which a pig was drawn or fed, can be counted. *)
LEMMA DaysFinite ==
    /\ IsFiniteSet(Day)
    /\ \A g \in Pig : IsFiniteSet(DrawnDays(g)) /\ IsFiniteSet(FedDays(g))
    /\ \A g \in Pig : /\ Cardinality(DrawnDays(g)) \in Nat
                      /\ DrawnDays(g) = {} <=> Cardinality(DrawnDays(g)) = 0
<1>1. IsFiniteSet(Day)
    <2>1. IsFiniteSet({"today"}) /\ Day = {"today"} \cup {"yesterday"}
        BY FS_Singleton DEF Day
    <2> QED
        BY <2>1, FS_AddElement
<1>2. \A g \in Pig : DrawnDays(g) \subseteq Day /\ FedDays(g) \subseteq Day
    BY DEF DrawnDays, FedDays, Drawn
<1>3. \A g \in Pig : IsFiniteSet(DrawnDays(g)) /\ IsFiniteSet(FedDays(g))
    BY <1>1, <1>2, FS_Subset
<1> QED
    BY <1>1, <1>3, FS_EmptySet, FS_CardinalityType

(* The new roll is one more in the history of its pig. *)
LEMMA CommitSound ==
    ASSUME IInv, Base', NEW p \in Worker, RollCommit(p)
    PROVE  \A g \in Pig : PigSound(g)'
<1> DEFINE j == job[p]
           r == j.result
<1>1. /\ j \in Rolling /\ ~Rolled(j.day) /\ r.pig = j.pig /\ r.kept
      /\ j.day \in Day /\ j.pig \in Pig /\ r \in Roll
      /\ j.collects <=> j.pig \notin owned
      /\ j.counts <=> ~HasProgress(j.pig)
      /\ r.after = r.before + 1
      /\ j.counts => r.before = IF j.collects THEN 0 ELSE 1
      /\ ~j.counts => r.before = progress[j.pig].copies
    BY CommittedRoll
<1>2. /\ roll' = [roll EXCEPT ![j.day] = r] /\ owned' = owned \cup {j.pig}
      /\ progress' = [progress EXCEPT ![j.pig].copies = r.after]
      /\ feed' = feed /\ old' = old
    BY DEF RollCommit
<1> HIDE DEF j, r
<1>3. /\ r.before \in Nat /\ r.after \in Nat
      /\ roll \in [Day -> Roll] /\ progress \in [Pig -> [copies : Nat, bonus : Nat]]
    BY <1>1 DEF Roll, IInv, Base, TypeOK
<1>4. /\ \A e \in Day : roll'[e] = IF e = j.day THEN r ELSE roll[e]
      /\ \A g \in Pig : /\ g # j.pig => progress'[g] = progress[g]
                        /\ progress'[g].bonus = progress[g].bonus
      /\ progress'[j.pig].copies = r.after
    BY <1>1, <1>2, <1>3
<1>5. NoPig \notin Pig /\ j.day \notin Drawn
    BY <1>1, GrowthAssumption DEF Drawn
<1>6. Drawn' = Drawn \cup {j.day}
    BY <1>1, <1>4, <1>5 DEF Drawn, Rolled
<1> SUFFICES ASSUME NEW g \in Pig
             PROVE  PigSound(g)'
    OBVIOUS
<1>7. PigSound(g) /\ FedDays(g)' = FedDays(g)
    BY <1>2 DEF IInv, FedDays
<1>8. CASE g # j.pig
    <2>1. DrawnDays(g)' = DrawnDays(g)
        BY <1>1, <1>4, <1>5, <1>6, <1>8 DEF DrawnDays, Drawn
    <2> QED
        BY <1>2, <1>4, <1>7, <1>8, <2>1 DEF PigSound, HasProgress
<1>9. CASE g = j.pig
    <2>1. DrawnDays(g)' = DrawnDays(g) \cup {j.day}
        BY <1>1, <1>4, <1>5, <1>6, <1>9 DEF DrawnDays, Drawn
    <2>2. j.day \notin DrawnDays(g)
        BY <1>5 DEF DrawnDays
    <2>3. Cardinality(DrawnDays(g)') = Cardinality(DrawnDays(g)) + 1
        BY <2>1, <2>2, DaysFinite, FS_AddElement
    <2>4. r.before = Cardinality(DrawnDays(g)) + IF g \in old THEN 1 ELSE 0
        <3>1. CASE HasProgress(g)
            BY <1>1, <1>7, <1>9, <3>1 DEF PigSound
        <3>2. CASE ~HasProgress(g)
            <4>1. DrawnDays(g) = {} /\ Cardinality(DrawnDays(g)) = 0
                BY <1>7, <3>2, DaysFinite DEF PigSound
            <4>2. g \in owned <=> g \in old
                BY <1>7, <4>1 DEF PigSound
            <4> QED
                BY <1>1, <1>9, <3>2, <4>1, <4>2
        <3> QED
            BY <3>1, <3>2
    <2>5. HasProgress(g)' /\ progress'[g].copies = r.before + 1
        BY <1>1, <1>3, <1>4, <1>9 DEF HasProgress
    <2>6. Cardinality(DrawnDays(g)) \in Nat
        BY DaysFinite
    <2>7. progress'[g].copies = Cardinality(DrawnDays(g)') + IF g \in old THEN 1 ELSE 0
        BY <2>3, <2>4, <2>5, <2>6
    <2> QED
        BY <1>2, <1>4, <1>7, <1>9, <2>1, <2>5, <2>7 DEF PigSound
<1> QED
    BY <1>8, <1>9

(* The new roll continues where the last one stopped. *)
LEMMA CommitSerial ==
    ASSUME IInv, Base', NEW p \in Worker, RollCommit(p)
    PROVE  Serial' /\ OldRolls'
<1> DEFINE j == job[p]
           r == j.result
<1>1. /\ j \in Rolling /\ ~Rolled(j.day) /\ r.pig = j.pig /\ r.kept
      /\ j.day \in Day /\ j.pig \in Pig /\ r \in Roll
      /\ j.counts <=> ~HasProgress(j.pig)
      /\ j.draws <=> streak < 0
      /\ r.after = r.before + 1
      /\ r.new <=> j.collects /\ j.counts
      /\ j.counts => r.before = IF j.collects THEN 0 ELSE 1
      /\ ~j.counts => r.before = progress[j.pig].copies
      /\ ~j.draws => r.from = streak
    BY CommittedRoll
<1>2. /\ roll' = [roll EXCEPT ![j.day] = r] /\ streak' = r.to
      /\ progress' = [progress EXCEPT ![j.pig].copies = r.after]
      /\ feed' = feed /\ old' = old
    BY DEF RollCommit
<1> HIDE DEF j, r
<1>3. /\ r.before \in Nat /\ r.after \in Nat /\ r.new \in BOOLEAN
      /\ roll \in [Day -> Roll] /\ progress \in [Pig -> [copies : Nat, bonus : Nat]]
    BY <1>1 DEF Roll, IInv, Base, TypeOK
<1>4. /\ \A e \in Day : roll'[e] = IF e = j.day THEN r ELSE roll[e]
      /\ progress'[j.pig].copies = r.after
    BY <1>1, <1>2, <1>3
<1>5. NoPig \notin Pig /\ j.day \notin Drawn
    BY <1>1, GrowthAssumption DEF Drawn
<1>6. Drawn' = Drawn \cup {j.day}
    BY <1>1, <1>4, <1>5 DEF Drawn, Rolled
<1>7. r.new <=> r.before = 0
    <2>1. ~j.counts => r.before > 0
        BY <1>1, <1>3 DEF HasProgress
    <2>2. j.counts => (r.before = 0 <=> j.collects)
        BY <1>1
    <2> QED
        BY <1>1, <1>3, <2>1, <2>2
<1>8. ASSUME NEW d \in Drawn
      PROVE  /\ r.from = roll[d].to
             /\ j.pig = roll[d].pig => r.before = roll[d].after
    <2>1. Drawn = {d}
        BY <1>1, <1>5 DEF Drawn, Day
    <2>2. /\ streak = roll[d].to /\ progress[roll[d].pig].copies = roll[d].after
          /\ roll[d].after = roll[d].before + 1
        BY <2>1 DEF IInv, Serial
    <2>3. roll[d].to \in Nat /\ roll[d].before \in Nat
        BY <1>3 DEF Drawn, Roll
    <2>4. r.from = streak
        BY <1>1, <2>2, <2>3
    <2>5. j.pig = roll[d].pig => HasProgress(j.pig)
        BY <2>2, <2>3 DEF HasProgress
    <2> QED
        BY <1>1, <2>2, <2>4, <2>5
<1>9. \A d \in Drawn : roll[d].after = roll[d].before + 1 /\ (roll[d].new <=> roll[d].before = 0)
    BY DEF IInv, Serial
<1>10. \A d \in Drawn : d \in Day /\ roll'[d] = roll[d]
    BY <1>4, <1>5 DEF Drawn
<1>11. roll'[j.day] = r
    BY <1>1, <1>4
<1>12. Serial'
    <2>1. \A d \in Drawn' : roll'[d].after = roll'[d].before + 1 /\ (roll'[d].new <=> roll'[d].before = 0)
        BY <1>1, <1>6, <1>7, <1>9, <1>10, <1>11
    <2>2. /\ j.day \in Drawn' /\ streak' = roll'[j.day].to
          /\ progress'[roll'[j.day].pig].copies = roll'[j.day].after
        BY <1>1, <1>2, <1>4, <1>6, <1>11
    <2>3. \A d \in Drawn' \ {j.day} :
             /\ roll'[j.day].from = roll'[d].to
             /\ roll'[j.day].pig = roll'[d].pig => roll'[j.day].before = roll'[d].after
        BY <1>1, <1>6, <1>8, <1>10, <1>11
    <2> QED
        BY <2>1, <2>2, <2>3 DEF Serial
<1>13. OldRolls'
    BY <1>1, <1>2, <1>4 DEF OldRolls, Rolled, IInv
<1> QED
    BY <1>12, <1>13

(* A roll that commits. *)
LEMMA CommitKeeps ==
    ASSUME IInv, Base', NEW p \in Worker, RollCommit(p)
    PROVE  IInv'
<1> DEFINE j == job[p]
           r == j.result
<1>1. /\ ~Rolled(j.day) /\ j.day \in Day /\ j.pig \in Pig
      /\ j.counts <=> ~HasProgress(j.pig)
      /\ j.draws <=> streak < 0
      /\ ~j.counts => <<"pig", j.pig>> \in j.locks
      /\ ~j.draws => <<"draw">> \in j.locks
    BY CommittedRoll
<1>2. /\ roll' = [roll EXCEPT ![j.day] = r] /\ owned' = owned \cup {j.pig}
      /\ progress' = [progress EXCEPT ![j.pig].copies = r.after] /\ Stop(p)
    BY DEF RollCommit
<1>3. \A g \in Pig : HasProgress(g) /\ progress'[g] # progress[g] => <<"pig", g>> \in j.locks
    BY <1>1, <1>2 DEF IInv, Base, TypeOK
<1>4. streak >= 0 => <<"draw">> \in j.locks
    BY <1>1 DEF IInv, Base, TypeOK
<1>5. \A d \in Day : Rolled(d) => roll'[d] = roll[d]
    BY <1>1, <1>2 DEF IInv, Base, TypeOK
<1>6. LocksApart' /\ \A x \in Worker : UpToDate(job[x])'
    BY <1>2, <1>3, <1>4, <1>5, OthersUpToDate
<1> QED
    BY <1>6, CommitSound, CommitSerial DEF IInv

(* A feed that commits is one more day on which its pig was fed. *)
LEMMA FeedKeeps ==
    ASSUME IInv, Base', NEW p \in Worker, FeedCommit(p)
    PROVE  IInv'
<1> DEFINE j == job[p]
           f == j.row.pig
<1>1. j \in Feeding /\ j.op = "feed" /\ j.pc = "grown" /\ Faithful(j) /\ UpToDate(j) /\ ~FeedClashes(j)
    BY JobKinds DEF FeedCommit, Base, IInv
<1>2. /\ feed' = [feed EXCEPT ![j.day] = j.row]
      /\ progress' = [progress EXCEPT ![f] = [copies |-> IF j.counts THEN 1 ELSE @.copies,
                                              bonus |-> j.bonus]]
      /\ Stop(p) /\ UNCHANGED <<roll, owned, streak, grouped, told, old>>
    BY DEF FeedCommit
<1> HIDE DEF j
<1>3. /\ j.day \in Day /\ j.row \in Feed /\ j.bonus \in Nat /\ j.counts \in BOOLEAN
      /\ Rolled(j.day) /\ roll[j.day].pig = f
    BY <1>1 DEF Feeding, Faithful
<1> HIDE DEF f
<1>4. f \in Pig /\ NoPig \notin Pig /\ progress \in [Pig -> [copies : Nat, bonus : Nat]]
    BY <1>3, GrowthAssumption DEF IInv, Base, TypeOK, Roll, Rolled
<1>5. /\ ~Fed(j.day)
      /\ j.counts <=> ~HasProgress(f)
      /\ j.counts => j.bonus = 1
      /\ ~j.counts => <<"pig", f>> \in j.locks /\ j.bonus = progress[f].bonus + 1
    BY <1>1, <1>3 DEF UpToDate, FeedClashes, f
<1>6. /\ \A g \in Pig \ {f} : progress'[g] = progress[g]
      /\ progress'[f].copies = IF j.counts THEN 1 ELSE progress[f].copies
      /\ progress'[f].bonus = j.bonus
    BY <1>2, <1>4
<1>7. LocksApart' /\ \A x \in Worker : UpToDate(job[x])'
    <2>1. \A g \in Pig : HasProgress(g) /\ progress'[g] # progress[g] => <<"pig", g>> \in job[p].locks
        BY <1>5, <1>6 DEF j
    <2> QED
        BY <1>2, <2>1, OthersUpToDate
<1>8. \A g \in Pig : HasProgress(g) => HasProgress(g)' /\ progress'[g].copies = progress[g].copies
    BY <1>4, <1>5, <1>6 DEF HasProgress
<1>9. ASSUME NEW g \in Pig
      PROVE  PigSound(g)'
    <2>1. PigSound(g) /\ DrawnDays(g)' = DrawnDays(g)
        BY <1>2 DEF IInv, DrawnDays, Drawn, Rolled
    <2>2. \A e \in Day : feed'[e] = IF e = j.day THEN j.row ELSE feed[e]
        BY <1>2, <1>3 DEF IInv, Base, TypeOK
    <2>3. j.day \notin FedDays(g)
        BY <1>4, <1>5 DEF FedDays, Fed
    <2>4. CASE g # f
        <3>1. FedDays(g)' = FedDays(g)
            BY <1>3, <2>2, <2>3, <2>4 DEF FedDays, f
        <3> QED
            BY <1>2, <1>6, <2>1, <2>4, <3>1 DEF PigSound, HasProgress
    <2>5. CASE g = f
        <3>1. FedDays(g)' = FedDays(g) \cup {j.day}
            BY <1>3, <2>2, <2>3, <2>5 DEF FedDays, f
        <3>2. Cardinality(FedDays(g)') = Cardinality(FedDays(g)) + 1
            BY <2>3, <3>1, DaysFinite, FS_AddElement
        <3>3. Cardinality({}) = 0
            BY FS_EmptySet
        <3>4. j.bonus = Cardinality(FedDays(g)')
            BY <1>5, <2>1, <2>5, <3>2, <3>3 DEF PigSound
        <3>5. CASE j.counts
            <4>1. DrawnDays(g) = {} /\ ~HasProgress(g)
                BY <1>5, <2>1, <2>5, <3>5 DEF PigSound
            <4>2. g \in old
                BY <1>3, <2>5, <4>1 DEF DrawnDays, Drawn, IInv, OldRolls
            <4>3. progress'[g].copies = 1 /\ HasProgress(g)'
                BY <1>6, <2>5, <3>5 DEF HasProgress
            <4> QED
                BY <1>2, <1>6, <2>1, <2>5, <3>3, <3>4, <4>1, <4>2, <4>3 DEF PigSound
        <3>6. CASE ~j.counts
            <4>1. HasProgress(g) /\ HasProgress(g)' /\ progress'[g].copies = progress[g].copies
                BY <1>5, <1>8, <2>5, <3>6
            <4> QED
                BY <1>2, <1>6, <2>1, <2>5, <3>4, <4>1 DEF PigSound
        <3> QED
            BY <1>3, <3>5, <3>6
    <2> QED
        BY <2>4, <2>5
<1>10. Serial'
    <2>1. Drawn' = Drawn
        BY <1>2 DEF Drawn, Rolled
    <2>2. \A d \in Drawn : roll[d].pig \in Pig /\ roll[d].before \in Nat
        BY DEF Drawn, Rolled, IInv, Base, TypeOK, Roll
    <2>3. ASSUME NEW last \in Drawn, progress[roll[last].pig].copies = roll[last].after
          PROVE  progress'[roll[last].pig].copies = roll[last].after
        <3>1. roll[last].after = roll[last].before + 1
            BY DEF IInv, Serial
        <3>2. HasProgress(roll[last].pig)
            BY <2>2, <2>3, <3>1 DEF HasProgress
        <3> QED
            BY <1>8, <2>2, <2>3, <3>2
    <2> QED
        BY <1>2, <2>1, <2>3 DEF IInv, Serial
<1>11. OldRolls'
    BY <1>2 DEF IInv, OldRolls, Rolled
<1> QED
    BY <1>7, <1>9, <1>10, <1>11 DEF IInv

(* The resources of a roll have no part in its growth. *)
LEMMA SnapshotKeeps ==
    ASSUME IInv, Base', NEW p \in Worker, SnapshotWrite(p)
    PROVE  IInv'
<1> DEFINE j == job[p]
<1>1. /\ j.day \in Day /\ UpToDate(j) /\ j.op = "snapshot"
      /\ Stop(p) /\ UNCHANGED <<owned, progress, streak, feed, grouped, told, old>>
    BY SnapshotShape DEF IInv, Showing, SnapshotWrite
<1>2. \A d \in Day : d # j.day => roll'[d] = roll[d]
    BY SnapshotRolls DEF IInv
<1>3. <<"roll", j.day>> \in j.locks
    BY <1>1 DEF UpToDate
<1>4. \A d \in Day : Rolled(d) /\ roll'[d] # roll[d] => <<"roll", d>> \in j.locks
    BY <1>2, <1>3
<1>5. LocksApart' /\ \A x \in Worker : UpToDate(job[x])'
    BY <1>1, <1>4, OthersUpToDate
<1>6. \A e \in Day : /\ roll'[e].pig = roll[e].pig /\ roll'[e].kept = roll[e].kept
                     /\ roll'[e].new = roll[e].new /\ roll'[e].before = roll[e].before
                     /\ roll'[e].after = roll[e].after /\ roll'[e].from = roll[e].from
                     /\ roll'[e].to = roll[e].to
    BY SnapshotRolls DEF IInv
<1>7. Drawn' = Drawn /\ Drawn \subseteq Day
    BY <1>6 DEF Drawn, Rolled
<1>8. ASSUME NEW g \in Pig
      PROVE  PigSound(g)'
    <2>1. PigSound(g) /\ DrawnDays(g)' = DrawnDays(g) /\ FedDays(g)' = FedDays(g)
        BY <1>1, <1>6, <1>7 DEF IInv, DrawnDays, FedDays
    <2> QED
        BY <1>1, <2>1 DEF PigSound, HasProgress
<1>9. Serial'
    <2>1. \A d \in Drawn : roll'[d].after = roll'[d].before + 1 /\ (roll'[d].new <=> roll'[d].before = 0)
        BY <1>6, <1>7 DEF IInv, Serial
    <2>2. ASSUME Drawn # {}
          PROVE  \E last \in Drawn :
                    /\ streak' = roll'[last].to
                    /\ progress'[roll'[last].pig].copies = roll'[last].after
                    /\ \A d \in Drawn \ {last} :
                          /\ roll'[last].from = roll'[d].to
                          /\ roll'[last].pig = roll'[d].pig => roll'[last].before = roll'[d].after
        <3>1. PICK last \in Drawn :
                    /\ streak = roll[last].to
                    /\ progress[roll[last].pig].copies = roll[last].after
                    /\ \A d \in Drawn \ {last} :
                          /\ roll[last].from = roll[d].to
                          /\ roll[last].pig = roll[d].pig => roll[last].before = roll[d].after
            BY <2>2 DEF IInv, Serial
        <3> QED
            BY <1>1, <1>6, <1>7, <3>1
    <2> QED
        BY <1>7, <2>1, <2>2 DEF Serial
<1>10. OldRolls'
    BY <1>1, <1>6 DEF IInv, OldRolls, Rolled
<1> QED
    BY <1>5, <1>8, <1>9, <1>10 DEF IInv

-----------------------------------------------------------------------------
(* The theorems for row locks *)

LEMMA InvInit ==
    ASSUME Init
    PROVE  IInv
<1>1. PICK had \in SUBSET Pig, first \in Pig \cup {NoPig}, counted \in SUBSET Pig :
           /\ counted \subseteq had
           /\ first # NoPig => first \in had \ counted
           /\ old = had /\ owned = had
           /\ progress = [g \in Pig |-> [copies |-> IF g \in counted THEN 1 ELSE 0, bonus |-> 0]]
           /\ roll = [d \in Day |-> IF d = "yesterday" THEN [NoRoll EXCEPT !.pig = first] ELSE NoRoll]
           /\ feed = [d \in Day |-> NoFeed]
           /\ job = [p \in Worker |-> Idle]
    BY DEF Init
<1>2. \A d \in Day : /\ ~roll[d].kept
                     /\ Rolled(d) => roll[d].pig = first /\ first # NoPig
    <2>1. PICK r \in Roll : r = NoRoll
        BY DEF NoRoll, Roll
    <2>2. r.pig = NoPig /\ ~r.kept
        BY <2>1 DEF NoRoll
    <2>3. [r EXCEPT !.pig = first].pig = first /\ ~[r EXCEPT !.pig = first].kept
        BY <2>2 DEF Roll
    <2>4. PICK s \in Roll : s = [r EXCEPT !.pig = first]
        BY DEF Roll
    <2>5. \A d \in Day : roll[d] = s \/ roll[d] = r
        BY <1>1, <2>1, <2>4
    <2> QED
        BY <2>2, <2>3, <2>4, <2>5 DEF Rolled
<1>3. LocksApart /\ \A p \in Worker : UpToDate(job[p])
    BY <1>1, NothingHeld DEF LocksApart
<1>4. Drawn = {}
    BY <1>2 DEF Drawn
<1>5. ASSUME NEW g \in Pig
      PROVE  PigSound(g)
    <2>1. DrawnDays(g) = {}
        BY <1>4 DEF DrawnDays
    <2>2. FedDays(g) = {}
        BY <1>1, GrowthAssumption DEF FedDays, NoFeed
    <2>3. /\ progress[g].copies = IF g \in counted THEN 1 ELSE 0
          /\ progress[g].bonus = 0
        BY <1>1
    <2>4. Cardinality({}) = 0
        BY FS_EmptySet
    <2>5. HasProgress(g) => g \in counted /\ progress[g].copies = 1
        BY <2>3 DEF HasProgress
    <2> QED
        BY <1>1, <2>1, <2>2, <2>3, <2>4, <2>5 DEF PigSound
<1>6. Serial
    BY <1>4 DEF Serial
<1>7. OldRolls
    BY <1>1, <1>2 DEF OldRolls
<1> QED
    BY <1>3, <1>5, <1>6, <1>7, BaseInit DEF IInv

LEMMA InvNext ==
    ASSUME RowLocks, IInv, [Next]_vars
    PROVE  IInv'
<1>0. Base'
    BY BaseNext DEF IInv
<1>1. CASE \E op \in {"roll", "makeup"}, d \in Day, withGroup \in BOOLEAN : Repeat(op, d, withGroup)
    <2>1. UNCHANGED <<roll, owned, progress, streak, feed, job, old>>
        BY <1>1 DEF Repeat
    <2>2. History'
        BY <2>1, HistoryStays DEF IInv, History
    <2>3. LocksApart' /\ \A x \in Worker : UpToDate(job[x])'
        BY <2>1 DEF IInv, LocksApart, UpToDate, HasProgress
    <2> QED
        BY <1>0, <2>2, <2>3 DEF IInv, History
<1>2. ASSUME NEW p \in Worker, Begin(p)
      PROVE  IInv'
    BY <1>0, <1>2, QuietOthers, QuietSnapshotRead DEF Begin
<1>3. ASSUME NEW p \in Worker, Go(p)
      PROVE  IInv'
    BY <1>0, <1>3, QuietOthers, QuietRollGrow, QuietFeedGrow, CommitKeeps, FeedKeeps, SnapshotKeeps DEF Go
<1>4. ASSUME NEW p \in Worker, Abort(p)
      PROVE  IInv'
    BY <1>0, <1>4, QuietOthers
<1>5. CASE UNCHANGED vars
    <2>1. UNCHANGED <<roll, owned, progress, streak, feed, job, old>>
        BY <1>5 DEF vars
    <2>2. History'
        BY <2>1, HistoryStays DEF IInv, History
    <2>3. LocksApart' /\ \A x \in Worker : UpToDate(job[x])'
        BY <2>1 DEF IInv, LocksApart, UpToDate, HasProgress
    <2> QED
        BY <1>0, <2>2, <2>3 DEF IInv, History
<1>6. CASE \E d \in Marked : MarkSeen(d)
    <2>1. UNCHANGED <<roll, owned, progress, streak, feed, job, old>>
        BY <1>6 DEF MarkSeen
    <2>2. History'
        BY <2>1, HistoryStays DEF IInv, History
    <2>3. LocksApart' /\ \A x \in Worker : UpToDate(job[x])'
        BY <2>1 DEF IInv, LocksApart, UpToDate, HasProgress
    <2> QED
        BY <1>0, <2>2, <2>3 DEF IInv, History
<1> QED
    BY <1>1, <1>2, <1>3, <1>4, <1>5, <1>6 DEF Next

(* On MySQL what a transaction knows of the rows it has locked stays true,   *)
(* and rows, rolls and feeds tell the same history.                          *)
THEOREM InvariantHolds ==
    ASSUME RowLocks
    PROVE  Spec => []IInv
BY InvInit, InvNext, PTL DEF Spec

(* Copies count the rolls of a pig and its bonus the days it was fed: with   *)
(* row locks no concurrent roll or feed is lost or counted twice             *)
(* (progress.py, apply_created_roll_progress and apply_daily_feed).          *)
THEOREM GrowthMatchesHistoryHolds ==
    ASSUME RowLocks
    PROVE  Spec => []GrowthMatchesHistory
<1>1. IInv => GrowthMatchesHistory
    <2> SUFFICES ASSUME IInv, NEW g \in Pig
                 PROVE  LET had == IF g \in old THEN 1 ELSE 0
                            drawn == Cardinality(DrawnDays(g))
                        IN  /\ HasProgress(g) => progress[g].copies = had + drawn
                            /\ drawn > 0 => HasProgress(g)
                            /\ g \in owned <=> had + drawn > 0
                            /\ progress[g].bonus = Cardinality(FedDays(g))
        BY DEF GrowthMatchesHistory, IInv, Base, DrawnDays, FedDays
    <2>1. PigSound(g)
        BY DEF IInv
    <2>2. /\ Cardinality(DrawnDays(g)) \in Nat
          /\ DrawnDays(g) = {} <=> Cardinality(DrawnDays(g)) = 0
        BY DaysFinite
    <2> QED
        BY <2>1, <2>2 DEF PigSound
<1> QED
    BY <1>1, InvariantHolds, PTL

(* The results that the rolls of two days recorded are those of one after    *)
(* the other, whatever transactions ran at once (progress.py,                *)
(* apply_created_roll_progress).                                             *)
THEOREM RollsAreSerialHolds ==
    ASSUME RowLocks
    PROVE  Spec => []RollsAreSerial
<1>1. IInv => RollsAreSerial
    BY DEF IInv, Serial, RollsAreSerial
<1> QED
    BY <1>1, InvariantHolds, PTL

(* A roll keeps its pig, growth and is_makeup for ever, and the resources of *)
(* the first client (daily_rolls.py, the snapshot endpoint).                 *)
THEOREM RollsAreKeptHolds ==
    ASSUME RowLocks
    PROVE  Spec => RollsAreKept
<1> DEFINE Kept == \A d \in Day : Rolled(d) =>
                     roll'[d] = IF roll[d].look = NoLook THEN [roll[d] EXCEPT !.look = roll'[d].look]
                                ELSE roll[d]
<1>1. ASSUME IInv, [Next]_vars
      PROVE  [Kept]_vars
    <2> SUFFICES ASSUME NEW d \in Day, Rolled(d)
                 PROVE  roll'[d] = IF roll[d].look = NoLook THEN [roll[d] EXCEPT !.look = roll'[d].look]
                                   ELSE roll[d]
        OBVIOUS
    <2>1. roll[d] \in Roll
        BY <1>1 DEF IInv, Base, TypeOK
    <2>2. roll[d] = [roll[d] EXCEPT !.look = roll[d].look]
        BY <2>1 DEF Roll
    <2>3. CASE roll'[d] = roll[d]
        BY <2>2, <2>3
    <2>4. CASE \E p \in Worker : SnapshotWrite(p)
        <3>1. PICK p \in Worker : SnapshotWrite(p)
            BY <2>4
        <3>2. roll'[d] = IF d = job[p].day THEN [roll[d] EXCEPT !.look = job[p].look] ELSE roll[d]
            BY <1>1, <3>1, SnapshotRolls DEF IInv
        <3>3. d = job[p].day => roll[d].look = NoLook
            BY <1>1, <3>1 DEF SnapshotWrite, IInv, UpToDate
        <3>4. d = job[p].day => roll'[d].look = job[p].look
            BY <2>1, <3>2 DEF Roll
        <3> QED
            BY <2>3, <3>2, <3>3, <3>4
    <2>5. CASE \E p \in Worker : RollCommit(p)
        <3>1. PICK p \in Worker : RollCommit(p)
            BY <2>5
        <3>2. ~Rolled(job[p].day) /\ roll' = [roll EXCEPT ![job[p].day] = job[p].result]
            BY <1>1, <3>1, CommittedRoll DEF RollCommit
        <3>3. roll'[d] = roll[d]
            BY <1>1, <3>2 DEF IInv, Base, TypeOK
        <3> QED
            BY <2>3, <3>3
    <2>6. roll' = roll \/ \E p \in Worker : SnapshotWrite(p) \/ RollCommit(p)
        BY <1>1 DEF Next, vars, Repeat, MarkSeen, Begin, RollBegin, FeedBegin, SnapshotRead, Go, RollGrow, Clash,
                    RollLost, FeedGrow, FeedCommit, FeedLost, Abort
    <2> QED
        BY <2>3, <2>4, <2>5, <2>6
<1> QED
    BY <1>1, InvariantHolds, PTL DEF Spec, RollsAreKept

-----------------------------------------------------------------------------
(* The refinement of SerialGrowth *)

(* A progress row belongs to a collected pig, so a pig has copies exactly if *)
(* it is owned.                                                              *)
LEMMA CopiesMeanOwned ==
    ASSUME IInv, NEW g \in Pig
    PROVE  /\ HasProgress(g) => g \in owned
           /\ Copies[g] \in Nat /\ (Copies[g] = 0 <=> g \notin owned)
           /\ Bonus[g] = progress[g].bonus /\ progress[g].bonus \in Nat /\ progress[g].copies \in Nat
           /\ Duplicates \in Nat
<1>1. progress[g].bonus \in Nat /\ progress[g].copies \in Nat /\ streak \in Nat \cup {-1}
    BY DEF IInv, Base, TypeOK
<1>2. HasProgress(g) => g \in owned
    <2> SUFFICES ASSUME HasProgress(g), g \notin owned
                 PROVE  FALSE
        OBVIOUS
    <2>1. PigSound(g)
        BY DEF IInv
    <2>2. DrawnDays(g) = {} /\ Cardinality(DrawnDays(g)) = 0 /\ g \notin old
        BY <2>1, DaysFinite DEF PigSound
    <2> QED
        BY <2>1, <2>2 DEF PigSound, HasProgress
<1> QED
    BY <1>1, <1>2 DEF Copies, Bonus, Duplicates, HasProgress

(* A step that leaves the rows alone is not seen. *)
LEMMA RowsUnseen ==
    ASSUME UNCHANGED <<roll, owned, progress, streak, feed>>
    PROVE  UNCHANGED OneByOne!vars
<1>1. Copies' = Copies
    BY DEF Copies, HasProgress
<1>2. Bonus' = Bonus /\ Duplicates' = Duplicates
    BY DEF Bonus, Duplicates
<1> QED
    BY <1>1, <1>2 DEF OneByOne!vars

LEMMA SerialInit ==
    ASSUME Init
    PROVE  OneByOne!Init
<1>1. PICK had \in SUBSET Pig, first \in Pig \cup {NoPig}, counted \in SUBSET Pig :
           /\ counted \subseteq had
           /\ first # NoPig => first \in had \ counted
           /\ owned = had
           /\ progress = [g \in Pig |-> [copies |-> IF g \in counted THEN 1 ELSE 0, bonus |-> 0]]
           /\ streak = IF counted = {} THEN -1 ELSE 0
           /\ roll = [d \in Day |-> IF d = "yesterday" THEN [NoRoll EXCEPT !.pig = first] ELSE NoRoll]
           /\ feed = [d \in Day |-> NoFeed]
    BY DEF Init
<1>2. \A g \in Pig : Copies[g] = IF g \in had THEN 1 ELSE 0
    BY <1>1 DEF Copies, HasProgress
<1>3. Copies \in [Pig -> {0, 1}]
    BY <1>2 DEF Copies
<1>4. Bonus = [g \in Pig |-> 0]
    BY <1>1 DEF Bonus
<1>5. Duplicates = 0
    BY <1>1 DEF Duplicates
<1>6. first \in {g \in Pig : Copies[g] = 1} \cup {NoPig}
    BY <1>1, <1>2
<1>7. roll = [d \in OneByOne!Day |->
                [pig |-> IF d = "yesterday" THEN first ELSE NoPig, makeup |-> FALSE,
                 kept |-> FALSE, look |-> NoLook, before |-> 0, after |-> 0,
                 new |-> FALSE, from |-> 0, to |-> 0]]
    <2>1. PICK r \in Roll : r = NoRoll
        BY DEF NoRoll, Roll
    <2>2. [r EXCEPT !.pig = first] =
             [pig |-> first, makeup |-> FALSE, kept |-> FALSE, look |-> NoLook,
              before |-> 0, after |-> 0, new |-> FALSE, from |-> 0, to |-> 0]
        <3>1. /\ r.makeup = FALSE /\ r.kept = FALSE /\ r.look = NoLook /\ r.before = 0
              /\ r.after = 0 /\ r.new = FALSE /\ r.from = 0 /\ r.to = 0
            BY <2>1 DEF NoRoll
        <3>2. /\ [r EXCEPT !.pig = first] \in Roll
              /\ [r EXCEPT !.pig = first].pig = first /\ [r EXCEPT !.pig = first].makeup = r.makeup
              /\ [r EXCEPT !.pig = first].kept = r.kept /\ [r EXCEPT !.pig = first].look = r.look
              /\ [r EXCEPT !.pig = first].before = r.before /\ [r EXCEPT !.pig = first].after = r.after
              /\ [r EXCEPT !.pig = first].new = r.new /\ [r EXCEPT !.pig = first].from = r.from
              /\ [r EXCEPT !.pig = first].to = r.to
            BY DEF Roll
        <3>3. PICK s \in Roll : s = [r EXCEPT !.pig = first]
            BY <3>2
        <3>4. s = [pig |-> first, makeup |-> FALSE, kept |-> FALSE, look |-> NoLook,
                   before |-> 0, after |-> 0, new |-> FALSE, from |-> 0, to |-> 0]
            <4>1. /\ s.pig = first /\ s.makeup = FALSE /\ s.kept = FALSE /\ s.look = NoLook
                  /\ s.before = 0 /\ s.after = 0 /\ s.new = FALSE /\ s.from = 0 /\ s.to = 0
                BY <3>1, <3>2, <3>3
            <4> QED
                BY <4>1 DEF Roll
        <3> QED
            BY <3>3, <3>4
    <2>3. roll = [d \in Day |-> IF d = "yesterday" THEN [r EXCEPT !.pig = first] ELSE r]
        BY <1>1, <2>1
    <2> QED
        BY <2>1, <2>2, <2>3 DEF NoRoll, Day, OneByOne!Day
<1>8. feed = [d \in OneByOne!Day |-> [pig |-> NoPig, before |-> 0, after |-> 0]]
    BY <1>1 DEF NoFeed, Day, OneByOne!Day
<1> QED
    BY <1>3, <1>4, <1>5, <1>6, <1>7, <1>8 DEF OneByOne!Init

(* The commit of a roll is one draw, of the copies and the streak there are. *)
LEMMA CommitDraws ==
    ASSUME IInv, NEW p \in Worker, RollCommit(p)
    PROVE  OneByOne!Next
<1> DEFINE j == job[p]
           r == j.result
           d == j.day
           g == j.pig
<1>1. /\ j \in Rolling /\ ~Rolled(d) /\ r.pig = g /\ r.kept
      /\ d \in Day /\ g \in Pig /\ r \in Roll
      /\ j.collects <=> g \notin owned
      /\ j.counts <=> ~HasProgress(g)
      /\ j.draws <=> streak < 0
      /\ r.after = r.before + 1
      /\ r.to = IF r.new THEN 0 ELSE r.from + 1
      /\ r.new <=> j.collects /\ j.counts
      /\ j.counts => r.before = IF j.collects THEN 0 ELSE 1
      /\ ~j.counts => r.before = progress[g].copies
      /\ j.draws => r.from = 0
      /\ ~j.draws => r.from = streak
    BY CommittedRoll
<1>2. /\ roll' = [roll EXCEPT ![d] = r] /\ owned' = owned \cup {g}
      /\ progress' = [progress EXCEPT ![g].copies = r.after]
      /\ streak' = r.to /\ feed' = feed
    BY DEF RollCommit
<1>3. r.look = NoLook /\ (r.makeup => d = "yesterday")
    <2>1. Faithful(j) /\ Rolls(j) /\ j.pc = "grown"
        BY DEF IInv, Base, RollCommit, Rolls
    <2> QED
        BY <2>1 DEF Faithful
<1> HIDE DEF j, r, d, g
<1>4. /\ HasProgress(g) => g \in owned
      /\ Copies[g] \in Nat /\ (Copies[g] = 0 <=> g \notin owned)
      /\ Duplicates \in Nat
    BY <1>1, CopiesMeanOwned
<1>5. /\ r.before = Copies[g]
      /\ r.new <=> Copies[g] = 0
    BY <1>1, <1>4 DEF Copies
<1>6. r.from = Duplicates /\ r.to = OneByOne!Streak(g)
    BY <1>1, <1>5 DEF Duplicates, OneByOne!Streak, IInv, Base, TypeOK
<1>7. r = [pig |-> g, makeup |-> r.makeup, kept |-> TRUE, look |-> NoLook,
           before |-> Copies[g], after |-> Copies[g] + 1, new |-> Copies[g] = 0,
           from |-> Duplicates, to |-> OneByOne!Streak(g)]
    BY <1>1, <1>3, <1>5, <1>6 DEF Roll
<1>8. Copies' = [Copies EXCEPT ![g] = @ + 1]
    <2>1. progress \in [Pig -> [copies : Nat, bonus : Nat]] /\ r.after \in Nat /\ r.after > 0
        BY <1>1, <1>4, <1>5 DEF IInv, Base, TypeOK
    <2>2. ASSUME NEW h \in Pig
          PROVE  Copies'[h] = IF h = g THEN Copies[g] + 1 ELSE Copies[h]
        BY <1>1, <1>2, <1>5, <2>1 DEF Copies, HasProgress
    <2> QED
        BY <2>2 DEF Copies
<1>9. Bonus' = Bonus
    BY <1>1, <1>2 DEF Bonus, IInv, Base, TypeOK
<1>10. Duplicates' = OneByOne!Streak(g)
    BY <1>2, <1>4, <1>6 DEF Duplicates, OneByOne!Streak
<1>11. r.makeup \in BOOLEAN /\ roll[d].pig = NoPig
    BY <1>1 DEF Roll, Rolled
<1>12. OneByOne!Draw(d, g, r.makeup)
    BY <1>2, <1>3, <1>7, <1>8, <1>9, <1>10, <1>11 DEF OneByOne!Draw
<1> QED
    BY <1>1, <1>11, <1>12 DEF OneByOne!Next, OneByOne!Day, Day

(* A feed that commits is one feed, at the level that its pig has.           *)
LEMMA CommitFeeds ==
    ASSUME IInv, NEW p \in Worker, FeedCommit(p)
    PROVE  OneByOne!Next
<1> DEFINE j == job[p]
           f == j.row.pig
           d == j.day
<1>1. j \in Feeding /\ j.op = "feed" /\ j.pc = "grown" /\ Faithful(j) /\ UpToDate(j) /\ ~FeedClashes(j)
    BY JobKinds DEF FeedCommit, Base, IInv
<1>2. /\ feed' = [feed EXCEPT ![d] = j.row]
      /\ progress' = [progress EXCEPT ![f] = [copies |-> IF j.counts THEN 1 ELSE @.copies,
                                              bonus |-> j.bonus]]
      /\ UNCHANGED <<roll, owned, streak>>
    BY DEF FeedCommit
<1> HIDE DEF j
<1>3. /\ d \in Day /\ j.row \in Feed /\ j.bonus \in Nat /\ j.counts \in BOOLEAN
      /\ Rolled(d) /\ roll[d].pig = f /\ ~roll[d].makeup
      /\ j.row.after = j.row.before + 1 /\ j.row.after <= MaxLevel
    BY <1>1 DEF Feeding, Faithful
<1>4. /\ ~Fed(d)
      /\ j.counts <=> ~HasProgress(f)
      /\ j.counts => j.bonus = 1 /\ j.row.before = Level(1, 0)
      /\ ~j.counts => /\ j.bonus = progress[f].bonus + 1
                      /\ j.row.before = Level(progress[f].copies, progress[f].bonus)
    BY <1>1, <1>3 DEF UpToDate, FeedClashes
<1> HIDE DEF d
<1>5. f \in Pig
    BY <1>3, GrowthAssumption DEF IInv, Base, TypeOK, Roll, Rolled
<1> DEFINE row == j.row
<1>6. row = [pig |-> f, before |-> row.before, after |-> row.before + 1] /\ row.before \in Nat
    BY <1>3 DEF Feed
<1> HIDE DEF f, row
<1>7. f \in owned
    <2>1. roll[d].kept => d \in DrawnDays(f)
        BY <1>3 DEF DrawnDays, Drawn
    <2>2. ~roll[d].kept => f \in old
        BY <1>3 DEF IInv, OldRolls
    <2>3. PigSound(f)
        BY <1>5 DEF IInv
    <2> QED
        BY <2>1, <2>2, <2>3 DEF PigSound
<1>8. /\ Copies[f] = IF HasProgress(f) THEN progress[f].copies ELSE 1
      /\ Copies[f] \in Nat \ {0}
      /\ Bonus[f] = progress[f].bonus /\ Bonus[f] \in Nat
    BY <1>5, <1>7, CopiesMeanOwned DEF Copies
<1>9. ~HasProgress(f) => progress[f].bonus = 0
    BY <1>5, FS_EmptySet DEF IInv, PigSound
<1>10. row.before = Level(Copies[f], Bonus[f]) /\ j.bonus = Bonus[f] + 1
    BY <1>4, <1>8, <1>9 DEF f, row
<1>11. Level(Copies[f], Bonus[f]) = OneByOne!Level(f)
    BY <1>8 DEF Level, OneByOne!Level
<1>12. OneByOne!Level(f) < MaxLevel
    BY <1>3, <1>6, <1>10, <1>11, GrowthAssumption DEF row
<1>13. \A g \in Pig : progress'[g] = IF g = f THEN [copies |-> IF j.counts THEN 1 ELSE progress[f].copies,
                                                    bonus |-> j.bonus]
                                     ELSE progress[g]
    BY <1>2, <1>5 DEF IInv, Base, TypeOK, f
<1>14. Copies' = Copies
    <2>1. ASSUME NEW g \in Pig
          PROVE  Copies'[g] = Copies[g]
        BY <1>2, <1>4, <1>7, <1>8, <1>13 DEF Copies, HasProgress, f
    <2> QED
        BY <2>1 DEF Copies
<1>15. Bonus' = [Bonus EXCEPT ![f] = @ + 1]
    <2>1. ASSUME NEW g \in Pig
          PROVE  Bonus'[g] = IF g = f THEN Bonus[f] + 1 ELSE Bonus[g]
        <3>1. progress'[g].bonus = IF g = f THEN j.bonus ELSE progress[g].bonus
            BY <1>13
        <3> QED
            BY <1>10, <3>1 DEF Bonus
    <2> QED
        BY <1>5, <2>1 DEF Bonus
<1>16. Duplicates' = Duplicates
    BY <1>2 DEF Duplicates
<1>17. feed' = [feed EXCEPT ![d] = [pig |-> f, before |-> OneByOne!Level(f),
                                    after |-> OneByOne!Level(f) + 1]]
    BY <1>2, <1>6, <1>10, <1>11 DEF row
<1>18. OneByOne!FeedPig(d, f)
    BY <1>2, <1>3, <1>4, <1>12, <1>14, <1>15, <1>16, <1>17 DEF OneByOne!FeedPig, Fed, f
<1> QED
    BY <1>3, <1>5, <1>18 DEF OneByOne!Next, OneByOne!Day, Day

(* The resources of a roll are written once. *)
LEMMA CommitDresses ==
    ASSUME IInv, NEW p \in Worker, SnapshotWrite(p)
    PROVE  OneByOne!Next
<1> DEFINE d == job[p].day
           look == job[p].look
<1>1. /\ d \in Day /\ look \in Look
      /\ roll' = [roll EXCEPT ![d] = [roll[d] EXCEPT !.look = look]]
      /\ UNCHANGED <<owned, progress, streak, feed>>
    BY SnapshotShape DEF IInv, Showing
<1>2. roll[d].kept /\ roll[d].look = NoLook
    BY DEF IInv, UpToDate, SnapshotWrite
<1> HIDE DEF d, look
<1>3. roll' = [roll EXCEPT ![d].look = look]
    BY <1>1 DEF IInv, Base, TypeOK
<1>4. Copies' = Copies /\ Bonus' = Bonus /\ Duplicates' = Duplicates
    BY <1>1 DEF Copies, Bonus, Duplicates, HasProgress
<1>5. OneByOne!Dress(d, look)
    BY <1>1, <1>2, <1>3, <1>4 DEF OneByOne!Dress
<1> QED
    BY <1>1, <1>5 DEF OneByOne!Next, OneByOne!Day, Day

LEMMA NextImplements ==
    ASSUME IInv, [Next]_vars
    PROVE  [OneByOne!Next]_OneByOne!vars
<1>1. \/ UNCHANGED <<roll, owned, progress, streak, feed>>
      \/ \E p \in Worker : RollCommit(p) \/ FeedCommit(p) \/ SnapshotWrite(p)
    <2>1. CASE \E op \in {"roll", "makeup"}, d \in Day, withGroup \in BOOLEAN : Repeat(op, d, withGroup)
        BY <2>1 DEF Repeat
    <2>2. ASSUME NEW p \in Worker, Begin(p)
          PROVE  UNCHANGED <<roll, owned, progress, streak, feed>>
        BY <2>2 DEF Begin, RollBegin, FeedBegin, SnapshotRead
    <2>3. ASSUME NEW p \in Worker, RollGrow(p) \/ Clash(p) \/ RollLost(p) \/ FeedGrow(p) \/ FeedLost(p)
          PROVE  UNCHANGED <<roll, owned, progress, streak, feed>>
        BY <2>3 DEF RollGrow, Clash, RollLost, FeedGrow, FeedLost
    <2>4. ASSUME NEW p \in Worker, Abort(p)
          PROVE  UNCHANGED <<roll, owned, progress, streak, feed>>
        BY <2>4 DEF Abort
    <2>5. CASE UNCHANGED vars
        BY <2>5 DEF vars
    <2>6. CASE \E d \in Marked : MarkSeen(d)
        BY <2>6 DEF MarkSeen
    <2> QED
        BY <2>1, <2>2, <2>3, <2>4, <2>5, <2>6 DEF Next, Go
<1> QED
    BY <1>1, RowsUnseen, CommitDraws, CommitFeeds, CommitDresses

(* With row locks the concurrent requests of a user do to its growth what    *)
(* they would one after the other (tests/test_daily_roll_snapshots.py:46):   *)
(* each commit of apply_created_roll_progress or apply_daily_feed is one     *)
(* roll or feed of SerialGrowth, and no other step of theirs shows.          *)
THEOREM GrowthIsSerial ==
    ASSUME RowLocks
    PROVE  Spec => ImplementsSerial
BY SerialInit, NextImplements, InvariantHolds, PTL DEF Spec, ImplementsSerial, OneByOne!Spec
=============================================================================
