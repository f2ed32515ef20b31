------------------------------- MODULE Growth -------------------------------
(***************************************************************************)
(* What one user's rolls and daily feeds do to copies, levels and the      *)
(* streak of duplicates.  Source: routers/daily_rolls.py and               *)
(* services/progress.py.                                                   *)
(*                                                                         *)
(* A request is a transaction of several steps.  On MySQL (RowLocks) its   *)
(* plain reads show the snapshot of its first read, SELECT ... FOR UPDATE  *)
(* reads the present row and locks it until the end; a row that is not     *)
(* there cannot be locked (gap locks are not relied on) and the unique     *)
(* keys decide.  SQLite locks the whole database, from the first write of  *)
(* a transaction on.                                                       *)
(***************************************************************************)
EXTENDS Integers, FiniteSets

CONSTANTS
    Pig, Worker,
    Look,           \* appearance snapshots a client may report
    MaxLevel,       \* MAX_EXPERT_LEVEL
    MaxTries,       \* of _retry_roll_conflicts
    RowLocks,       \* whether SELECT ... FOR UPDATE locks the row
    Marked,         \* the days clients report with /mark-seen (a bound)
    NoPig, NoLook

Day == {"yesterday", "today"}

ASSUME GrowthAssumption ==
    /\ IsFiniteSet(Pig) /\ NoPig \notin Pig /\ NoLook \notin Look
    /\ MaxLevel \in Nat /\ MaxTries \in Nat \ {0} /\ RowLocks \in BOOLEAN
    /\ Marked \subseteq Day

VARIABLES
    roll,       \* daily_rolls, with the result each keeps of its growth
    owned,      \* collections
    progress,   \* user_pig_progress: copies (0: no row) and growth_bonus
    streak,     \* user_draw_state.duplicate_streak (-1: no row)
    feed,       \* user_daily_feeds
    grouped,    \* group_rolls of the days: none, or which endpoint inserted it
    told,       \* the pigs that requests for a day were answered with
    job,        \* the transaction of each worker
    old         \* the pigs owned before, once each (it never changes)

vars == <<roll, owned, progress, streak, feed, grouped, told, job, old>>

NoRoll == [pig |-> NoPig, makeup |-> FALSE, kept |-> FALSE, look |-> NoLook,
           before |-> 0, after |-> 0, new |-> FALSE, from |-> 0, to |-> 0]

(* kept: the result of the growth is recorded; from, to: the streak. *)
Roll == [pig : Pig \cup {NoPig}, makeup : BOOLEAN, kept : BOOLEAN, look : Look \cup {NoLook},
         before : Nat, after : Nat, new : BOOLEAN, from : Nat, to : Nat]

NoFeed == [pig |-> NoPig, before |-> 0, after |-> 0]
Feed == [pig : Pig \cup {NoPig}, before : Nat, after : Nat]

Idle == [op |-> "idle", locks |-> {}]

TypeOK ==
    /\ roll \in [Day -> Roll] /\ feed \in [Day -> Feed]
    /\ owned \subseteq Pig /\ old \subseteq Pig
    /\ progress \in [Pig -> [copies : Nat, bonus : Nat]]
    /\ streak \in Nat \cup {-1}
    /\ grouped \in [Day -> {"none", "roll", "mark-seen"}] /\ told \in [Day -> SUBSET Pig]

Rolled(d) == roll[d].pig # NoPig
Fed(d) == feed[d].pig # NoPig
HasProgress(g) == progress[g].copies > 0

(* Pigs collected before progress was introduced have a collection row only; *)
(* so has yesterday's roll of that time, which recorded no growth.           *)
Init ==
    \E had \in SUBSET Pig, first \in Pig \cup {NoPig} :
      \E counted \in SUBSET had :
        /\ first # NoPig => first \in had \ counted
        /\ old = had /\ owned = had
        /\ progress = [g \in Pig |-> [copies |-> IF g \in counted THEN 1 ELSE 0, bonus |-> 0]]
        /\ streak = IF counted = {} THEN -1 ELSE 0
        /\ roll = [d \in Day |-> IF d = "yesterday" THEN [NoRoll EXCEPT !.pig = first] ELSE NoRoll]
        /\ feed = [d \in Day |-> NoFeed]
        /\ grouped = [d \in Day |-> "none"] /\ told = [d \in Day |-> {}]
        /\ job = [p \in Worker |-> Idle]

-----------------------------------------------------------------------------
(* Locks *)

PigRow(g) == IF HasProgress(g) THEN {<<"pig", g>>} ELSE {}
DrawRow == IF streak >= 0 THEN {<<"draw">>} ELSE {}

(* Mutant of GrowthRows: draw state is read without a lock. *)
GrowthRowsNoDraw(g) == PigRow(g)

(* The rows that apply_created_roll_progress reads FOR UPDATE. *)
GrowthRows(g) == PigRow(g) \cup DrawRow

Held(p) == UNION {job[q].locks : q \in Worker \ {p}}

(* A lock on a row, or SQLite's on the database, keeps others waiting. *)
MayLock(p, rows) == IF RowLocks THEN rows \cap Held(p) = {} ELSE TRUE
MayWrite(p) == <<"database">> \notin Held(p)

Stop(p) == job' = [job EXCEPT ![p] = Idle]

-----------------------------------------------------------------------------
(* get-or-create and makeup *)

Level(copies, bonus) ==
    LET l == copies - 1 + bonus
    IN  IF l < 0 THEN 0 ELSE IF l > MaxLevel THEN MaxLevel ELSE l

(* A group roll records the first time the user was seen and then stays. *)
Registered(d, by) == [grouped EXCEPT ![d] = IF @ = "none" THEN by ELSE @]

(* Mutant of Answer: a made-up roll is registered in the group, too. *)
AnswerRegisters(op, d, withGroup) ==
    /\ told' = [told EXCEPT ![d] = @ \cup {roll[d].pig}]
    /\ grouped' = IF op = "roll" /\ withGroup THEN Registered(d, "roll") ELSE grouped

(* An existing roll is answered; /get-or-create sees to its group roll,      *)
(* unless it was made up (so does a join by message that finds a real roll). *)
Answer(op, d, withGroup) ==
    /\ told' = [told EXCEPT ![d] = @ \cup {roll[d].pig}]
    /\ grouped' = IF op = "roll" /\ withGroup /\ ~roll[d].makeup
                  THEN Registered(d, "roll") ELSE grouped

Repeat(op, d, withGroup) ==
    /\ Rolled(d)
    /\ Answer(op, d, withGroup)
    /\ UNCHANGED <<roll, owned, progress, streak, feed, job, old>>

Started(op, d, g, withGroup, tries) ==
    [op |-> op, pc |-> "read", day |-> d, pig |-> g, withGroup |-> withGroup,
     tries |-> tries, owned |-> owned, locks |-> {}]

(* No roll in sight: the transaction's snapshot begins.  Only yesterday can  *)
(* be made up.                                                               *)
RollBegin(p, op, d, g, withGroup) ==
    /\ job[p] = Idle /\ ~Rolled(d)
    /\ op = "makeup" => d = "yesterday" /\ ~withGroup
    /\ job' = [job EXCEPT ![p] = Started(op, d, g, withGroup, 1)]
    /\ UNCHANGED <<roll, owned, progress, streak, feed, grouped, told, old>>

(* SQLite has no snapshot outside a write, and a makeup writes its roll      *)
(* before it reads; get-or-create writes at the end.                         *)
SeenOwned(j) == IF RowLocks THEN j.owned ELSE owned
LocksDatabase(j) == ~RowLocks /\ j.op = "makeup"

(* Mutant of Grown: a pig without a progress row counts from zero. *)
GrownFromZero(j) ==
    LET g == j.pig
        isNew == g \notin SeenOwned(j) /\ ~HasProgress(g)
        before == progress[g].copies
        from == IF streak >= 0 THEN streak ELSE 0
    IN  [pig |-> g, makeup |-> j.op = "makeup", kept |-> TRUE, look |-> NoLook,
         before |-> before, after |-> before + 1, new |-> isNew,
         from |-> from, to |-> IF isNew THEN 0 ELSE from + 1]

(* apply_created_roll_progress, as the new roll records it. *)
Grown(j) ==
    LET g == j.pig
        isNew == g \notin SeenOwned(j) /\ ~HasProgress(g)
        before == IF isNew THEN 0 ELSE IF HasProgress(g) THEN progress[g].copies ELSE 1
        from == IF streak >= 0 THEN streak ELSE 0
    IN  [pig |-> g, makeup |-> j.op = "makeup", kept |-> TRUE, look |-> NoLook,
         before |-> before, after |-> before + 1, new |-> isNew,
         from |-> from, to |-> IF isNew THEN 0 ELSE from + 1]

RollGrow(p) ==
    LET j == job[p] IN
    /\ j.op \in {"roll", "makeup"} /\ j.pc = "read"
    /\ MayLock(p, GrowthRows(j.pig))
    /\ LocksDatabase(j) => MayWrite(p) /\ ~Rolled(j.day)
    /\ job' = [job EXCEPT ![p] = [op |-> j.op, pc |-> "grown", day |-> j.day, pig |-> j.pig,
                  withGroup |-> j.withGroup, tries |-> j.tries, result |-> Grown(j),
                  collects |-> j.pig \notin SeenOwned(j),
                  counts |-> ~HasProgress(j.pig), draws |-> streak < 0,
                  locks |-> IF LocksDatabase(j) THEN {<<"database">>} ELSE GrowthRows(j.pig)]]
    /\ UNCHANGED <<roll, owned, progress, streak, feed, grouped, told, old>>

(* A row another transaction has inserted meanwhile. *)
Clashes(j) ==
    \/ Rolled(j.day)
    \/ j.collects /\ j.pig \in owned
    \/ j.counts /\ HasProgress(j.pig)
    \/ j.draws /\ streak >= 0

(* The flush and the commit. *)
RollCommit(p) ==
    LET j == job[p] IN
    /\ j.op \in {"roll", "makeup"} /\ j.pc = "grown"
    /\ MayWrite(p) /\ ~Clashes(j)
    /\ roll' = [roll EXCEPT ![j.day] = j.result]
    /\ owned' = owned \cup {j.pig}
    /\ progress' = [progress EXCEPT ![j.pig].copies = j.result.after]
    /\ streak' = j.result.to
    /\ grouped' = IF j.withGroup THEN Registered(j.day, "roll") ELSE grouped
    /\ told' = [told EXCEPT ![j.day] = @ \cup {j.pig}]
    /\ Stop(p)
    /\ UNCHANGED <<feed, old>>

Clash(p) ==
    LET j == job[p] IN
    /\ j.op \in {"roll", "makeup"}
    /\ \/ j.pc = "grown" /\ MayWrite(p) /\ Clashes(j)
       \/ j.pc = "read" /\ LocksDatabase(j) /\ MayWrite(p) /\ Rolled(j.day)
    /\ job' = [job EXCEPT ![p] = [op |-> j.op, pc |-> "lost", day |-> j.day, pig |-> j.pig,
                  withGroup |-> j.withGroup, tries |-> j.tries, locks |-> {}]]
    /\ UNCHANGED <<roll, owned, progress, streak, feed, grouped, told, old>>

(* The next try of _retry_roll_conflicts, while there is one. *)
Retry(p, j) ==
    job' = [job EXCEPT ![p] = IF j.tries < MaxTries
                              THEN Started(j.op, j.day, j.pig, j.withGroup, j.tries + 1) ELSE Idle]

(* After the rollback: the roll that won is answered.  Without one the clash *)
(* was over the growth, and the whole handler runs again.                    *)
RollLost(p) ==
    LET j == job[p] IN
    /\ j.op \in {"roll", "makeup"} /\ j.pc = "lost"
    /\ \/ /\ Rolled(j.day)
          /\ Answer(j.op, j.day, j.withGroup)
          /\ Stop(p)
       \/ /\ ~Rolled(j.day)
          /\ Retry(p, j)
          /\ UNCHANGED <<grouped, told>>
    /\ UNCHANGED <<roll, owned, progress, streak, feed, old>>

-----------------------------------------------------------------------------
(* apply_daily_feed, called by /events and /outcome/prepare *)

FeedBegin(p, d) ==
    /\ job[p] = Idle /\ ~Fed(d)
    /\ job' = [job EXCEPT ![p] = [op |-> "feed", pc |-> "read", day |-> d, locks |-> {}]]
    /\ UNCHANGED <<roll, owned, progress, streak, feed, grouped, told, old>>

(* Mutant of Feedable: a made-up roll can be fed. *)
FeedableMakeup(d) == Rolled(d)

Feedable(d) == Rolled(d) /\ ~roll[d].makeup

AtCap(level) == level >= MaxLevel

(* The roll and the progress are locked; the snapshot showed no feed.  No    *)
(* pig, or one at the cap: the day is not used up.                           *)
FeedGrow(p) ==
    LET j == job[p]
        g == roll[j.day].pig
        copies == IF HasProgress(g) THEN progress[g].copies ELSE 1
        level == Level(copies, progress[g].bonus)
    IN  /\ j.op = "feed" /\ j.pc = "read"
        /\ MayLock(p, {<<"roll", j.day>>})
        /\ \/ ~Feedable(j.day) /\ Stop(p)
           \/ /\ Feedable(j.day)
              /\ MayLock(p, PigRow(g))
              /\ IF AtCap(level) THEN Stop(p)
                 ELSE job' = [job EXCEPT ![p] = [op |-> "feed", pc |-> "grown", day |-> j.day,
                          counts |-> ~HasProgress(g), bonus |-> progress[g].bonus + 1,
                          row |-> [pig |-> g, before |-> level,
                                   after |-> Level(copies, progress[g].bonus + 1)],
                          locks |-> {<<"roll", j.day>>} \cup PigRow(g)]]
        /\ UNCHANGED <<roll, owned, progress, streak, feed, grouped, told, old>>

(* Mutant of FeedClashes: the unique key on (date, user) is missing. *)
FeedClashesNever(j) == j.counts /\ HasProgress(j.row.pig)

FeedClashes(j) == Fed(j.day) \/ (j.counts /\ HasProgress(j.row.pig))

FeedCommit(p) ==
    LET j == job[p] IN
    /\ j.op = "feed" /\ j.pc = "grown"
    /\ MayWrite(p) /\ ~FeedClashes(j)
    /\ feed' = [feed EXCEPT ![j.day] = j.row]
    /\ progress' = [progress EXCEPT ![j.row.pig] =
                      [copies |-> IF j.counts THEN 1 ELSE @.copies, bonus |-> j.bonus]]
    /\ Stop(p)
    /\ UNCHANGED <<roll, owned, streak, grouped, told, old>>

(* Another feed of the day won.  On MySQL the re-read still shows the old    *)
(* snapshot, and the IntegrityError ends the request; on SQLite it finds the *)
(* winner.  Neither changes a row here.                                      *)
FeedLost(p) ==
    LET j == job[p] IN
    /\ j.op = "feed" /\ j.pc = "grown"
    /\ MayWrite(p) /\ FeedClashes(j)
    /\ Stop(p)
    /\ UNCHANGED <<roll, owned, progress, streak, feed, grouped, told, old>>

-----------------------------------------------------------------------------
(* PUT /snapshot: the first client's resources are kept with the roll.       *)
(* Repetitions and rows without a recorded growth change nothing.            *)

SnapshotRead(p, d, look) ==
    /\ job[p] = Idle
    /\ Rolled(d) /\ roll[d].kept /\ roll[d].look = NoLook
    /\ MayLock(p, {<<"roll", d>>})
    /\ job' = [job EXCEPT ![p] = [op |-> "snapshot", pc |-> "grown", day |-> d, look |-> look,
                  makeup |-> roll[d].makeup, locks |-> {<<"roll", d>>}]]
    /\ UNCHANGED <<roll, owned, progress, streak, feed, grouped, told, old>>

SnapshotWrite(p) ==
    LET j == job[p] IN
    /\ j.op = "snapshot" /\ MayWrite(p)
    /\ roll' = [roll EXCEPT ![j.day].look = j.look, ![j.day].makeup = j.makeup]
    /\ Stop(p)
    /\ UNCHANGED <<owned, progress, streak, feed, grouped, told, old>>

-----------------------------------------------------------------------------
(* POST /v1/group-rolls/mark-seen: a client registers the user itself, on    *)
(* any day; the rolls are not looked at.                                     *)
MarkSeen(d) ==
    /\ grouped' = Registered(d, "mark-seen")
    /\ UNCHANGED <<roll, owned, progress, streak, feed, told, job, old>>

-----------------------------------------------------------------------------
(* The database gives up (a deadlock or a lock timeout, which rolls are      *)
(* retried after), or the process dies.                                      *)
Abort(p) ==
    /\ job[p] # Idle
    /\ \/ Stop(p)
       \/ job[p].op \in {"roll", "makeup"} /\ ~Rolled(job[p].day) /\ Retry(p, job[p])
    /\ UNCHANGED <<roll, owned, progress, streak, feed, grouped, told, old>>

Begin(p) ==
    \/ \E op \in {"roll", "makeup"}, d \in Day, g \in Pig, withGroup \in BOOLEAN :
          RollBegin(p, op, d, g, withGroup)
    \/ \E d \in Day : FeedBegin(p, d)
    \/ \E d \in Day, look \in Look : SnapshotRead(p, d, look)

Go(p) ==
    \/ RollGrow(p) \/ RollCommit(p) \/ Clash(p) \/ RollLost(p)
    \/ FeedGrow(p) \/ FeedCommit(p) \/ FeedLost(p)
    \/ SnapshotWrite(p)

Next ==
    \/ \E op \in {"roll", "makeup"}, d \in Day, withGroup \in BOOLEAN : Repeat(op, d, withGroup)
    \/ \E d \in Marked : MarkSeen(d)
    \/ \E p \in Worker : Begin(p) \/ Go(p) \/ Abort(p)

Spec == Init /\ [][Next]_vars

-----------------------------------------------------------------------------
(* Properties *)

Drawn == {d \in Day : Rolled(d) /\ roll[d].kept}

(* Copies count the rolls of a pig, and its bonus the days it was fed: no    *)
(* roll of another day, no feed and no retry is lost or counted twice        *)
(* (tests/test_daily_roll_snapshots.py:46), whether progress existed or not; *)
(* the state has its types.                                                  *)
GrowthMatchesHistory ==
    /\ TypeOK
    /\ \A g \in Pig :
        LET had == IF g \in old THEN 1 ELSE 0
            drawn == Cardinality({d \in Drawn : roll[d].pig = g})
        IN  /\ HasProgress(g) => progress[g].copies = had + drawn
            /\ drawn > 0 => HasProgress(g)
            /\ g \in owned <=> had + drawn > 0
            /\ progress[g].bonus = Cardinality({d \in Day : feed[d].pig = g})

(* The results the rolls of two days recorded are those of one after the     *)
(* other: the second one continues the copies and the streak of the first.   *)
RollsAreSerial ==
    /\ \A d \in Drawn :
          /\ roll[d].after = roll[d].before + 1
          /\ roll[d].new <=> roll[d].before = 0
    /\ Drawn # {} => \E last \in Drawn :
          /\ streak = roll[last].to
          /\ \A d \in Drawn \ {last} :
                /\ roll[last].from = roll[d].to
                /\ roll[last].pig = roll[d].pig => roll[last].before = roll[d].after

(* A feed takes the day's pig, which was not made up, one level up, and the  *)
(* cap is never crossed nor the day used up for nothing.                     *)
FeedsAreEarned ==
    \A d \in Day : Fed(d) =>
        /\ feed[d].pig = roll[d].pig /\ ~roll[d].makeup
        /\ feed[d].after = feed[d].before + 1 /\ feed[d].after <= MaxLevel

(* Whoever wins a day, all clients are told its pig, and no race of a makeup *)
(* with /get-or-create lets the latter register a day that was made up in a  *)
(* group (/mark-seen, which looks at no roll, may).                          *)
OnePigPerDay ==
    \A d \in Day :
        /\ told[d] \subseteq {roll[d].pig}
        /\ grouped[d] = "roll" => Rolled(d) /\ ~roll[d].makeup

(* A roll keeps what it recorded: pig, growth and is_makeup for ever, and    *)
(* the resources of the first client that reported them.                     *)
RollsAreKept ==
    [][\A d \in Day : Rolled(d) =>
          roll'[d] = IF roll[d].look = NoLook THEN [roll[d] EXCEPT !.look = roll'[d].look]
                     ELSE roll[d]]_vars

(* The growth that the rows stand for: a pig that has only a collection row  *)
(* was drawn once, and without a draw state there is no streak.              *)
Copies == [g \in Pig |-> IF g \notin owned THEN 0 ELSE IF HasProgress(g) THEN progress[g].copies ELSE 1]
Bonus == [g \in Pig |-> progress[g].bonus]
Duplicates == IF streak >= 0 THEN streak ELSE 0

OneByOne == INSTANCE SerialGrowth WITH
    copies <- Copies, bonus <- Bonus, duplicates <- Duplicates

(* Concurrent rolls, makeups and feeds, with their clashes, retries and rows *)
(* of the time before progress, do what they would one after the other       *)
(* (tests/test_daily_roll_snapshots.py:46): each commit is one roll or feed, *)
(* of the growth of that moment, and no other step shows.                    *)
ImplementsSerial == OneByOne!Spec
=============================================================================
