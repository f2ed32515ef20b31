------------------------------- MODULE Refill -------------------------------
(***************************************************************************)
(* The votes of one (date, group) that refill the roast charges of its     *)
(* active members.  Source: services/roast_refills.py and its router.      *)
(*                                                                         *)
(* A request reads what it decides on in one step and commits in a later   *)
(* one.  On MySQL the vote it read stays locked in between (RowLocks); on  *)
(* SQLite, which ignores SELECT ... FOR UPDATE, it does not, and UPDATE    *)
(* ... WHERE id = ? then overwrites what others committed.  The gap locks  *)
(* MySQL may add where there is no row to lock are not relied on.          *)
(***************************************************************************)
EXTENDS Integers, Sequences, FiniteSets

CONSTANTS
    Request,        \* votes that can be opened on the day (a bound)
    Worker,         \* request handlers of the service
    User, Message,
    Manager, Bot,   \* users whom a client may report as managers, or exclude
    MaxTries,       \* of /prepare (3 in the code)
    RowLocks,       \* whether SELECT ... FOR UPDATE locks the row
    Ttl,            \* ROAST_REFILL_TTL_SECONDS
    Skew,           \* how far a client's now_ts may be off (a bound)
    LastTime,       \* where the clock of the model stops (a bound)
    NoRequest, NoMessage

ASSUME ConstantAssumption ==
    /\ IsFiniteSet(Request) /\ IsFiniteSet(User)
    /\ Manager \subseteq User /\ Bot \subseteq User
    /\ MaxTries \in Nat \ {0} /\ RowLocks \in BOOLEAN
    /\ Ttl \in Nat \ {0} /\ Skew \in Nat /\ LastTime \in Nat
    /\ NoRequest \notin Request /\ NoMessage \notin Message

Policy == {"capped", "legacy"}
MinActive == 3      \* members a vote needs
MinVoters == 2      \* ROAST_REFILL_MIN_DISTINCT_VOTERS
MaxGroup == 48      \* the largest group whose thresholds are compared (a bound)

VARIABLES
    row,        \* the group_roast_refill_requests rows
    active,     \* the group's active users of the day
    refills,    \* how often _reset_roast_charges filled a user's charges
    work,       \* what each worker is about to commit
    now         \* the clock of the service

vars == <<row, active, refills, work, now>>

Ended == {"succeeded", "failed", "expired"}

Row == [status : {"unused", "voting"} \cup Ended, key : BOOLEAN,
        message : Message \cup {NoMessage}, required : Nat, before : Nat,
        expires : Nat, benefited : SUBSET User]

Unused == [status |-> "unused", key |-> FALSE, message |-> NoMessage, required |-> 0,
           before |-> 0, expires |-> 0, benefited |-> {}]

Idle == [op |-> "idle"]

Change == [op : {"expire", "bind", "fail", "succeed"}, req : Request,
           message : Message \cup {NoMessage}, benefited : SUBSET User]

Prepare == [op : {"create", "again"}, req : Request \cup {NoRequest}, fresh : Row,
            policy : Policy, eligible : SUBSET User, at : Nat,
            tries : 0..MaxTries, lost : SUBSET Request]

(* Votes hold what the code can write, and a change under way names its vote. *)
TypeOK ==
    /\ row \in [Request -> Row]
    /\ active \subseteq User
    /\ refills \in [User -> Nat]
    /\ work \in [Worker -> Change \cup Prepare \cup {Idle}]
    /\ now \in 0..LastTime

Init ==
    /\ row = [r \in Request |-> Unused]
    /\ active = {}
    /\ refills = [u \in User |-> 0]
    /\ work = [p \in Worker |-> Idle]
    /\ now = 0

-----------------------------------------------------------------------------
(* Thresholds *)

Least(a, b) == IF a <= b THEN a ELSE b
Most(a, b) == IF a >= b THEN a ELSE b

Steps == <<[ratio |-> 25, cap |-> 8], [ratio |-> 35, cap |-> 12],
           [ratio |-> 45, cap |-> 16], [ratio |-> 55, cap |-> 20]>>
LegacyRatios == <<25, 35, 45, 55, 65>>

(* Mutant of AtRound: the rounds wrap around. *)
AtRoundWrapping(steps, k) == steps[(k % Len(steps)) + 1]

(* The step of the round after k refills; the last one repeats. *)
AtRound(steps, k) == IF k < Len(steps) THEN steps[k + 1] ELSE steps[Len(steps)]

Share(n, ratio) == (n * ratio + 99) \div 100

refill_threshold(n, k) ==
    LET step == AtRound(Steps, k)
    IN  Most(2, Least(Share(n, step.ratio), step.cap))

legacy_refill_threshold(n, k) == Most(2, Share(n, AtRound(LegacyRatios, k)))

Threshold(policy, n, k) ==
    IF policy = "capped" THEN refill_threshold(n, k) ELSE legacy_refill_threshold(n, k)

-----------------------------------------------------------------------------
(* Reading and locking *)

Voting(r) == row[r].status = "voting"
Successes == Cardinality({r \in Request : row[r].status = "succeeded"})

Clocks == ((now - Skew)..(now + Skew)) \cap Nat

Holds(p, r) == work[p] # Idle /\ work[p].req = r
MayLock(r) == RowLocks => \A p \in Worker : ~Holds(p, r)

(* Mutant of Expired: a vote whose message is bound is not expired. *)
ExpiredUnbound(r, at) == row[r].expires <= at /\ row[r].message = NoMessage

Expired(r, at) == row[r].expires <= at

(* Mutant of Closed: the status changes and active_key stays. *)
ClosedKeepsKey(x, status) == [x EXCEPT !.status = status]

Closed(x, status) == [x EXCEPT !.status = status, !.key = FALSE]

Start(p, op, r, message, benefited) ==
    work' = [work EXCEPT ![p] = [op |-> op, req |-> r, message |-> message,
                                 benefited |-> benefited]]

Expire(p, r) == Start(p, "expire", r, NoMessage, {})

-----------------------------------------------------------------------------
(* prepare *)

(* Mutant of Expiry: the lifetime is subtracted. *)
ExpiryBefore(at) == at - Ttl

Expiry(at) == at + Ttl

(* One try, from what it reads.  The vote that holds active_key is expired,  *)
(* answered, or absent; then members and rounds are counted.                 *)
PrepareReads(p, policy, eligible, at, tries, lost) ==
    LET members == active \cap eligible
        k == Successes
        fresh == [Unused EXCEPT !.status = "voting", !.key = TRUE, !.before = k,
                     !.required = Threshold(policy, Cardinality(members), k),
                     !.expires = Expiry(at)]
        create(r) == [op |-> "create", req |-> r, fresh |-> fresh, policy |-> policy,
                      eligible |-> eligible, at |-> at, tries |-> tries, lost |-> lost]
        enough == Cardinality(members) >= MinActive
    IN  \/ \E r \in Request :
              /\ row[r].key /\ Voting(r) /\ MayLock(r)
              /\ IF ~Expired(r, at) THEN work' = [work EXCEPT ![p] = Idle]
                 ELSE IF enough THEN work' = [work EXCEPT ![p] = create(r)]
                 ELSE Expire(p, r)
        \/ /\ \A r \in Request : row[r].key => ~Voting(r)
           /\ work' = [work EXCEPT ![p] = IF enough THEN create(NoRequest) ELSE Idle]

(* Bounds: a vote is opened only if the clock of the model reaches its end,  *)
(* and every prepare under way has an identifier left.                       *)
PrepareRead(p, policy, eligible, at) ==
    /\ work[p] = Idle
    /\ Expiry(at) <= LastTime
    /\ Cardinality({q \in Worker : work[q] \in Prepare}) < Cardinality({r \in Request : row[r] = Unused})
    /\ PrepareReads(p, policy, eligible, at, 0, {})
    /\ UNCHANGED <<row, active, refills, now>>

(* The expiry and the insert are one transaction.  A vote that holds the     *)
(* unique active_key by then undoes both.                                    *)
PrepareCommit(p) ==
    LET j == work[p]
        freed == IF j.req = NoRequest THEN row
                 ELSE [row EXCEPT ![j.req] = Closed(@, "expired")]
        rivals == {r \in Request : freed[r].key}
    IN  /\ j.op = "create"
        /\ \/ /\ rivals = {}
              /\ \E r \in Request :
                    /\ row[r] = Unused
                    /\ row' = [freed EXCEPT ![r] = j.fresh]
              /\ work' = [work EXCEPT ![p] = Idle]
           \/ /\ rivals # {}
              /\ work' = [work EXCEPT ![p] = [j EXCEPT !.op = "again", !.req = NoRequest,
                             !.fresh = Unused, !.tries = @ + 1, !.lost = @ \cup rivals]]
              /\ UNCHANGED row
        /\ UNCHANGED <<active, refills, now>>

(* The next try, or RuntimeError after the third. *)
PrepareAgain(p) ==
    LET j == work[p] IN
    /\ j.op = "again"
    /\ IF j.tries = MaxTries THEN work' = [work EXCEPT ![p] = Idle]
       ELSE PrepareReads(p, j.policy, j.eligible, j.at, j.tries, j.lost)
    /\ UNCHANGED <<row, active, refills, now>>

-----------------------------------------------------------------------------
(* The other requests: those that would change nothing are left out *)

(* get_active_refill, with the caller's clock. *)
Lookup(p, at) ==
    /\ work[p] = Idle
    /\ \E r \in Request :
          /\ row[r].key /\ Voting(r) /\ MayLock(r) /\ Expired(r, at)
          /\ Expire(p, r)
    /\ UNCHANGED <<row, active, refills, now>>

(* The router passes no now_ts: the service's own clock decides. *)
BindRead(p, r, m) ==
    /\ work[p] = Idle
    /\ Voting(r) /\ MayLock(r)
    /\ IF Expired(r, now) THEN Expire(p, r)
       ELSE row[r].message \in {NoMessage, m} /\ Start(p, "bind", r, m, {})
    /\ UNCHANGED <<row, active, refills, now>>

FailRead(p, r, m) ==
    /\ work[p] = Idle
    /\ Voting(r) /\ MayLock(r)
    /\ m # NoMessage => row[r].message \in {NoMessage, m}
    /\ Start(p, "fail", r, NoMessage, {})
    /\ UNCHANGED <<row, active, refills, now>>

(* Mutant of Completable: the status is not looked at. *)
CompletableAgain(r, m) == row[r].message = m /\ MayLock(r)

Completable(r, m) == Voting(r) /\ row[r].message = m /\ MayLock(r)

(* A manager's vote counts twice under the policy, but two must support it.  *)
Supported(r, voters, managers, weighted) ==
    LET extra == IF weighted THEN voters \cap managers ELSE {}
    IN  /\ Cardinality(voters) >= MinVoters
        /\ Cardinality(voters) + Cardinality(extra) >= row[r].required

CompleteRead(p, r, m, voters, excluded, managers, weighted, at) ==
    /\ work[p] = Idle
    /\ Completable(r, m)
    /\ IF Expired(r, at) THEN Expire(p, r)
       ELSE /\ Supported(r, (voters \cap active) \ excluded, managers, weighted)
            /\ Start(p, "succeed", r, NoMessage, active \ excluded)
    /\ UNCHANGED <<row, active, refills, now>>

Changed(x, j) ==
    CASE j.op = "bind"    -> [x EXCEPT !.message = j.message]
      [] j.op = "fail"    -> Closed(x, "failed")
      [] j.op = "expire"  -> Closed(x, "expired")
      [] j.op = "succeed" -> [Closed(x, "succeeded") EXCEPT !.benefited = j.benefited]

Commit(p) ==
    LET j == work[p] IN
    /\ j.op \in {"bind", "fail", "expire", "succeed"}
    /\ row' = [row EXCEPT ![j.req] = Changed(@, j)]
    /\ refills' = [u \in User |-> IF u \in j.benefited THEN refills[u] + 1 ELSE refills[u]]
    /\ work' = [work EXCEPT ![p] = Idle]
    /\ UNCHANGED <<active, now>>

-----------------------------------------------------------------------------
(* mark_group_active_users: an upsert, so again and again. *)
Mark(u) ==
    /\ active' = active \cup {u}
    /\ UNCHANGED <<row, refills, work, now>>

(* The database gives up, or the process dies, before the commit. *)
Abort(p) ==
    /\ work[p] # Idle
    /\ work' = [work EXCEPT ![p] = Idle]
    /\ UNCHANGED <<row, active, refills, now>>

Tick ==
    /\ now < LastTime
    /\ now' = now + 1
    /\ UNCHANGED <<row, active, refills, work>>

Finish(p) == PrepareCommit(p) \/ PrepareAgain(p) \/ Commit(p)

Next ==
    \/ \E u \in User : Mark(u)
    \/ \E p \in Worker, policy \in Policy, eligible \in {User, User \ Bot}, at \in Clocks :
          PrepareRead(p, policy, eligible, at)
    \/ \E p \in Worker, at \in Clocks : Lookup(p, at)
    \/ \E p \in Worker, r \in Request, m \in Message : BindRead(p, r, m)
    \/ \E p \in Worker, r \in Request, m \in Message \cup {NoMessage} : FailRead(p, r, m)
    \/ \E p \in Worker, r \in Request, m \in Message, at \in Clocks, weighted \in BOOLEAN :
          \E voters \in SUBSET User, excluded \in SUBSET Bot, managers \in SUBSET Manager :
             CompleteRead(p, r, m, voters, excluded, managers, weighted, at)
    \/ \E p \in Worker : Finish(p) \/ Abort(p)
    \/ Tick

Spec == Init /\ [][Next]_vars

(* The clock runs, a request that has read goes on, and the group's bot asks *)
(* for the open vote again and again, with a clock that is not behind.       *)
Fairness ==
    /\ WF_vars(Tick)
    /\ \A p \in Worker : WF_vars(Finish(p)) /\ SF_vars(Commit(p))
    /\ SF_vars(\E p \in Worker : Lookup(p, now))

FairSpec == Spec /\ Fairness

-----------------------------------------------------------------------------
(* Properties *)

(* The group never has two open votes, and a vote that ended, whichever way, *)
(* lets go of active_key: the next one can be opened; the state has its      *)
(* types.                                                                    *)
OneOpenVote ==
    /\ TypeOK
    /\ \A r \in Request : row[r].key <=> Voting(r)
    /\ \A r, s \in Request : Voting(r) /\ Voting(s) => r = s

(* Charges are refilled once for each success a user is recorded to benefit  *)
(* from, and for no other reason: however often /complete is repeated, and   *)
(* whoever fails or expires the vote at the same time.                       *)
RefilledOncePerSuccess ==
    \A u \in User : refills[u] =
        Cardinality({r \in Request : row[r].status = "succeeded" /\ u \in row[r].benefited})

(* A vote that ended keeps its result, although clients' clocks disagree on  *)
(* whether it expired first.                                                 *)
EndedForGood ==
    [][\A r \in Request : row[r].status \in Ended => row'[r] = row[r]]_vars

(* Every failed try of /prepare lost to a vote of its own: it gives up after *)
(* MaxTries only when as many other votes were opened meanwhile. All of them *)
(* but perhaps the last have ended, for only one is open at a time.          *)
BeatenByDifferentVotes ==
    \A p \in Worker : work[p] \in Prepare => work[p].tries = Cardinality(work[p].lost)

(* The members that raised a threshold can always reach it; it grows with    *)
(* the rounds and with the group, and the capped policy is never harder than *)
(* the old one.                                                              *)
EveryRoundWinnable ==
    \A n \in MinActive..MaxGroup :
        LET k == Successes
            q == refill_threshold(n, k)
        IN  /\ q >= MinVoters /\ q <= n
            /\ q <= refill_threshold(n, k + 1) /\ q <= refill_threshold(n + 1, k)
            /\ q <= legacy_refill_threshold(n, k) /\ legacy_refill_threshold(n, k) <= n

(* An abandoned vote does not block its group for the rest of the day.       *)
VoteGivesWay == \A r \in Request : Voting(r) ~> ~Voting(r)
=============================================================================
