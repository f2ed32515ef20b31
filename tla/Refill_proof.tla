----------------------------- MODULE Refill_proof -----------------------------
(***************************************************************************)
(* Theorems about Refill, for any number of votes, workers, users, tries,  *)
(* and any lifetime and skew of the clocks, on two levels.                 *)
(*                                                                         *)
(* Base holds with and without row locks: a vote that lost active_key      *)
(* never gets it back, whatever is written to it later (OnlyOneVote,       *)
(* EachTryHasItsRival).  RowLocks is that the row a request read with      *)
(* SELECT ... FOR UPDATE stays locked until it commits (MySQL): what the   *)
(* request read of its vote is then still true (Held), so that only open   *)
(* votes are changed (ResultsStand, RefilledOnce).  The run refill_sqlite  *)
(* shows that these fail without.                                          *)
(***************************************************************************)
EXTENDS Refill, FiniteSetTheorems, TLAPS

(* A change under way is of a vote that was opened, and pays only if it      *)
(* succeeds.  A try of prepare has tries left, the vote it expires was       *)
(* opened, and the votes that beat it before have ended.                     *)
JobSound(j) ==
    /\ j \in Change => row[j.req].status # "unused" /\ (j.op # "succeed" => j.benefited = {})
    /\ j.op = "create" => /\ j.fresh.status = "voting" /\ j.fresh.key
                          /\ j.tries < MaxTries
                          /\ j.req # NoRequest => row[j.req].status # "unused"
                          /\ \A r \in j.lost : r = j.req \/ row[r].status \in Ended
    /\ j.op = "again" => /\ j.req = NoRequest
                         /\ \A r \in j.lost : row[r].status # "unused"

(* active_key is held by the open vote, and there is no other. *)
RowsSound ==
    /\ \A r \in Request : row[r].key <=> Voting(r)
    /\ \A r, s \in Request : Voting(r) /\ Voting(s) => r = s

(* The invariant that needs no locks. *)
Base ==
    /\ TypeOK
    /\ RowsSound
    /\ \A p \in Worker : JobSound(work[p])

(* A worker with a request under way that read a vote. *)
Works(p) == work[p] # Idle /\ work[p].req # NoRequest

(* With locks, the vote is open until then, and nobody else's. *)
Held ==
    /\ \A p \in Worker : Works(p) => Voting(work[p].req)
    /\ \A p, q \in Worker : p # q /\ Works(p) /\ Works(q) => work[p].req # work[q].req

Inv == Base /\ Held

(* The initial states satisfy the invariant: there is no vote. *)
LEMMA InitInv == Init => Inv
BY ConstantAssumption DEF Init, Inv, Base, Held, Works, TypeOK, RowsSound, JobSound, Row, Unused, Voting, Idle,
   Change, Prepare, Ended

-----------------------------------------------------------------------------
(* Thresholds *)

(* The tables of ratios and caps have a step for every round. *)
LEMMA Rounds ==
    ASSUME NEW k \in Nat
    PROVE  /\ AtRound(Steps, k).ratio \in {25, 35, 45, 55}
           /\ AtRound(Steps, k).cap \in {8, 12, 16, 20}
           /\ AtRound(LegacyRatios, k) \in {25, 35, 45, 55, 65}
<1>1. Len(Steps) = 4 /\ Len(LegacyRatios) = 5
    BY DEF Steps, LegacyRatios
<1>2. k \in 0..3 \/ k >= 4
    OBVIOUS
<1> QED
    BY <1>1, <1>2 DEF AtRound, Steps, LegacyRatios


(* A threshold is a number, whatever the policy. *)
LEMMA ThresholdNat ==
    ASSUME NEW policy \in Policy, NEW n \in Nat, NEW k \in Nat
    PROVE  Threshold(policy, n, k) \in Nat
<1> DEFINE step == AtRound(Steps, k)
           ratio == AtRound(LegacyRatios, k)
<1>1. step.ratio \in {25, 35, 45, 55} /\ step.cap \in Nat /\ ratio \in {25, 35, 45, 55, 65}
    BY Rounds
<1> HIDE DEF step, ratio
<1>2. Share(n, step.ratio) \in Nat /\ Share(n, ratio) \in Nat
    BY <1>1 DEF Share
<1>3. refill_threshold(n, k) \in Nat
    BY <1>1, <1>2 DEF refill_threshold, Least, Most, step
<1>4. legacy_refill_threshold(n, k) \in Nat
    BY <1>2 DEF legacy_refill_threshold, Most, ratio
<1> QED
    BY <1>3, <1>4 DEF Threshold

-----------------------------------------------------------------------------
(* Votes that stay opened, and ended, keep a request sound. *)
LEMMA JobsStay ==
    ASSUME Base, NEW q \in Worker, work'[q] = work[q],
           \A r \in Request : /\ row[r].status \in Ended => row'[r].status \in Ended
                              /\ row[r].status # "unused" => row'[r].status # "unused"
    PROVE  JobSound(work[q])'
<1> DEFINE j == work[q]
<1>1. JobSound(j) /\ j \in Change \cup Prepare \cup {Idle}
    BY DEF Base, TypeOK
<1>2. /\ j \in Change => j.req \in Request
      /\ j.op \in {"create", "again"} => j.req \in Request \cup {NoRequest} /\ j.lost \subseteq Request
    BY <1>1 DEF Change, Prepare, Idle
<1>3. j \in Change => row'[j.req].status # "unused" /\ (j.op # "succeed" => j.benefited = {})
    BY <1>1, <1>2 DEF JobSound
<1>4. j.op = "create" =>
        /\ j.fresh.status = "voting" /\ j.fresh.key /\ j.tries < MaxTries
        /\ j.req # NoRequest => row'[j.req].status # "unused"
        /\ \A r \in j.lost : r = j.req \/ row'[r].status \in Ended
    BY <1>1, <1>2 DEF JobSound
<1>5. j.op = "again" => j.req = NoRequest /\ \A r \in j.lost : row'[r].status # "unused"
    BY <1>1, <1>2 DEF JobSound
<1> QED
    BY <1>3, <1>4, <1>5 DEF JobSound

(* A request that decided on an open vote has a sound change under way. *)
LEMMA StartedJobs ==
    ASSUME TypeOK, NEW p \in Worker, NEW op \in {"expire", "bind", "fail", "succeed"},
           NEW r \in Request, NEW m \in Message \cup {NoMessage}, NEW benefited \in SUBSET User,
           Start(p, op, r, m, benefited), Voting(r), op # "succeed" => benefited = {}
    PROVE  /\ work' = [work EXCEPT ![p] = work'[p]]
           /\ work'[p] \in Change /\ work'[p].req = r
           /\ JobSound(work'[p])
<1> DEFINE j == [op |-> op, req |-> r, message |-> m, benefited |-> benefited]
<1>1. work' = [work EXCEPT ![p] = j] /\ work'[p] = j
    BY DEF Start, TypeOK
<1>2. j \in Change /\ j.req = r /\ JobSound(j)
    BY DEF Change, JobSound, Voting
<1> QED
    BY <1>1, <1>2

(* A request that takes up a vote keeps Base, *)
LEMMA ReadBase ==
    ASSUME Base, NEW p \in Worker, NEW j \in Change \cup Prepare \cup {Idle}, JobSound(j),
           work' = [work EXCEPT ![p] = j], UNCHANGED <<row, active, refills, now>>
    PROVE  Base'
<1>1. TypeOK'
    BY DEF Base, TypeOK
<1>2. RowsSound'
    BY DEF Base, RowsSound, Voting
<1>3. ASSUME NEW q \in Worker PROVE JobSound(work[q])'
    <2>1. work'[q] = j \/ work'[q] = work[q]
        BY DEF Base, TypeOK
    <2> QED
        BY <2>1 DEF Base, JobSound, Voting
<1> QED
    BY <1>1, <1>2, <1>3 DEF Base

(* so does one try of prepare, *)
LEMMA PrepareReadsBase ==
    ASSUME Base, NEW p \in Worker, NEW policy \in Policy, NEW eligible \in SUBSET User,
           NEW at \in Nat, NEW tries \in 0..(MaxTries - 1), NEW lost \in SUBSET Request,
           \A r \in lost : row[r].status # "unused",
           PrepareReads(p, policy, eligible, at, tries, lost), UNCHANGED <<row, active, refills, now>>
    PROVE  Base'
<1> DEFINE k == Successes
           members == active \cap eligible
           fresh == [Unused EXCEPT !.status = "voting", !.key = TRUE, !.before = k,
                     !.required = Threshold(policy, Cardinality(members), k),
                     !.expires = Expiry(at)]
           create(r) == [op |-> "create", req |-> r, fresh |-> fresh, policy |-> policy,
                      eligible |-> eligible, at |-> at, tries |-> tries, lost |-> lost]
<1>1. k \in Nat /\ Cardinality(members) \in Nat
    <2>1. IsFiniteSet({r \in Request : row[r].status = "succeeded"})
        BY ConstantAssumption, FS_Subset
    <2>2. IsFiniteSet(members)
        BY ConstantAssumption, FS_Subset DEF Base, TypeOK
    <2> QED
        BY <2>1, <2>2, FS_CardinalityType DEF Successes
<1>2. fresh \in Row /\ fresh.status = "voting" /\ fresh.key
    <2>1. Threshold(policy, Cardinality(members), k) \in Nat
        BY <1>1, ThresholdNat
    <2>2. Expiry(at) \in Nat
        BY ConstantAssumption DEF Expiry
    <2> HIDE DEF k, members
    <2> QED
        BY <1>1, <2>1, <2>2 DEF Unused, Row
<1> HIDE DEF fresh, k, members
<1>3. ASSUME NEW r \in Request \cup {NoRequest}, r # NoRequest => Voting(r),
             r = NoRequest => \A s \in Request : ~Voting(s),
             work' = [work EXCEPT ![p] = create(r)]
      PROVE  Base'
    <2>1. create(r) \in Prepare
        BY <1>2, ConstantAssumption DEF Prepare
    <2>2. \A s \in lost : s = r \/ row[s].status \in Ended
        BY <1>3 DEF Base, TypeOK, RowsSound, Voting, Row
    <2>3. JobSound(create(r))
        BY <1>2, <1>3, <2>2, ConstantAssumption DEF JobSound, Change, Voting
    <2>4. create(r).req = r
        OBVIOUS
    <2> HIDE DEF create
    <2> QED
        BY <1>3, <2>1, <2>3, <2>4, ReadBase
<1>4. ASSUME work' = [work EXCEPT ![p] = Idle] PROVE Base'
    <2>1. JobSound(Idle)
        BY DEF JobSound, Idle, Change
    <2> QED
        BY <1>4, <2>1, ReadBase
<1>5. ASSUME NEW r \in Request, Voting(r), Expire(p, r) PROVE Base'
    <2>1. /\ work' = [work EXCEPT ![p] = work'[p]] /\ work'[p] \in Change /\ work'[p].req = r
          /\ JobSound(work'[p])
        BY <1>5, StartedJobs DEF Expire, Base
    <2> QED
        BY <1>5, <2>1, ReadBase
<1>6. CASE \E r \in Request :
              /\ row[r].key /\ Voting(r)
              /\ \/ work' = [work EXCEPT ![p] = Idle]
                 \/ work' = [work EXCEPT ![p] = create(r)]
                 \/ Expire(p, r)
    BY <1>3, <1>4, <1>5, <1>6, ConstantAssumption
<1>7. CASE /\ \A r \in Request : row[r].key => ~Voting(r)
           /\ work' = [work EXCEPT ![p] = create(NoRequest)] \/ work' = [work EXCEPT ![p] = Idle]
    BY <1>3, <1>4, <1>7 DEF Base, RowsSound
<1> QED
    BY <1>6, <1>7 DEF PrepareReads, fresh, members, k

(* a request that decided on an open vote, *)
LEMMA StartBase ==
    ASSUME Base, NEW p \in Worker, NEW op \in {"expire", "bind", "fail", "succeed"},
           NEW r \in Request, NEW m \in Message \cup {NoMessage}, NEW benefited \in SUBSET User,
           Start(p, op, r, m, benefited), Voting(r), op # "succeed" => benefited = {},
           UNCHANGED <<row, active, refills, now>>
    PROVE  Base'
<1>1. /\ work' = [work EXCEPT ![p] = work'[p]] /\ work'[p] \in Change /\ work'[p].req = r
      /\ JobSound(work'[p])
    BY StartedJobs DEF Base
<1> QED
    BY <1>1, ReadBase

(* complete, *)
LEMMA CompleteReadBase ==
    ASSUME Base, NEW p \in Worker, NEW r \in Request, NEW m \in Message,
           NEW voters, NEW excluded, NEW managers, NEW weighted, NEW at \in Nat,
           CompleteRead(p, r, m, voters, excluded, managers, weighted, at)
    PROVE  Base'
<1>1. CASE Expire(p, r)
    BY <1>1, StartBase DEF Expire, CompleteRead, Completable
<1>2. CASE Start(p, "succeed", r, NoMessage, active \ excluded)
    <2>1. active \ excluded \in SUBSET User
        BY DEF Base, TypeOK
    <2> QED
        BY <1>2, <2>1, StartBase DEF CompleteRead, Completable
<1> QED
    BY <1>1, <1>2 DEF CompleteRead

(* the lookup, bind-message and fail, *)
LEMMA OtherReadsBase ==
    ASSUME Base, NEW p \in Worker, NEW r \in Request, NEW m \in Message \cup {NoMessage},
           NEW at \in Nat,
           Lookup(p, at) \/ (m \in Message /\ BindRead(p, r, m)) \/ FailRead(p, r, m)
    PROVE  Base'
<1>1. CASE Lookup(p, at)
    BY <1>1, StartBase DEF Lookup, Expire
<1>2. CASE m \in Message /\ BindRead(p, r, m)
    <2>1. CASE Expire(p, r)
        BY <1>2, <2>1, StartBase DEF BindRead, Expire
    <2>2. CASE Start(p, "bind", r, m, {})
        BY <1>2, <2>2, StartBase DEF BindRead
    <2> QED
        BY <1>2, <2>1, <2>2 DEF BindRead
<1>3. CASE FailRead(p, r, m)
    BY <1>3, StartBase DEF FailRead
<1> QED
    BY <1>1, <1>2, <1>3

(* the commit of a change, perhaps to a vote that others ended meanwhile, *)
LEMMA CommitBase ==
    ASSUME Base, NEW p \in Worker, Commit(p)
    PROVE  Base'
<1> DEFINE j == work[p]
<1>1. /\ j \in Change /\ row[j.req].status # "unused" /\ j.req \in Request /\ row[j.req] \in Row
      /\ row' = [row EXCEPT ![j.req] = Changed(row[j.req], j)]
      /\ work' = [work EXCEPT ![p] = Idle] /\ active' = active /\ now' = now
    BY DEF Commit, Base, TypeOK, JobSound, Prepare, Idle, Change
<1> HIDE DEF j
<1>2. LET x == Changed(row[j.req], j)
      IN  /\ x \in Row /\ x.status # "unused"
          /\ x.key => row[j.req].key
          /\ x.status = "voting" <=> x.key
          /\ row[j.req].status \in Ended => x.status \in Ended
    BY <1>1 DEF Changed, Closed, Change, Row, Ended, Voting, Base, RowsSound
<1>3. \A r \in Request : row'[r] = (IF r = j.req THEN Changed(row[j.req], j) ELSE row[r])
    BY <1>1 DEF Base, TypeOK
<1>4. TypeOK'
    <2>1. refills' \in [User -> Nat]
        BY DEF Commit, Base, TypeOK
    <2> QED
        BY <1>1, <1>2, <2>1 DEF Base, TypeOK
<1>5. RowsSound'
    BY <1>1, <1>2, <1>3 DEF Base, RowsSound, Voting
<1>6. \A r \in Request : /\ row[r].status \in Ended => row'[r].status \in Ended
                         /\ row[r].status # "unused" => row'[r].status # "unused"
    BY <1>2, <1>3
<1>7. ASSUME NEW q \in Worker PROVE JobSound(work[q])'
    <2>1. CASE q = p
        BY <1>1, <2>1 DEF JobSound, Idle, Change, Base, TypeOK
    <2>2. CASE q # p
        <3>1. work'[q] = work[q]
            BY <1>1, <2>2 DEF Base, TypeOK
        <3> QED
            BY <1>6, <3>1, JobsStay
    <2> QED
        BY <2>1, <2>2
<1> QED
    BY <1>4, <1>5, <1>7 DEF Base

(* the commit of prepare, whether it opens the vote or loses to another, *)
LEMMA PrepareCommitBase ==
    ASSUME Base, NEW p \in Worker, PrepareCommit(p)
    PROVE  Base'
<1> DEFINE j == work[p]
           freed == IF j.req = NoRequest THEN row
                    ELSE [row EXCEPT ![j.req] = Closed(@, "expired")]
           rivals == {r \in Request : freed[r].key}
           again == [j EXCEPT !.op = "again", !.req = NoRequest,
                        !.fresh = Unused, !.tries = @ + 1, !.lost = @ \cup rivals]
<1>1. /\ j \in Prepare /\ j.op = "create" /\ JobSound(j) /\ j # Idle
      /\ UNCHANGED <<active, refills, now>>
    BY DEF PrepareCommit, Base, TypeOK, Change, Idle
<1>2. /\ j.req \in Request \cup {NoRequest} /\ j.fresh \in Row /\ j.fresh.status = "voting" /\ j.fresh.key
      /\ j.tries \in 0..MaxTries /\ j.tries < MaxTries /\ j.lost \subseteq Request
    BY <1>1 DEF Prepare, JobSound
<1>3. ASSUME NEW r \in Request
      PROVE  /\ freed[r] \in Row
             /\ r # j.req => freed[r] = row[r]
             /\ r = j.req => freed[r].status = "expired" /\ ~freed[r].key /\ row[r].status # "unused"
    <2>1. CASE r = j.req
        <3>1. r # NoRequest /\ freed[r] = Closed(row[r], "expired") /\ row[r] \in Row
            BY <2>1, ConstantAssumption DEF Base, TypeOK
        <3>2. Closed(row[r], "expired") \in Row
            BY <3>1 DEF Closed, Row, Ended
        <3>3. Closed(row[r], "expired").status = "expired" /\ ~Closed(row[r], "expired").key
            BY <3>1 DEF Closed, Row
        <3>4. row[r].status # "unused"
            BY <1>1, <2>1, <3>1 DEF JobSound
        <3> QED
            BY <2>1, <3>1, <3>2, <3>3, <3>4
    <2>2. CASE r # j.req
        BY <2>2 DEF Base, TypeOK
    <2> QED
        BY <2>1, <2>2
<1>4. CASE /\ rivals = {}
           /\ \E r \in Request : row[r] = Unused /\ row' = [freed EXCEPT ![r] = j.fresh]
           /\ work' = [work EXCEPT ![p] = Idle]
    <2>1. PICK r \in Request : row[r] = Unused /\ row' = [freed EXCEPT ![r] = j.fresh]
        BY <1>4
    <2>2. r # j.req
        BY <1>3, <2>1 DEF Voting, Unused
    <2>3. DOMAIN freed = Request
        BY DEF Base, TypeOK
    <2>4. \A s \in Request : ~freed[s].key
        BY <1>4
    <2> HIDE DEF freed, rivals, again
    <2>5. \A s \in Request : row'[s] = (IF s = r THEN j.fresh ELSE freed[s])
        BY <2>1, <2>3
    <2>6. TypeOK'
        <3>1. row' \in [Request -> Row]
            BY <1>2, <1>3, <2>1, <2>3, <2>5
        <3> QED
            BY <1>1, <1>4, <3>1 DEF Base, TypeOK
    <2>7. \A s \in Request : s # r => ~row'[s].key /\ row'[s].status # "voting"
        <3> SUFFICES ASSUME NEW s \in Request, s # r PROVE ~freed[s].key /\ freed[s].status # "voting"
            BY <2>5
        <3>1. CASE s = j.req
            BY <1>3, <3>1
        <3>2. CASE s # j.req
            BY <1>3, <2>4, <3>2 DEF Base, RowsSound, Voting
        <3> QED
            BY <3>1, <3>2
    <2>8. RowsSound'
        BY <1>2, <2>5, <2>7 DEF RowsSound, Voting
    <2>9. \A s \in Request :
             /\ row[s].status \in Ended => row'[s].status \in Ended
             /\ row[s].status # "unused" => row'[s].status # "unused"
        <3> SUFFICES ASSUME NEW s \in Request
                     PROVE  /\ row[s].status \in Ended => row'[s].status \in Ended
                            /\ row[s].status # "unused" => row'[s].status # "unused"
            OBVIOUS
        <3>1. row[s].status # "unused" => s # r
            BY <2>1 DEF Unused
        <3>2. row[s].status \in Ended => row[s].status # "unused"
            BY DEF Ended
        <3>3. s # r => row'[s] = row[s] \/ row'[s].status = "expired"
            BY <1>3, <2>5
        <3> QED
            BY <3>1, <3>2, <3>3 DEF Ended
    <2>10. ASSUME NEW q \in Worker PROVE JobSound(work[q])'
        <3>1. CASE q = p
            BY <1>4, <3>1 DEF JobSound, Idle, Change, Base, TypeOK
        <3>2. CASE q # p
            <4>1. work'[q] = work[q]
                BY <1>4, <3>2 DEF Base, TypeOK
            <4> QED
                BY <2>9, <4>1, JobsStay
        <3> QED
            BY <3>1, <3>2
    <2> QED
        BY <2>6, <2>8, <2>10 DEF Base
<1>5. CASE rivals # {} /\ work' = [work EXCEPT ![p] = again] /\ UNCHANGED row
    <2>1. rivals \subseteq Request
        OBVIOUS
    <2>2. again \in Prepare /\ again.op = "again" /\ again.req = NoRequest /\ again.lost = j.lost \cup rivals
        <3> HIDE DEF j, rivals
        <3> QED
            <4>1. Unused \in Row
                BY ConstantAssumption DEF Unused, Row
            <4>2. /\ j.tries + 1 \in 0..MaxTries /\ j.lost \cup rivals \in SUBSET Request
                BY <1>1, <1>2, <2>1, ConstantAssumption
            <4> QED
                BY <1>1, <4>1, <4>2 DEF Prepare
    <2>3. \A r \in rivals : row[r].status # "unused"
        BY <1>3 DEF Base, RowsSound, Voting
    <2>4. \A r \in j.lost : row[r].status # "unused"
        BY <1>1, <1>2, ConstantAssumption DEF JobSound, Voting, Ended
    <2> HIDE DEF again, rivals
    <2>5. JobSound(again)
        BY <2>2, <2>3, <2>4 DEF JobSound, Change
    <2>6. TypeOK'
        BY <1>1, <1>5, <2>2 DEF Base, TypeOK
    <2>7. RowsSound'
        BY <1>5 DEF Base, RowsSound, Voting
    <2>8. ASSUME NEW q \in Worker PROVE JobSound(work[q])'
        <3>1. work'[q] = again \/ work'[q] = work[q]
            BY <1>5 DEF Base, TypeOK
        <3> QED
            BY <1>5, <2>5, <3>1 DEF Base, JobSound, Voting
    <2> QED
        BY <2>6, <2>7, <2>8 DEF Base
<1> QED
    BY <1>4, <1>5 DEF PrepareCommit

(* a request that ends without a change, *)
LEMMA IdleBase ==
    ASSUME Base, NEW p \in Worker, work' = [work EXCEPT ![p] = Idle], UNCHANGED <<row, active, refills, now>>
    PROVE  Base'
<1>1. TypeOK' /\ RowsSound'
    BY DEF Base, TypeOK, RowsSound, Voting
<1>2. ASSUME NEW q \in Worker PROVE JobSound(work[q])'
    <2>1. work'[q] = Idle \/ work'[q] = work[q]
        BY DEF Base, TypeOK
    <2>2. JobSound(Idle)'
        BY DEF JobSound, Idle, Change
    <2> QED
        BY <2>1, <2>2 DEF Base, JobSound, Voting
<1> QED
    BY <1>1, <1>2 DEF Base

(* the first and the later tries of prepare, *)
LEMMA PrepareReadBase ==
    ASSUME Base, NEW p \in Worker, NEW policy \in Policy,
           NEW eligible \in SUBSET User, NEW at \in Nat,
           PrepareRead(p, policy, eligible, at) \/ PrepareAgain(p)
    PROVE  Base'
<1>1. CASE PrepareRead(p, policy, eligible, at)
    <2>1. /\ work[p] = Idle /\ UNCHANGED <<row, active, refills, now>>
          /\ PrepareReads(p, policy, eligible, at, 0, {})
        BY <1>1 DEF PrepareRead
    <2>2. 0 \in 0..(MaxTries - 1) /\ {} \in SUBSET Request /\ \A r \in {} : row[r].status # "unused"
        BY ConstantAssumption
    <2> QED
        BY <2>1, <2>2, PrepareReadsBase
<1>2. CASE PrepareAgain(p)
    <2> DEFINE j == work[p]
    <2>1. /\ j.op = "again" /\ UNCHANGED <<row, active, refills, now>>
          /\ j \in Prepare /\ JobSound(j)
        BY <1>2 DEF PrepareAgain, Base, TypeOK, Change, Idle
    <2>2. /\ j.policy \in Policy /\ j.eligible \in SUBSET User /\ j.at \in Nat
          /\ j.tries \in 0..MaxTries /\ j.lost \in SUBSET Request
          /\ \A r \in j.lost : row[r].status # "unused"
        BY <2>1 DEF Prepare, JobSound
    <2>3. CASE j.tries = MaxTries
        BY <1>2, <2>1, <2>3, IdleBase DEF PrepareAgain
    <2>4. CASE j.tries # MaxTries
        <3>1. PrepareReads(p, j.policy, j.eligible, j.at, j.tries, j.lost)
            BY <1>2, <2>4 DEF PrepareAgain
        <3>2. j.tries \in 0..(MaxTries - 1)
            BY <2>2, <2>4, ConstantAssumption
        <3> QED
            BY <2>1, <2>2, <3>1, <3>2, PrepareReadsBase
    <2> QED
        BY <2>3, <2>4
<1> QED
    BY <1>1, <1>2

(* what does not concern votes, *)
LEMMA OthersBase ==
    ASSUME Base, (\E u \in User : Mark(u)) \/ Tick \/ UNCHANGED vars
    PROVE  Base'
<1>1. /\ UNCHANGED <<row, refills, work>> /\ active' \subseteq User
      /\ now' \in 0..LastTime
    BY ConstantAssumption DEF Mark, Tick, vars, Base, TypeOK
<1> QED
    BY <1>1 DEF Base, TypeOK, RowsSound, JobSound, Voting

(* and thus every step. *)
LEMMA NextBase == Base /\ [Next]_vars => Base'
<1> SUFFICES ASSUME Base, [Next]_vars PROVE Base'
    OBVIOUS
<1>0. Clocks \subseteq Nat /\ now \in Nat /\ \A e \in {User, User \ Bot} : e \in SUBSET User
    BY ConstantAssumption DEF Clocks, Base, TypeOK
<1>1. ASSUME NEW p \in Worker, NEW policy \in Policy, NEW eligible \in {User, User \ Bot}, NEW at \in Clocks,
             PrepareRead(p, policy, eligible, at)
      PROVE  Base'
    BY <1>0, <1>1, PrepareReadBase
<1>2. ASSUME NEW p \in Worker, NEW at \in Clocks, Lookup(p, at) PROVE Base'
    BY <1>0, <1>2, StartBase DEF Lookup, Expire
<1>3. ASSUME NEW p \in Worker, NEW r \in Request, NEW m \in Message \cup {NoMessage},
             (m \in Message /\ BindRead(p, r, m)) \/ FailRead(p, r, m)
      PROVE  Base'
    BY <1>0, <1>3, OtherReadsBase
<1>4. ASSUME NEW p \in Worker, NEW r \in Request, NEW m \in Message, NEW at \in Clocks,
             NEW weighted \in BOOLEAN, NEW voters \in SUBSET User, NEW excluded \in SUBSET Bot, NEW managers \in SUBSET Manager,
             CompleteRead(p, r, m, voters, excluded, managers, weighted, at)
      PROVE  Base'
    BY <1>0, <1>4, CompleteReadBase
<1>5. ASSUME NEW p \in Worker, Finish(p) PROVE Base'
    <2>1. CASE PrepareAgain(p)
        <3>1. "capped" \in Policy /\ {} \in SUBSET User /\ 0 \in Nat
            BY DEF Policy
        <3> QED
            BY <2>1, <3>1, PrepareReadBase
    <2> QED
        BY <1>5, <2>1, PrepareCommitBase, CommitBase DEF Finish
<1>6. ASSUME NEW p \in Worker, Abort(p) PROVE Base'
    BY <1>6, IdleBase DEF Abort
<1>7. CASE (\E u \in User : Mark(u)) \/ Tick \/ UNCHANGED vars
    BY <1>7, OthersBase
<1> QED
    BY <1>1, <1>2, <1>3, <1>4, <1>5, <1>6, <1>7 DEF Next

(* With and without row locks. *)
LEMMA BaseHolds == Spec => []Base
<1>1. Init => Base
    BY InitInv DEF Inv
<1>2. Base /\ [Next]_vars => Base'
    BY NextBase
<1> QED
    BY <1>1, <1>2, PTL DEF Spec

(* There is at most one open vote, exactly the open vote holds active_key,   *)
(* and the state has its types; whether or not rows can be locked.           *)
THEOREM OnlyOneVote == Spec => []OneOpenVote
<1>1. Base => OneOpenVote
    BY DEF Base, RowsSound, OneOpenVote
<1> QED
    BY <1>1, BaseHolds, PTL

-----------------------------------------------------------------------------
(* Tries of prepare *)

(* Each failed try has a vote of its own that it lost to. *)
LostCounted(j) == j.op \in {"create", "again"} => j.tries = Cardinality(j.lost)

(* A new try starts with the count of the last, *)
LEMMA ReadsCount ==
    ASSUME Base, NEW p \in Worker, NEW policy, NEW eligible, NEW at, NEW tries, NEW lost,
           tries = Cardinality(lost), PrepareReads(p, policy, eligible, at, tries, lost)
    PROVE  work' = [work EXCEPT ![p] = work'[p]] /\ LostCounted(work'[p])
<1>1. ASSUME NEW j, work' = [work EXCEPT ![p] = j], LostCounted(j)
      PROVE  work' = [work EXCEPT ![p] = work'[p]] /\ LostCounted(work'[p])
    BY <1>1 DEF Base, TypeOK
<1>2. CASE work' = [work EXCEPT ![p] = Idle]
    BY <1>1, <1>2 DEF LostCounted, Idle
<1>3. ASSUME NEW r, NEW fresh,
             work' = [work EXCEPT ![p] = [op |-> "create", req |-> r, fresh |-> fresh, policy |-> policy,
                      eligible |-> eligible, at |-> at, tries |-> tries, lost |-> lost]]
      PROVE  work' = [work EXCEPT ![p] = work'[p]] /\ LostCounted(work'[p])
    BY <1>1, <1>3 DEF LostCounted
<1>4. ASSUME NEW r, Expire(p, r)
      PROVE  work' = [work EXCEPT ![p] = work'[p]] /\ LostCounted(work'[p])
    BY <1>1, <1>4 DEF LostCounted, Expire, Start
<1> QED
    BY <1>2, <1>3, <1>4 DEF PrepareReads

(* and losing to a vote adds one that was not there. *)
LEMMA CommitCounts ==
    ASSUME Base, NEW p \in Worker, PrepareCommit(p), LostCounted(work[p])
    PROVE  work' = [work EXCEPT ![p] = work'[p]] /\ LostCounted(work'[p])
<1> DEFINE j == work[p]
           freed == IF j.req = NoRequest THEN row
                    ELSE [row EXCEPT ![j.req] = Closed(@, "expired")]
           rivals == {r \in Request : freed[r].key}
           again == [j EXCEPT !.op = "again", !.req = NoRequest,
                        !.fresh = Unused, !.tries = @ + 1, !.lost = @ \cup rivals]
<1>1. /\ j \in Prepare /\ j.op = "create" /\ JobSound(j) /\ j.req \in Request \cup {NoRequest}
      /\ j.lost \subseteq Request /\ j.tries = Cardinality(j.lost)
    BY DEF PrepareCommit, Base, TypeOK, Change, Prepare, Idle, LostCounted
<1>0. ASSUME NEW k, work' = [work EXCEPT ![p] = k], LostCounted(k)
      PROVE  work' = [work EXCEPT ![p] = work'[p]] /\ LostCounted(work'[p])
    BY <1>0 DEF Base, TypeOK
<1>2. CASE work' = [work EXCEPT ![p] = Idle]
    BY <1>0, <1>2 DEF LostCounted, Idle
<1>3. CASE rivals # {} /\ work' = [work EXCEPT ![p] = again]
    <2>1. PICK r \in Request : freed[r].key
        BY <1>3
    <2>2. ASSUME NEW s \in Request, freed[s].key PROVE s # j.req /\ Voting(s)
        <3>1. CASE s = j.req
            <4>1. freed[s] = Closed(row[s], "expired") /\ row[s] \in Row
                BY <3>1, ConstantAssumption DEF Base, TypeOK
            <4>2. ~Closed(row[s], "expired").key
                BY <4>1 DEF Closed, Row
            <4> QED
                BY <2>2, <4>1, <4>2
        <3>2. CASE s # j.req
            BY <2>2, <3>2 DEF Base, TypeOK, RowsSound
        <3> QED
            BY <3>1, <3>2
    <2>3. rivals = {r}
        BY <2>1, <2>2 DEF Base, RowsSound
    <2>4. r \notin j.lost
        BY <1>1, <2>1, <2>2 DEF JobSound, Voting, Ended
    <2>5. IsFiniteSet(j.lost)
        BY <1>1, ConstantAssumption, FS_Subset
    <2>6. Cardinality(j.lost \cup {r}) = j.tries + 1
        BY <1>1, <2>4, <2>5, FS_AddElement
    <2>7. again.lost = j.lost \cup {r} /\ again.tries = j.tries + 1
        BY <1>1, <2>3 DEF Prepare
    <2> HIDE DEF again
    <2> QED
        BY <1>0, <1>3, <2>6, <2>7 DEF LostCounted
<1> QED
    BY <1>2, <1>3 DEF PrepareCommit

(* prepare gives up after MaxTries only if as many other votes were opened   *)
(* meanwhile: it never loses to the same one twice, because an ended vote    *)
(* never holds active_key again, even if a late request writes its row. (The *)
(* rival of the last try may still be open.)                                 *)
THEOREM EachTryHasItsRival == Spec => []BeatenByDifferentVotes
<1> DEFINE Counted == \A p \in Worker : LostCounted(work[p])
<1>1. Init => Counted
    BY DEF Init, LostCounted, Idle
<1>2. Base /\ Counted /\ [Next]_vars => Counted'
    <2> SUFFICES ASSUME Base, Counted, [Next]_vars PROVE Counted'
        OBVIOUS
    <2>0. ASSUME \E p \in Worker : \E j : work' = [work EXCEPT ![p] = j] /\ LostCounted(j) PROVE Counted'
        BY <2>0 DEF Base, TypeOK
    <2>1. ASSUME NEW p \in Worker, NEW policy, NEW eligible, NEW at, PrepareRead(p, policy, eligible, at)
          PROVE  Counted'
        <3>1. Cardinality({}) = 0
            BY FS_EmptySet
        <3> QED
            BY <2>0, <2>1, <3>1, ReadsCount DEF PrepareRead
    <2>2. ASSUME NEW p \in Worker, PrepareAgain(p) PROVE Counted'
        <3> DEFINE j == work[p]
        <3>1. j.op = "again" /\ j.tries = Cardinality(j.lost)
            BY <2>2 DEF PrepareAgain, LostCounted
        <3>2. CASE work' = [work EXCEPT ![p] = Idle]
            BY <2>0, <3>2 DEF LostCounted, Idle
        <3>3. CASE PrepareReads(p, j.policy, j.eligible, j.at, j.tries, j.lost)
            BY <2>0, <3>1, <3>3, ReadsCount
        <3> QED
            BY <2>2, <3>2, <3>3 DEF PrepareAgain
    <2>3. ASSUME NEW p \in Worker, PrepareCommit(p) PROVE Counted'
        BY <2>0, <2>3, CommitCounts
    <2>4. ASSUME NEW p \in Worker, work' = [work EXCEPT ![p] = Idle] PROVE Counted'
        BY <2>0, <2>4 DEF LostCounted, Idle
    <2>5. ASSUME NEW p \in Worker, NEW op \in {"expire", "bind", "fail", "succeed"}, NEW r, NEW m, NEW benefited,
                 Start(p, op, r, m, benefited)
          PROVE  Counted'
        BY <2>0, <2>5 DEF Start, LostCounted
    <2>6. CASE UNCHANGED work
        BY <2>6
    <2> HIDE DEF Counted
    <2> QED
        BY <2>1, <2>2, <2>3, <2>4, <2>5, <2>6 DEF Next, Finish, Commit, Abort, Mark, Tick, vars,
           Lookup, BindRead, FailRead, CompleteRead, Expire
<1>3. Base /\ Counted => BeatenByDifferentVotes
    BY DEF Base, TypeOK, BeatenByDifferentVotes, LostCounted, Prepare
<1> QED
    BY <1>1, <1>2, <1>3, BaseHolds, PTL DEF Spec

-----------------------------------------------------------------------------
(* Locks *)

(* What a request takes up when it reads is an open vote, and unlocked. *)
TakesUp(p) ==
    \E j : /\ work' = [work EXCEPT ![p] = j]
           /\ j = Idle \/ j.req = NoRequest \/ (j.req \in Request /\ Voting(j.req) /\ MayLock(j.req))

(* So does a request that changes a vote, *)
LEMMA StartTakesUp ==
    ASSUME NEW p \in Worker, NEW op, NEW r \in Request, NEW m, NEW benefited,
           Start(p, op, r, m, benefited), Voting(r), MayLock(r)
    PROVE  TakesUp(p)
<1> DEFINE j == [op |-> op, req |-> r, message |-> m, benefited |-> benefited]
<1>1. j.req = r
    OBVIOUS
<1> HIDE DEF j
<1>2. work' = [work EXCEPT ![p] = j]
    BY DEF Start, j
<1> QED
    BY <1>1, <1>2 DEF TakesUp

(* and one try of prepare. *)
LEMMA PrepareTakesUp ==
    ASSUME NEW p \in Worker, NEW policy, NEW eligible, NEW at, NEW tries, NEW lost,
           PrepareReads(p, policy, eligible, at, tries, lost)
    PROVE  TakesUp(p)
<1>1. CASE work' = [work EXCEPT ![p] = Idle]
    BY <1>1 DEF TakesUp
<1>2. ASSUME NEW r, r = NoRequest \/ (r \in Request /\ Voting(r) /\ MayLock(r)), NEW fresh,
             work' = [work EXCEPT ![p] = [op |-> "create", req |-> r, fresh |-> fresh, policy |-> policy,
                      eligible |-> eligible, at |-> at, tries |-> tries, lost |-> lost]]
      PROVE  TakesUp(p)
    <2> DEFINE j == [op |-> "create", req |-> r, fresh |-> fresh, policy |-> policy,
                     eligible |-> eligible, at |-> at, tries |-> tries, lost |-> lost]
    <2>1. j.req = r
        OBVIOUS
    <2> HIDE DEF j
    <2>2. work' = [work EXCEPT ![p] = j]
        BY <1>2 DEF j
    <2> QED
        BY <1>2, <2>1, <2>2 DEF TakesUp
<1>3. ASSUME NEW r \in Request, Voting(r), MayLock(r), Expire(p, r) PROVE TakesUp(p)
    BY <1>3, StartTakesUp DEF Expire
<1> QED
    BY <1>1, <1>2, <1>3 DEF PrepareReads

(* A request that takes up an unlocked vote has it alone, *)
LEMMA TakenHeld ==
    ASSUME RowLocks, TypeOK, Held, NEW p \in Worker, TakesUp(p), UNCHANGED row
    PROVE  Held'
<1>1. PICK j : /\ work' = [work EXCEPT ![p] = j]
               /\ j = Idle \/ j.req = NoRequest \/ (j.req \in Request /\ Voting(j.req) /\ MayLock(j.req))
    BY DEF TakesUp
<1>2. \A q \in Worker : work'[q] = IF q = p THEN j ELSE work[q]
    BY <1>1 DEF TypeOK
<1>3. ASSUME NEW q \in Worker, Works(q)' PROVE Voting(work[q].req)'
    BY <1>1, <1>2, <1>3 DEF Held, Works, Voting
<1>4. ASSUME NEW q \in Worker, NEW s \in Worker, q # s, Works(q)', Works(s)'
      PROVE  (work[q].req # work[s].req)'
    BY <1>1, <1>2, <1>4 DEF Held, Works, MayLock, Holds
<1> QED
    BY <1>3, <1>4 DEF Held

(* and so have all when a request ends, which at most changes the vote it    *)
(* held or one that was not open.                                            *)
LEMMA EndedHeld ==
    ASSUME Base, Held, NEW p \in Worker, NEW j, work' = [work EXCEPT ![p] = j],
           j = Idle \/ j.req = NoRequest,
           \A r \in Request : (Works(p) /\ r = work[p].req) \/ ~Voting(r) \/ row'[r].status = row[r].status
    PROVE  Held'
<1>1. \A q \in Worker : work'[q] = IF q = p THEN j ELSE work[q]
    BY DEF Base, TypeOK
<1>2. ASSUME NEW q \in Worker, Works(q)' PROVE Voting(work[q].req)'
    <2>1. q # p /\ Works(q) /\ Voting(work[q].req)
        BY <1>1, <1>2 DEF Works, Held
    <2>2. work[q].req \in Request
        BY <2>1 DEF Works, Base, TypeOK, Change, Prepare
    <2>3. ~(Works(p) /\ work[q].req = work[p].req)
        BY <2>1 DEF Held
    <2> QED
        BY <1>1, <2>1, <2>2, <2>3 DEF Voting
<1>3. ASSUME NEW q \in Worker, NEW s \in Worker, q # s, Works(q)', Works(s)'
      PROVE  (work[q].req # work[s].req)'
    BY <1>1, <1>3 DEF Held, Works
<1> QED
    BY <1>2, <1>3 DEF Held

(* A commit is such an end, *)
LEMMA CommitHeld ==
    ASSUME Base, Held, NEW p \in Worker, Commit(p)
    PROVE  Held'
<1>1. Works(p) /\ work' = [work EXCEPT ![p] = Idle]
    BY ConstantAssumption DEF Commit, Works, Base, TypeOK, Change, Prepare, Idle
<1>2. \A r \in Request : r = work[p].req \/ row'[r] = row[r]
    BY DEF Commit, Base, TypeOK
<1> QED
    BY <1>1, <1>2, EndedHeld

(* and the commit of prepare, *)
LEMMA PrepareCommitHeld ==
    ASSUME Base, Held, NEW p \in Worker, PrepareCommit(p)
    PROVE  Held'
<1> DEFINE j == work[p]
           freed == IF j.req = NoRequest THEN row
                    ELSE [row EXCEPT ![j.req] = Closed(@, "expired")]
           again(lost) == [j EXCEPT !.op = "again", !.req = NoRequest,
                             !.fresh = Unused, !.tries = @ + 1, !.lost = @ \cup lost]
<1>1. j \in Prepare /\ j.op = "create" /\ j # Idle
    BY DEF PrepareCommit, Base, TypeOK, Change, Idle
<1>2. ASSUME NEW r \in Request, row[r] = Unused, row' = [freed EXCEPT ![r] = j.fresh],
             work' = [work EXCEPT ![p] = Idle]
      PROVE  Held'
    <2>1. \A s \in Request : s = r \/ s = j.req \/ row'[s] = row[s]
        BY <1>2 DEF Base, TypeOK
    <2>2. ~Voting(r)
        BY <1>2 DEF Voting, Unused
    <2>3. \A s \in Request : s = j.req => Works(p) /\ s = work[p].req
        BY <1>1, ConstantAssumption DEF Works
    <2> QED
        BY <1>2, <2>1, <2>2, <2>3, EndedHeld
<1>3. ASSUME NEW lost, work' = [work EXCEPT ![p] = again(lost)], UNCHANGED row
      PROVE  Held'
    <2>1. again(lost).req = NoRequest
        BY <1>1 DEF Prepare
    <2> HIDE DEF again
    <2> QED
        BY <1>3, <2>1, EndedHeld
<1> QED
    BY <1>2, <1>3 DEF PrepareCommit

(* so that every step leaves the votes that requests work on open. *)
LEMMA NextHeld == RowLocks /\ Base /\ Held /\ [Next]_vars => Held'
<1> SUFFICES ASSUME RowLocks, Base, Held, [Next]_vars PROVE Held'
    OBVIOUS
<1>0. TypeOK
    BY DEF Base
<1>1. ASSUME NEW p \in Worker, NEW policy, NEW eligible, NEW at, PrepareRead(p, policy, eligible, at)
      PROVE  Held'
    BY <1>0, <1>1, PrepareTakesUp, TakenHeld DEF PrepareRead
<1>2. ASSUME NEW p \in Worker, NEW at, Lookup(p, at) PROVE Held'
    BY <1>0, <1>2, StartTakesUp, TakenHeld DEF Lookup, Expire
<1>3. ASSUME NEW p \in Worker, NEW r \in Request, NEW m, BindRead(p, r, m) \/ FailRead(p, r, m)
      PROVE  Held'
    BY <1>0, <1>3, StartTakesUp, TakenHeld DEF BindRead, FailRead, Expire
<1>4. ASSUME NEW p \in Worker, NEW r \in Request, NEW m, NEW at, NEW weighted, NEW voters, NEW excluded,
             NEW managers, CompleteRead(p, r, m, voters, excluded, managers, weighted, at)
      PROVE  Held'
    BY <1>0, <1>4, StartTakesUp, TakenHeld DEF CompleteRead, Completable, Expire
<1>5. ASSUME NEW p \in Worker, PrepareAgain(p) PROVE Held'
    <2>1. CASE work' = [work EXCEPT ![p] = Idle]
        BY <1>0, <1>5, <2>1, TakenHeld DEF PrepareAgain, TakesUp
    <2>2. CASE PrepareReads(p, work[p].policy, work[p].eligible, work[p].at, work[p].tries, work[p].lost)
        BY <1>0, <1>5, <2>2, PrepareTakesUp, TakenHeld DEF PrepareAgain
    <2> QED
        BY <1>5, <2>1, <2>2 DEF PrepareAgain
<1>6. ASSUME NEW p \in Worker, Abort(p) PROVE Held'
    BY <1>0, <1>6, TakenHeld DEF Abort, TakesUp
<1>7. CASE UNCHANGED <<row, work>>
    BY <1>7 DEF Held, Works, Voting
<1> QED
    BY <1>1, <1>2, <1>3, <1>4, <1>5, <1>6, <1>7, CommitHeld, PrepareCommitHeld
       DEF Next, Finish, Mark, Tick, vars

(* With row locks the invariant holds in every behaviour. *)
LEMMA InvHolds == ASSUME RowLocks PROVE Spec => []Inv
<1>1. Inv /\ [Next]_vars => Inv'
    BY NextBase, NextHeld DEF Inv
<1> QED
    BY <1>1, InitInv, PTL DEF Spec

-----------------------------------------------------------------------------
(* Successes and refills *)

(* The successful votes whose record lists u. *)
Won(u) == {r \in Request : row[r].status = "succeeded" /\ u \in row[r].benefited}

(* What a step does to the rows, the refills and the successes. *)
Keeps ==
    /\ \A r \in Request : row[r].status \in Ended => row'[r] = row[r]
    /\ \A u \in User :
          \/ refills'[u] = refills[u] /\ Won(u)' = Won(u)
          \/ \E r \in Request \ Won(u) : refills'[u] = refills[u] + 1 /\ Won(u)' = Won(u) \cup {r}

(* A change pays those it lists, once, and touches no ended vote, *)
LEMMA CommitKeeps ==
    ASSUME Inv, NEW p \in Worker, Commit(p)
    PROVE  Keeps
<1> DEFINE j == work[p]
           x == Changed(row[j.req], j)
<1>1. /\ j \in Change /\ Voting(j.req) /\ j.req \in Request /\ row[j.req] \in Row
      /\ row' = [row EXCEPT ![j.req] = x]
      /\ refills' = [u \in User |-> IF u \in j.benefited THEN refills[u] + 1 ELSE refills[u]]
      /\ j.op # "succeed" => j.benefited = {}
    BY ConstantAssumption DEF Commit, Inv, Base, Held, Works, TypeOK, JobSound, Prepare, Idle, Change
<1>2. /\ x.status = "succeeded" => j.op = "succeed" /\ x.benefited = j.benefited
      /\ x.status # "succeeded" => j.op # "succeed"
    BY <1>1 DEF Changed, Closed, Change, Row, Voting
<1> HIDE DEF j, x
<1>3. \A r \in Request : row'[r] = (IF r = j.req THEN x ELSE row[r])
    BY <1>1 DEF Inv, Base, TypeOK
<1>4. \A r \in Request : row[r].status \in Ended => row'[r] = row[r]
    BY <1>1, <1>3 DEF Voting, Ended
<1>5. ASSUME NEW u \in User
      PROVE  \/ refills'[u] = refills[u] /\ Won(u)' = Won(u)
             \/ \E r \in Request \ Won(u) : refills'[u] = refills[u] + 1 /\ Won(u)' = Won(u) \cup {r}
    <2>1. j.req \notin Won(u)
        BY <1>1 DEF Won, Voting
    <2>2. CASE u \in j.benefited
        <3>1. x.status = "succeeded" /\ u \in x.benefited
            BY <1>1, <1>2, <2>2
        <3>2. Won(u)' = Won(u) \cup {j.req}
            BY <1>1, <1>3, <3>1 DEF Won
        <3> QED
            BY <1>1, <2>1, <2>2, <3>2
    <2>3. CASE u \notin j.benefited
        <3>1. ~(x.status = "succeeded" /\ u \in x.benefited)
            BY <1>2, <2>3
        <3>2. Won(u)' = Won(u)
            BY <1>1, <1>3, <2>1, <3>1 DEF Won
        <3> QED
            BY <1>1, <2>3, <3>2
    <2> QED
        BY <2>2, <2>3
<1> QED
    BY <1>4, <1>5 DEF Keeps

(* prepare pays nobody and touches no ended vote, *)
LEMMA PrepareCommitKeeps ==
    ASSUME Inv, NEW p \in Worker, PrepareCommit(p)
    PROVE  Keeps
<1> DEFINE j == work[p]
           freed == IF j.req = NoRequest THEN row
                    ELSE [row EXCEPT ![j.req] = Closed(@, "expired")]
<1>1. /\ j.req \in Request \cup {NoRequest} /\ (j.req # NoRequest => Voting(j.req))
      /\ j.fresh.status = "voting" /\ refills' = refills
    BY DEF PrepareCommit, Inv, Base, Held, Works, TypeOK, JobSound, Change, Prepare, Idle
<1>2. CASE UNCHANGED row
    BY <1>1, <1>2 DEF Keeps, Won
<1>3. CASE \E r \in Request : row[r] = Unused /\ row' = [freed EXCEPT ![r] = j.fresh]
    <2>1. PICK r \in Request : row[r] = Unused /\ row' = [freed EXCEPT ![r] = j.fresh]
        BY <1>3
    <2>2. \A s \in Request : \/ row'[s] = row[s]
                             \/ /\ row[s].status \in {"voting", "unused"}
                                /\ row'[s].status \in {"voting", "expired"}
        <3> SUFFICES ASSUME NEW s \in Request
                     PROVE  \/ row'[s] = row[s]
                            \/ /\ row[s].status \in {"voting", "unused"}
                               /\ row'[s].status \in {"voting", "expired"}
            OBVIOUS
        <3>1. row[s] \in Row /\ Closed(row[s], "expired").status = "expired"
            BY DEF Inv, Base, TypeOK, Closed, Row
        <3>2. CASE s = r
            BY <1>1, <2>1, <3>2 DEF Inv, Base, TypeOK, Unused
        <3>3. CASE s # r /\ s = j.req
            BY <1>1, <2>1, <3>1, <3>3, ConstantAssumption DEF Inv, Base, TypeOK, Voting
        <3>4. CASE s # r /\ s # j.req
            BY <2>1, <3>4 DEF Inv, Base, TypeOK
        <3> QED
            BY <3>2, <3>3, <3>4
    <2>3. \A s \in Request : row[s].status \in Ended => row'[s] = row[s]
        BY <2>2 DEF Ended
    <2>4. \A u \in User : Won(u)' = Won(u)
        BY <2>2 DEF Won
    <2> QED
        BY <1>1, <2>3, <2>4 DEF Keeps
<1> QED
    BY <1>2, <1>3 DEF PrepareCommit

(* and no other step does either. *)
LEMMA NextKeeps == Inv /\ [Next]_vars => Keeps
<1> SUFFICES ASSUME Inv, [Next]_vars PROVE Keeps
    OBVIOUS
<1>1. CASE UNCHANGED <<row, refills>>
    BY <1>1 DEF Keeps, Won
<1>2. CASE \E p \in Worker : PrepareCommit(p) \/ Commit(p)
    BY <1>2, PrepareCommitKeeps, CommitKeeps
<1> QED
    BY <1>1, <1>2 DEF Next, vars, Mark, PrepareRead, Lookup, BindRead, FailRead, CompleteRead, Finish,
       PrepareAgain, Abort, Tick

(* A vote that ended keeps its result, however late the requests that had    *)
(* read it as open.                                                          *)
THEOREM ResultsStand == ASSUME RowLocks PROVE Spec => EndedForGood
<1>1. Inv /\ [Next]_vars => [\A r \in Request : row[r].status \in Ended => row'[r] = row[r]]_vars
    BY NextKeeps DEF Keeps
<1> QED
    BY <1>1, InvHolds, PTL DEF Spec, EndedForGood

(* The charges of a user are refilled exactly once for each success that     *)
(* lists the user.                                                           *)
THEOREM RefilledOnce == ASSUME RowLocks PROVE Spec => []RefilledOncePerSuccess
<1> DEFINE Paid == \A u \in User : refills[u] = Cardinality(Won(u))
<1>1. Init => Paid
    <2> SUFFICES ASSUME Init, NEW u \in User PROVE refills[u] = Cardinality(Won(u))
        OBVIOUS
    <2>1. Won(u) = {} /\ refills[u] = 0
        BY DEF Init, Won, Unused
    <2> QED
        BY <2>1, FS_EmptySet
<1>2. Inv /\ Paid /\ [Next]_vars => Paid'
    <2> SUFFICES ASSUME Inv, Paid, [Next]_vars, NEW u \in User PROVE refills'[u] = Cardinality(Won(u)')
        OBVIOUS
    <2>1. Keeps
        BY NextKeeps
    <2>2. CASE refills'[u] = refills[u] /\ Won(u)' = Won(u)
        BY <2>2
    <2>3. ASSUME NEW r \in Request \ Won(u), refills'[u] = refills[u] + 1, Won(u)' = Won(u) \cup {r}
          PROVE  refills'[u] = Cardinality(Won(u)')
        <3>1. IsFiniteSet(Won(u))
            BY ConstantAssumption, FS_Subset DEF Won
        <3> QED
            BY <2>3, <3>1, FS_AddElement
    <2> QED
        BY <2>1, <2>2, <2>3 DEF Keeps
<1>3. Paid => RefilledOncePerSuccess
    BY DEF RefilledOncePerSuccess, Won
<1> QED
    BY <1>1, <1>2, <1>3, InvHolds, PTL DEF Spec

-----------------------------------------------------------------------------
(* In every round, of any number, the members that raised a threshold reach  *)
(* it; thresholds do not shrink, and the capped ones are never above the old.*)
THEOREM RoundsWinnable == Spec => []EveryRoundWinnable
<1>1. Successes \in Nat
    <2>1. IsFiniteSet({r \in Request : row[r].status = "succeeded"})
        BY ConstantAssumption, FS_Subset
    <2> QED
        BY <2>1, FS_CardinalityType DEF Successes
<1>2. EveryRoundWinnable
    <2> SUFFICES ASSUME NEW k \in Nat, k = Successes, NEW n \in MinActive..MaxGroup
                 PROVE  LET q == refill_threshold(n, k)
                        IN  /\ q >= MinVoters /\ q <= n
                            /\ q <= refill_threshold(n, k + 1) /\ q <= refill_threshold(n + 1, k)
                            /\ q <= legacy_refill_threshold(n, k) /\ legacy_refill_threshold(n, k) <= n
        BY <1>1 DEF EveryRoundWinnable
    <2> USE DEF MinActive, MaxGroup, MinVoters, refill_threshold, legacy_refill_threshold,
               Share, Least, Most, AtRound
    <2>0. /\ Len(Steps) = 4 /\ Len(LegacyRatios) = 5
          /\ Steps[1] = [ratio |-> 25, cap |-> 8] /\ Steps[2] = [ratio |-> 35, cap |-> 12]
          /\ Steps[3] = [ratio |-> 45, cap |-> 16] /\ Steps[4] = [ratio |-> 55, cap |-> 20]
          /\ LegacyRatios[1] = 25 /\ LegacyRatios[2] = 35 /\ LegacyRatios[3] = 45
          /\ LegacyRatios[4] = 55 /\ LegacyRatios[5] = 65
        BY DEF Steps, LegacyRatios
    <2>1. CASE k = 0
        BY <2>0, <2>1
    <2>2. CASE k = 1
        BY <2>0, <2>2
    <2>3. CASE k = 2
        BY <2>0, <2>3
    <2>4. CASE k = 3
        BY <2>0, <2>4
    <2>5. CASE k >= 4
        BY <2>0, <2>5
    <2> HIDE DEF MinActive, MaxGroup, MinVoters, refill_threshold, legacy_refill_threshold,
                Share, Least, Most, AtRound
    <2>6. k = 0 \/ k = 1 \/ k = 2 \/ k = 3 \/ k >= 4
        OBVIOUS
    <2> QED
        BY <2>1, <2>2, <2>3, <2>4, <2>5, <2>6
<1> QED
    BY <1>2, PTL
=============================================================================
