-------------------------- MODULE DailyReport_proof --------------------------
(***************************************************************************)
(* Theorems about DailyReport, for every number of workers, claimers,      *)
(* tokens and retry delays, every lease time, cutoff, deadline and lag.    *)
(*                                                                         *)
(* A lease is posted with at most once because only a claimer that heard   *)
(* the go-ahead posts, its token then is the row's, the row is sending,    *)
(* and a row leaves sending only as the claimer reports what it heard.     *)
(* Steps that act on a stale read are harmless when what a job saw of a    *)
(* lease still agrees with who holds it and what became of it (JobSound).  *)
(***************************************************************************)
EXTENDS DailyReport, FiniteSetTheorems, TLAPS

(* The states in which the row has a token. *)
Leasing == {"claimed", "sending", "sent", "uncertain", "skipped"}

(* A row with a token has an issued one of the claimer it names; a sent row  *)
(* was accepted by the chat service, and a claimed or skipped one not posted.*)
RowSound ==
    /\ row.status \in Leasing =>
          /\ row.token \in Issued /\ row.attempt >= 1
          /\ row.by = holder[row.token]
    /\ row.status \notin Leasing => row.token = NoToken
    /\ row.status = "absent" => row.attempt = 0
    /\ row.status = "sent" => reply[row.token] = "accepted"
    /\ row.status \in {"claimed", "skipped"} => reply[row.token] = "none"

(* A token whose holder may post is the row's, nothing was posted with it,   *)
(* and one that the group saw is the row's, which is not given back.         *)
TokenSound(t) ==
    /\ phase[t] # "unissued" => holder[t] \in Claimer
    /\ phase[t] = "cleared" => row.token = t /\ row.status = "sending"
    /\ phase[t] \in {"unissued", "lost", "held", "cleared"} => reply[t] = "none"
    /\ reply[t] \in {"none", "rejected"} => shown[t] = 0
    /\ reply[t] = "accepted" => shown[t] = 1
    /\ shown[t] <= 1
    /\ shown[t] > 0 => row.token = t /\ row.status \in {"sending", "sent", "uncertain"}

(* What a request under way saw of a lease, or was told of it, is still so:  *)
(* a restarted process is not given back a token that was posted with.       *)
JobSound(j) ==
    /\ j.op = "claim" /\ j.seen.status = "claimed" =>
          /\ j.seen.token \in Issued
          /\ j.seen.by = holder[j.seen.token]
          /\ j.who = j.seen.by /\ ~j.deaf /\ phase[j.seen.token] = "crashed"
                => reply[j.seen.token] = "none"
    /\ j.op \in Action => j.token \in Issued
    /\ j.op = "sent" => reply[j.token] = "accepted"
    /\ j.op = "retry" => reply[j.token] = "rejected"
    /\ j.op = "uncertain" => reply[j.token] = "unknown"

Sound ==
    /\ RowSound
    /\ \A t \in Token : TokenSound(t)
    /\ \A p \in Worker : JobSound(work[p])

Inv == TypeOK /\ Sound

(* The initial states satisfy the invariant: there is no row and no lease. *)
LEMMA InitInv == Init => Inv
<1> SUFFICES ASSUME Init PROVE Inv
    OBVIOUS
<1>1. TypeOK
    BY ConstantAssumption DEF Init, TypeOK, Row, Open, Settled, Idle, Never, MaxAttempts
<1>2. Sound
    BY ConstantAssumption DEF Init, Sound, RowSound, TokenSound, JobSound, Leasing, Idle, Action
<1> QED
    BY <1>1, <1>2 DEF Inv

(* What the constants make of times and attempts. *)
LEMMA Times == Never \in Nat /\ MaxAttempts \in Nat \ {0} /\ \A n \in 1..Len(Delays) : Delays[n] \in Nat
BY ConstantAssumption DEF Never, MaxAttempts

-----------------------------------------------------------------------------
(* Lemmas about the operators the handlers share *)

(* A lease is a claimed row with the token and one attempt more. *)
LEMMA LeasedType ==
    ASSUME NEW x \in Row, NEW c \in Claimer, NEW t \in Token, NEW at \in Nat, x.attempt < MaxAttempts
    PROVE  /\ Leased(x, c, t, at) \in Row
           /\ Leased(x, c, t, at).status = "claimed"
           /\ Leased(x, c, t, at).token = t
           /\ Leased(x, c, t, at).by = c
           /\ Leased(x, c, t, at).attempt = x.attempt + 1
BY Times DEF Leased, Row, Open

(* A row that was given back or given up has no token and as many attempts. *)
LEMMA VacatedType ==
    ASSUME NEW x \in Row, NEW status \in {"pending", "failed"}, NEW next \in Nat
    PROVE  /\ Vacated(x, status, next) \in Row
           /\ Vacated(x, status, next).status = status
           /\ Vacated(x, status, next).token = NoToken
           /\ Vacated(x, status, next).attempt = x.attempt
BY Times DEF Vacated, Row, Open, Settled

(* Failing a report changes an open row only. *)
LEMMA FailTypes ==
    ASSUME TypeOK, NEW seen, FailIfUnchanged(seen)
    PROVE  /\ row' \in Row
           /\ row' # row => row.status \in Open /\ row' = Vacated(row, "failed", Never)
BY VacatedType, Times DEF TypeOK, FailIfUnchanged

(* Only the token of the lease is affected when a claimer learns of it. *)
LEMMA LearnTypes ==
    ASSUME TypeOK, NEW t \in Token, NEW c \in Claimer, NEW heard \in BOOLEAN, Learn(t, c, heard)
    PROVE  /\ phase' \in [Token -> {"unissued", "lost", "held", "cleared", "posted", "crashed"}]
           /\ holder' = [holder EXCEPT ![t] = c]
           /\ \A u \in Token : u # t => phase'[u] = phase[u]
           /\ phase'[t] # "unissued"
           /\ phase'[t] # phase[t] =>
                 \/ phase'[t] = "held" /\ heard /\ phase[t] \in {"unissued", "lost", "crashed"}
                 \/ phase'[t] = "lost" /\ phase[t] = "unissued"
           /\ reply' = reply /\ shown' = shown
BY DEF TypeOK, Learn

(* A transition gives the row back, or moves it on under the same token. *)
LEMMA MovedTypes ==
    ASSUME TypeOK, NEW j \in Job, j.op \in Action, StillAllowed(j), row.attempt >= 1
    PROVE  /\ Moved(j.op, j.seen, j.at) \in Row
           /\ Moved(j.op, j.seen, j.at).attempt = row.attempt
           /\ j.op \in {"release", "retry"} =>
                 \E status \in {"pending", "failed"}, next \in Nat :
                    Moved(j.op, j.seen, j.at) = Vacated(row, status, next)
           /\ j.op \notin {"release", "retry"} =>
                 \E status \in {"sending", "sent", "uncertain", "skipped"} :
                   /\ status = (IF j.op = "skip" THEN "skipped" ELSE j.op)
                   /\ Moved(j.op, j.seen, j.at) = [row EXCEPT !.status = status, !.next = Never]
<1>0. row \in Row
    BY DEF TypeOK
<1>4. \A status \in {"pending", "failed"}, next \in Nat :
         Vacated(row, status, next) \in Row /\ Vacated(row, status, next).attempt = row.attempt
    BY <1>0, VacatedType
<1> USE Times DEF TypeOK, Job, Row, StillAllowed
<1>1. CASE j.op \in {"release", "retry"}
    <2>1. PICK status \in {"pending", "failed"}, next \in Nat :
             GivenBack(j.seen, j.at) = Vacated(row, status, next)
        <3>1. CASE j.seen.attempt > Len(Delays)
            <4>1. GivenBack(j.seen, j.at) = Vacated(row, "failed", Never)
                BY <3>1 DEF GivenBack
            <4> QED
                BY <4>1
        <3>2. CASE ~(j.seen.attempt > Len(Delays))
            <4>1. j.seen.attempt \in 1..Len(Delays) /\ Delays[j.seen.attempt] \in Nat
                BY <3>2, ConstantAssumption
            <4>2. \/ GivenBack(j.seen, j.at) = Vacated(row, "failed", Never)
                  \/ GivenBack(j.seen, j.at) = Vacated(row, "pending", j.at + Delays[j.seen.attempt])
                BY DEF GivenBack
            <4> QED
                BY <4>1, <4>2
        <3> QED
            BY <3>1, <3>2
    <2>2. Moved(j.op, j.seen, j.at) = GivenBack(j.seen, j.at)
        BY <1>1 DEF Moved
    <2>3. Vacated(row, status, next) \in Row /\ Vacated(row, status, next).attempt = row.attempt
        BY <1>4
    <2> QED
        BY <1>1, <2>1, <2>2, <2>3
<1>2. CASE j.op = "skip"
    BY <1>2 DEF Moved, Settled
<1>3. CASE j.op \in {"sending", "sent", "uncertain"}
    BY <1>3 DEF Moved, Settled
<1> QED
    BY <1>1, <1>2, <1>3 DEF Action

-----------------------------------------------------------------------------
(* The steps *)

(* Learning of a lease, new or answered again, keeps what is known of tokens *)
(* and of the requests under way.                                            *)
LEMMA LearnSound ==
    ASSUME Inv, NEW t \in Token, NEW c \in Claimer, NEW heard \in BOOLEAN, Learn(t, c, heard),
           phase[t] = "unissued" \/ holder[t] = c,
           reply[t] = "none" \/ ~heard \/ phase[t] # "crashed"
    PROVE  /\ \A u \in Token : u \in Issued => u \in Issued' /\ holder'[u] = holder[u]
           /\ t \in Issued' /\ holder'[t] = c
           /\ \A u \in Token :
                 /\ phase'[u] # "unissued" => holder'[u] \in Claimer
                 /\ phase'[u] = "cleared" <=> phase[u] = "cleared"
                 /\ phase'[u] = "crashed" => phase[u] = "crashed"
                 /\ phase'[u] \in {"unissued", "lost", "held", "cleared"} => reply[u] = "none"
           /\ \A p \in Worker : JobSound(work[p]) => JobSound(work[p])' \/ work'[p] # work[p]
<1> USE DEF Inv, TypeOK, Sound, TokenSound, Issued
<1>1. /\ \A u \in Token : u \in Issued => u \in Issued' /\ holder'[u] = holder[u]
      /\ t \in Issued' /\ holder'[t] = c
    BY LearnTypes
<1>2. \A u \in Token :
         /\ phase'[u] # "unissued" => holder'[u] \in Claimer
         /\ phase'[u] = "cleared" <=> phase[u] = "cleared"
         /\ phase'[u] = "crashed" => phase[u] = "crashed"
         /\ phase'[u] \in {"unissued", "lost", "held", "cleared"} => reply[u] = "none"
    BY LearnTypes
<1>3. ASSUME NEW p \in Worker, JobSound(work[p]), work'[p] = work[p] PROVE JobSound(work[p])'
    BY <1>1, <1>2, <1>3, LearnTypes DEF JobSound
<1> QED
    BY <1>1, <1>2, <1>3

(* The insertion of the row keeps the invariant. *)
LEMMA ClaimNewInv ==
    ASSUME Inv, NEW t \in Token, NEW c \in Claimer, NEW at \in Nat, NEW heard \in BOOLEAN,
           ClaimNew(c, t, at, heard)
    PROVE  Inv'
<1> DEFINE fresh == [row EXCEPT !.status = "pending"]
<1> USE DEF Inv, TypeOK
<1>1. /\ row.status = "absent" /\ phase[t] = "unissued" /\ now' = now /\ work' = work
      /\ fresh \in Row /\ fresh.token = NoToken /\ fresh.status = "pending"
      /\ row.token = NoToken /\ fresh.attempt = row.attempt
    BY DEF ClaimNew, Drawn, Row, Sound, RowSound, Leasing, Open
<1> HIDE DEF fresh
<1>2. CASE UNCHANGED clientVars /\ (row' = Vacated(fresh, "failed", Never) \/ row' = fresh)
    <2>1. TypeOK'
        BY <1>1, <1>2, VacatedType, Times DEF clientVars
    <2>0. LET gone == Vacated(fresh, "failed", Never)
          IN  gone.status = "failed" /\ gone.token = NoToken
        BY <1>1, VacatedType, Times
    <2>2. row'.status \in {"pending", "failed"} /\ row'.token = NoToken
        BY <1>1, <1>2, <2>0
    <2>5. RowSound'
        BY <2>2 DEF RowSound, Leasing
    <2>3. \A u \in Token : TokenSound(u)'
        BY <1>1, <1>2 DEF Sound, TokenSound, clientVars
    <2>4. \A p \in Worker : JobSound(work[p])'
        BY <1>1, <1>2 DEF Sound, JobSound, clientVars, Issued
    <2> QED
        BY <2>1, <2>5, <2>3, <2>4 DEF Sound
<1>3. CASE Learn(t, c, heard) /\ row' = Leased(fresh, c, t, at)
    <2>0. fresh.attempt = 0
        BY <1>1 DEF Sound, RowSound
    <2>6. /\ row' \in Row /\ row'.status = "claimed" /\ row'.token = t /\ row'.by = c
          /\ row'.attempt = 1
        BY <1>1, <1>3, <2>0, LeasedType, Times
    <2>1. TypeOK'
        BY <1>1, <1>3, <2>6, LearnTypes
    <2>7. reply' = reply /\ shown' = shown /\ reply[t] = "none" /\ t \in Issued' /\ holder'[t] = c
        BY <1>1, <1>3, LearnSound, LearnTypes DEF Sound, TokenSound
    <2>2. RowSound'
        BY <2>6, <2>7 DEF RowSound, Leasing
    <2>3. \A u \in Token : TokenSound(u)'
        BY <1>1, <1>3, <2>6, <2>7, LearnSound DEF Sound, TokenSound, RowSound
    <2>4. \A p \in Worker : JobSound(work[p])'
        BY <1>1, <1>3, LearnSound DEF Sound
    <2> QED
        BY <2>1, <2>2, <2>3, <2>4 DEF Sound
<1> QED
    BY <1>2, <1>3 DEF ClaimNew, fresh

(* A request that fails the report keeps the invariant. *)
LEMMA FailInv ==
    ASSUME Inv, NEW p \in Worker, NEW seen, FailIfUnchanged(seen), UNCHANGED clientVars, now' = now,
           work' = [work EXCEPT ![p] = Idle]
    PROVE  Inv'
<1> USE DEF Inv, TypeOK
<1>1. TypeOK'
    BY FailTypes DEF clientVars
<1>2. RowSound' /\ \A t \in Token : TokenSound(t)'
    <2>1. CASE row' = row
        BY <2>1 DEF Sound, RowSound, TokenSound, clientVars, Issued
    <2>2. CASE row' # row
        <3>1. row.status \in Open /\ row'.status = "failed" /\ row'.token = NoToken
            <4>1. row.status \in Open /\ row' = Vacated(row, "failed", Never)
                BY <2>2, FailTypes
            <4>2. LET gone == Vacated(row, "failed", Never)
                  IN  gone.status = "failed" /\ gone.token = NoToken
                BY VacatedType, Times
            <4> QED
                BY <4>1, <4>2
        <3>2. RowSound'
            BY <3>1 DEF RowSound, Leasing
        <3>3. ASSUME NEW t \in Token PROVE TokenSound(t)'
            BY <3>1 DEF Sound, TokenSound, clientVars, Open
        <3> QED
            BY <3>2, <3>3
    <2> QED
        BY <2>1, <2>2
<1>3. ASSUME NEW q \in Worker PROVE JobSound(work[q])'
    BY DEF Sound, JobSound, clientVars, Issued, Idle, Action
<1> QED
    BY <1>1, <1>2, <1>3 DEF Sound

(* So does the repeated answer of a lease, *)
LEMMA ClaimAgainInv ==
    ASSUME Inv, NEW p \in Worker, NEW heard \in BOOLEAN, work[p].op = "claim", heard => ~work[p].deaf,
           ClaimAgain(work[p], heard), now' = now, work' = [work EXCEPT ![p] = Idle]
    PROVE  Inv'
<1> DEFINE j == work[p]
           t == j.seen.token
<1> USE DEF Inv, TypeOK
<1>1. /\ j \in Job /\ t \in Issued /\ t \in Token /\ holder[t] = j.who /\ j.who \in Claimer
      /\ reply[t] = "none" \/ ~heard \/ phase[t] # "crashed"
      /\ Learn(t, j.who, heard) /\ row' = row
    BY DEF ClaimAgain, LiveLeaseOf, Sound, JobSound, Issued, Idle, Job, Action
<1> HIDE DEF j, t
<1>2. TypeOK'
    BY <1>1, LearnTypes
<1>3. RowSound'
    BY <1>1, LearnTypes, LearnSound DEF Sound, RowSound, Issued
<1>4. ASSUME NEW u \in Token PROVE TokenSound(u)'
    BY <1>1, LearnTypes, LearnSound DEF Sound, TokenSound
<1>5. ASSUME NEW q \in Worker PROVE JobSound(work[q])'
    <2>1. CASE q = p
        BY <2>1 DEF JobSound, Idle, Action
    <2>2. CASE q # p
        BY <1>1, <2>2, LearnSound DEF Sound
    <2> QED
        BY <2>1, <2>2
<1> QED
    BY <1>2, <1>3, <1>4, <1>5 DEF Sound

(* the lease of a row that was read as due, *)
LEMMA ClaimLeaseInv ==
    ASSUME Inv, NEW p \in Worker, NEW t \in Token, NEW heard \in BOOLEAN, work[p].op = "claim",
           ClaimLease(work[p], t, heard), now' = now, work' = [work EXCEPT ![p] = Idle]
    PROVE  Inv'
<1> DEFINE j == work[p]
<1> USE DEF Inv, TypeOK
<1>1. /\ j \in Job /\ j.seen \in Row /\ j.who \in Claimer /\ j.at \in Nat
      /\ phase[t] = "unissued" /\ reply[t] = "none" /\ j.seen.attempt < MaxAttempts
    BY DEF ClaimLease, Drawn, Sound, TokenSound, Idle, Job, Action, Row
<1>2. CASE StillDue(j.seen, j.at)
    <2>1. /\ row.status \in Open /\ row.attempt = j.seen.attempt
          /\ row' = Leased(j.seen, j.who, t, j.at) /\ Learn(t, j.who, heard)
        BY <1>2 DEF ClaimLease, StillDue, Due, Open
    <2> HIDE DEF j
    <2>0. row.attempt \in Nat
        BY DEF Row
    <2>2. /\ row' \in Row /\ row'.status = "claimed" /\ row'.token = t /\ row'.by = j.who
          /\ row'.attempt = row.attempt + 1 /\ row.attempt \in Nat
        BY <1>1, <2>1, <2>0, LeasedType
    <2>3. TypeOK'
        BY <1>1, <2>1, <2>2, LearnTypes
    <2>4. reply' = reply /\ shown' = shown /\ t \in Issued' /\ holder'[t] = j.who
        BY <1>1, <2>1, LearnSound, LearnTypes
    <2>5. RowSound'
        BY <1>1, <2>2, <2>4 DEF RowSound, Leasing
    <2>6. ASSUME NEW u \in Token PROVE TokenSound(u)'
        BY <1>1, <2>1, <2>2, <2>4, LearnSound DEF Sound, TokenSound, Open
    <2>7. ASSUME NEW q \in Worker PROVE JobSound(work[q])'
        <3>1. CASE q = p
            BY <3>1 DEF JobSound, Idle, Action
        <3>2. CASE q # p
            BY <1>1, <2>1, <3>2, LearnSound DEF Sound
        <3> QED
            BY <3>1, <3>2
    <2> QED
        BY <2>3, <2>5, <2>6, <2>7 DEF Sound
<1>3. CASE ~StillDue(j.seen, j.at)
    <2>1. UNCHANGED <<row, clientVars>>
        BY <1>3 DEF ClaimLease
    <2>2. TypeOK'
        BY <2>1 DEF clientVars
    <2>3. RowSound' /\ \A u \in Token : TokenSound(u)'
        BY <2>1 DEF Sound, RowSound, TokenSound, clientVars, Issued
    <2>4. ASSUME NEW q \in Worker PROVE JobSound(work[q])'
        BY <2>1 DEF Sound, JobSound, clientVars, Issued, Idle, Action
    <2> QED
        BY <2>2, <2>3, <2>4 DEF Sound
<1> QED
    BY <1>2, <1>3

(* a read whose job agrees with the row, *)
LEMMA ReadInv ==
    ASSUME Inv, NEW p \in Worker, NEW j \in Job, UNCHANGED <<row, now, clientVars>>,
           work' = [work EXCEPT ![p] = j], JobSound(j)
    PROVE  Inv'
<1>1. TypeOK'
    BY DEF Inv, TypeOK, clientVars
<1>2. RowSound' /\ \A u \in Token : TokenSound(u)'
    BY DEF Inv, Sound, RowSound, TokenSound, clientVars, Issued
<1>3. ASSUME NEW q \in Worker PROVE JobSound(work[q])'
    <2>1. work'[q] = j \/ work'[q] = work[q]
        BY DEF Inv, TypeOK
    <2> QED
        BY <2>1 DEF Inv, Sound, JobSound, clientVars, Issued
<1> QED
    BY <1>1, <1>2, <1>3 DEF Inv, Sound

(* that of a claim, *)
LEMMA ClaimReadInv ==
    ASSUME Inv, NEW p \in Worker, NEW c \in Claimer, NEW at \in Nat, ClaimRead(p, c, at)
    PROVE  Inv'
<1> DEFINE j == [op |-> "claim", who |-> c, token |-> NoToken, at |-> at, seen |-> row, deaf |-> FALSE]
<1>1. j \in Job
    BY DEF Inv, TypeOK, Job
<1>2. JobSound(j)
    BY DEF Inv, Sound, RowSound, JobSound, Leasing, Action
<1>3. UNCHANGED <<row, now, clientVars>> /\ work' = [work EXCEPT ![p] = j]
    BY DEF ClaimRead
<1> QED
    BY <1>1, <1>2, <1>3, ReadInv

(* that of a transition, *)
LEMMA TransitionReadInv ==
    ASSUME Inv, NEW p \in Worker, NEW t \in Token, NEW a \in Action, TransitionRead(p, t, a)
    PROVE  Inv'
<1> DEFINE at == IF a \in Timed THEN now ELSE 0
           j == [op |-> a, who |-> holder[t], token |-> t, seen |-> row, at |-> at, deaf |-> FALSE]
<1>0. a # "claim" /\ t \in Issued /\ at \in Nat /\ holder[t] \in Claimer
    <2>1. row.status \in Leasing /\ row.token = t
        BY DEF TransitionRead, Allowed, Leasing, Action
    <2>2. t \in Issued /\ row.by = holder[t]
        BY <2>1 DEF Inv, Sound, RowSound
    <2> QED
        BY <2>1, <2>2, ConstantAssumption DEF Inv, TypeOK, Sound, TokenSound, Action, Issued
<1>1. j \in Job
    BY <1>0 DEF Inv, TypeOK, Job
<1>2. JobSound(j)
    BY <1>0 DEF JobSound, TransitionRead, Asks
<1>3. UNCHANGED <<row, now, clientVars>> /\ work' = [work EXCEPT ![p] = j]
    BY DEF TransitionRead
<1> QED
    BY <1>1, <1>2, <1>3, ReadInv

(* a post, *)
LEMMA PostInv ==
    ASSUME Inv, NEW t \in Token, NEW answer \in {"accepted", "rejected", "unknown"}, NEW seen \in BOOLEAN,
           Post(t, answer, seen)
    PROVE  Inv'
<1> USE DEF Inv, TypeOK, Post
<1>1. TypeOK'
    OBVIOUS
<1>2. /\ row.token = t /\ row.status = "sending" /\ reply[t] = "none" /\ shown[t] = 0
      /\ t \in Issued
    BY DEF Sound, TokenSound, Issued
<1>3. Issued' = Issued
    BY DEF Issued
<1>4. RowSound'
    BY <1>2, <1>3 DEF Sound, RowSound, Leasing
<1>5. ASSUME NEW u \in Token PROVE TokenSound(u)'
    BY <1>2 DEF Sound, TokenSound
<1>6. ASSUME NEW q \in Worker PROVE JobSound(work[q])'
    BY <1>2, <1>3 DEF Sound, JobSound
<1> QED
    BY <1>1, <1>4, <1>5, <1>6 DEF Sound

(* a restart, *)
LEMMA CrashInv ==
    ASSUME Inv, NEW c \in Claimer, Crash(c)
    PROVE  Inv'
<1>0. ASSUME NEW q \in Worker
      PROVE  \/ work'[q] = work[q] /\ (work[q].op = "claim" => work[q].who # c)
             \/ work[q] \in Job /\ work'[q] = [work[q] EXCEPT !.deaf = TRUE]
    <2>1. work[q] \in Job \/ work[q] = Idle
        BY DEF Inv, TypeOK
    <2>2. CASE work[q].op \in {"claim", "sending"} /\ work[q].who = c
        BY <2>1, <2>2 DEF Crash, Idle
    <2>3. CASE ~(work[q].op \in {"claim", "sending"} /\ work[q].who = c)
        BY <2>3 DEF Crash
    <2> QED
        BY <2>2, <2>3
<1>6. ASSUME NEW q \in Worker PROVE work'[q] \in Job \cup {Idle}
    <2>1. CASE work'[q] = work[q]
        BY <2>1 DEF Inv, TypeOK
    <2>2. CASE work[q] \in Job /\ work'[q] = [work[q] EXCEPT !.deaf = TRUE]
        BY <2>2 DEF Job
    <2> QED
        BY <1>0, <2>1, <2>2
<1>7. work' \in [Worker -> Job \cup {Idle}]
    BY <1>6 DEF Crash
<1> USE DEF Inv, TypeOK, Crash
<1>1. TypeOK'
    BY <1>7
<1>2. Issued' = Issued
    BY DEF Issued
<1>3. RowSound'
    BY <1>2 DEF Sound, RowSound
<1>4. ASSUME NEW u \in Token PROVE TokenSound(u)'
    BY DEF Sound, TokenSound
<1>5. ASSUME NEW q \in Worker PROVE JobSound(work[q])'
    <2>1. CASE work'[q] = work[q] /\ (work[q].op = "claim" => work[q].who # c)
        <3>1. UNCHANGED <<holder, reply>>
            BY DEF Crash
        <3>2. \A t \in Token : phase'[t] = "crashed" => phase[t] = "crashed" \/ holder[t] = c
            BY DEF Crash
        <3> QED
            BY <1>2, <2>1, <3>1, <3>2 DEF Sound, JobSound, Issued
    <2>2. CASE work[q] \in Job /\ work'[q] = [work[q] EXCEPT !.deaf = TRUE]
        <3>1. LET j == work[q]
                  k == work'[q]
              IN  k.op = j.op /\ k.seen = j.seen /\ k.token = j.token /\ k.who = j.who /\ k.deaf = TRUE
            BY <2>2 DEF Job
        <3>2. UNCHANGED <<row, holder, reply>>
            BY DEF Crash
        <3> QED
            BY <1>2, <3>1, <3>2 DEF Sound, JobSound
    <2> QED
        BY <1>0, <2>1, <2>2
<1> QED
    BY <1>1, <1>3, <1>4, <1>5 DEF Sound

(* the conditional UPDATE of a transition, *)
LEMMA TransitionWriteInv ==
    ASSUME Inv, NEW p \in Worker, NEW heard \in BOOLEAN, TransitionWrite(p, heard)
    PROVE  Inv'
<1> DEFINE j == work[p]
<1>0. /\ j.op \in Action /\ j \in Job /\ j.token \in Issued /\ j.token \in Token
      /\ work' = [work EXCEPT ![p] = Idle] /\ UNCHANGED <<now, holder, reply, shown>>
      /\ JobSound(j)
    BY DEF TransitionWrite, Inv, TypeOK, Sound, JobSound, Issued, Idle, Action
<1> HIDE DEF j
<1>1. CASE FailIfUnchanged(j.seen) /\ UNCHANGED phase
    BY <1>0, <1>1, FailInv DEF clientVars
<1>2. CASE UNCHANGED <<row, phase>>
    <2>1. TypeOK'
        BY <1>0, <1>2 DEF Inv, TypeOK
    <2>2. RowSound' /\ \A u \in Token : TokenSound(u)'
        BY <1>0, <1>2 DEF Inv, Sound, RowSound, TokenSound, Issued
    <2>3. ASSUME NEW q \in Worker PROVE JobSound(work[q])'
        BY <1>0, <1>2 DEF Inv, TypeOK, Sound, JobSound, Issued, Idle, Action
    <2> QED
        BY <2>1, <2>2, <2>3 DEF Inv, Sound
<1>3. CASE /\ StillAllowed(j)
           /\ row' = Moved(j.op, j.seen, j.at)
           /\ phase' = IF heard /\ j.op = "sending" /\ phase[j.token] = "held"
                        THEN [phase EXCEPT ![j.token] = "cleared"] ELSE phase
    <2>1. /\ row.token = j.token /\ row.status \in Leasing /\ row.attempt >= 1
          /\ row.by = holder[j.token] /\ row \in Row
          /\ row.status \in Allowed(j.op)
        BY <1>0, <1>3 DEF StillAllowed, Allowed, Leasing, Action, Inv, TypeOK, Sound, RowSound
    <2>2. Issued' = Issued
        BY <1>0, <1>3 DEF Issued, Inv, TypeOK
    <2>3. TypeOK'
        BY <1>0, <1>3, <2>1, MovedTypes DEF Inv, TypeOK
    <2>4. ASSUME NEW q \in Worker PROVE JobSound(work[q])'
        BY <1>0, <1>3, <2>2 DEF Inv, TypeOK, Sound, JobSound, Idle, Action
    <2>5. CASE j.op \in {"release", "retry"}
        <3>1. row'.status \in {"pending", "failed"} /\ row'.token = NoToken
            BY <1>0, <1>3, <2>1, <2>5, MovedTypes, VacatedType DEF Inv
        <3>2. RowSound'
            BY <3>1 DEF RowSound, Leasing
        <3>3. phase' = phase
            BY <1>3, <2>5
        <3>4. shown[j.token] = 0
            BY <1>0, <2>1, <2>5 DEF Inv, Sound, RowSound, TokenSound, JobSound, Allowed
        <3>5. phase[j.token] # "cleared"
            BY <1>0, <2>1, <2>5 DEF Inv, Sound, TokenSound, JobSound, Allowed
        <3>6. ASSUME NEW u \in Token PROVE TokenSound(u)'
            BY <1>0, <2>1, <3>1, <3>3, <3>4, <3>5 DEF Inv, Sound, TokenSound
        <3> QED
            BY <2>3, <2>4, <3>2, <3>6 DEF Inv, Sound
    <2>6. CASE j.op \notin {"release", "retry"}
        <3>1. PICK status \in {"sending", "sent", "uncertain", "skipped"} :
                 /\ status = (IF j.op = "skip" THEN "skipped" ELSE j.op)
                 /\ row' = [row EXCEPT !.status = status, !.next = Never]
            BY <1>0, <1>3, <2>1, <2>6, MovedTypes DEF Inv
        <3>2. /\ row'.status = status /\ row'.token = j.token /\ row'.by = row.by
              /\ row'.attempt = row.attempt
            BY <2>1, <3>1 DEF Row
        <3>3. /\ status = "sent" => reply[j.token] = "accepted"
              /\ status = "skipped" => reply[j.token] = "none"
              /\ status = "uncertain" => reply[j.token] = "unknown"
            BY <1>0, <2>1, <3>1 DEF JobSound, Allowed, Action, Inv, Sound, RowSound
        <3>4. RowSound'
            BY <1>0, <2>1, <2>2, <3>2, <3>3 DEF RowSound, Leasing
        <3>5. ASSUME NEW u \in Token PROVE TokenSound(u)'
            <4>1. CASE u # j.token
                BY <4>1, <1>0, <1>3, <2>1 DEF Inv, TypeOK, Sound, TokenSound
            <4>2. CASE u = j.token
                BY <4>2, <1>0, <1>3, <2>1, <3>1, <3>2, <3>3
                   DEF Inv, TypeOK, Sound, TokenSound, RowSound, Allowed, Action
            <4> QED
                BY <4>1, <4>2
        <3> QED
            BY <2>3, <2>4, <3>4, <3>5 DEF Inv, Sound
    <2> QED
        BY <2>5, <2>6
<1> QED
    BY <1>1, <1>2, <1>3 DEF TransitionWrite, j

(* the clock and steps of others, *)
LEMMA TickInv ==
    ASSUME Inv, Tick \/ UNCHANGED vars
    PROVE  Inv'
<1>1. /\ UNCHANGED <<row, work, phase, holder, reply, shown>>
      /\ now' \in 0 .. LastTime
    BY ConstantAssumption DEF Tick, vars, clientVars, Inv, TypeOK
<1>2. TypeOK'
    BY <1>1 DEF Inv, TypeOK
<1> QED
    BY <1>1, <1>2 DEF Inv, Sound, RowSound, TokenSound, JobSound, Issued

(* and thus every step. *)
LEMMA NextInv == Inv /\ [Next]_vars => Inv'
<1> SUFFICES ASSUME Inv, [Next]_vars PROVE Inv'
    OBVIOUS
<1>0. Recent \subseteq Nat
    BY DEF Recent
<1>1. ASSUME NEW c \in Claimer, Poll(c) PROVE Inv'
    BY <1>0, <1>1, ClaimNewInv, ClaimReadInv DEF Poll
<1>2. ASSUME NEW c \in Claimer, Crash(c) PROVE Inv'
    BY <1>2, CrashInv
<1>3. ASSUME NEW p \in Worker, NEW t \in Token, NEW heard \in BOOLEAN, ClaimWrite(p, t, heard) PROVE Inv'
    <2> DEFINE j == work[p]
    <2>1. /\ j.op = "claim" /\ (heard => ~j.deaf) /\ now' = now
          /\ work' = [work EXCEPT ![p] = Idle]
        BY <1>3 DEF ClaimWrite
    <2>2. CASE ClaimExpired(j) \/ ClaimExhausted(j)
        BY <2>1, <2>2, FailInv DEF ClaimExpired, ClaimExhausted
    <2>3. CASE ClaimAgain(j, heard)
        BY <2>1, <2>3, ClaimAgainInv
    <2>4. CASE ClaimLease(j, t, heard)
        BY <2>1, <2>4, ClaimLeaseInv
    <2> QED
        BY <1>3, <2>2, <2>3, <2>4 DEF ClaimWrite
<1>4. ASSUME NEW p \in Worker, NEW heard \in BOOLEAN, TransitionWrite(p, heard) PROVE Inv'
    BY <1>4, TransitionWriteInv
<1>5. ASSUME NEW p \in Worker, NEW t \in Token, NEW a \in Action, TransitionRead(p, t, a) PROVE Inv'
    BY <1>5, TransitionReadInv
<1>6. ASSUME NEW t \in Token, NEW answer \in {"accepted", "rejected", "unknown"},
             NEW seen \in BOOLEAN, Post(t, answer, seen)
      PROVE  Inv'
    BY <1>6, PostInv
<1>7. CASE Tick \/ UNCHANGED vars
    BY <1>7, TickInv
<1> QED
    BY <1>1, <1>2, <1>3, <1>4, <1>5, <1>6, <1>7 DEF Next, Answer

(* The invariant holds in every behaviour. *)
LEMMA InvHolds == Spec => []Inv
BY InitInv, NextInv, PTL DEF Spec

-----------------------------------------------------------------------------
(* The group sees the report of a date at most once, through lapsed leases,  *)
(* restarts, lost answers and requests that act on a stale read.             *)
THEOREM ShownOnce == Spec => []ShownAtMostOnce
<1>1. Inv => ShownAtMostOnce
    <2> SUFFICES ASSUME Inv PROVE ShownAtMostOnce
        OBVIOUS
    <2>1. \A t \in Token : shown[t] <= 1
        BY DEF Inv, Sound, TokenSound
    <2>2. ShownBy = {} \/ ShownBy = {row.token}
        BY DEF Inv, TypeOK, Sound, TokenSound, ShownBy
    <2>3. Cardinality(ShownBy) <= 1
        <3>1. CASE ShownBy = {}
            BY <3>1, FS_EmptySet
        <3>2. CASE ShownBy = {row.token}
            <4>1. Cardinality(ShownBy) = 1
                BY <3>2, FS_Singleton, Zenon
            <4> QED
                BY <4>1
        <3> QED
            BY <2>2, <3>1, <3>2
    <2> QED
        BY <2>1, <2>3 DEF ShownAtMostOnce
<1> QED
    BY <1>1, InvHolds, PTL

(* The status is true to what the group saw: sent means it saw the report,   *)
(* open, skipped and failed mean that it did not.                            *)
THEOREM TruthIsTold == Spec => []StatusTellsTruth
<1>1. Inv => StatusTellsTruth
    BY DEF Inv, Sound, RowSound, TokenSound, StatusTellsTruth, ShownBy, Issued, Leasing, Open
<1> QED
    BY <1>1, InvHolds, PTL

(* The next_claim_at of an answer hides no time at which a claim succeeds.   *)
THEOREM HintsCover == Spec => []HintCoversClaim
<1>1. Inv => HintCoversClaim
    <2> SUFFICES ASSUME Inv, row.status \in Open
                 PROVE  /\ \A at \in now..(Deadline - 1) : Due(row, at) => NextClaimAt(row) <= at
                        /\ NextClaimAt(row) # Never => Due(row, NextClaimAt(row) + 1)
        BY DEF HintCoversClaim
    <2> USE ConstantAssumption DEF Inv, TypeOK, Row, Due, NextClaimAt, Never
    <2>1. CASE row.status = "pending"
        BY <2>1
    <2>2. CASE row.status = "claimed"
        BY <2>2
    <2> QED
        BY <2>1, <2>2 DEF Open
<1> QED
    BY <1>1, InvHolds, PTL

-----------------------------------------------------------------------------
(* A step leaves the attempts and the tokens alone, or adds one of each. *)
Counts ==
    \/ row'.attempt = row.attempt /\ Issued' = Issued
    \/ \E t \in Token \ Issued : row'.attempt = row.attempt + 1 /\ Issued' = Issued \cup {t}

(* A step leaves a settled report and its token as they are. *)
Settles == row.status \in Settled => row'.status = row.status /\ row'.token = row.token

(* Failing a report issues no token and leaves a settled one alone. *)
LEMMA FailSteps ==
    ASSUME Inv, NEW seen, FailIfUnchanged(seen), UNCHANGED phase
    PROVE  Counts /\ Settles
<1>1. row' = row \/ (row.status \in Open /\ row' = Vacated(row, "failed", Never))
    BY FailTypes DEF Inv
<1>2. Vacated(row, "failed", Never).attempt = row.attempt
    BY VacatedType, Times DEF Inv, TypeOK
<1>3. Issued' = Issued
    BY DEF Issued
<1> QED
    BY <1>1, <1>2, <1>3 DEF Counts, Settles, Open, Settled

(* The token a claimer learns of is issued then. *)
LEMMA LearnIssues ==
    ASSUME Inv, NEW t \in Token, NEW c \in Claimer, NEW heard \in BOOLEAN, Learn(t, c, heard)
    PROVE  Issued' = Issued \cup {t}
BY LearnTypes DEF Inv, Issued

(* Every step counts the leases and leaves a settled report alone. *)
LEMMA NextSteps == Inv /\ [Next]_vars => Counts /\ Settles
<1> SUFFICES ASSUME Inv, [Next]_vars PROVE Counts /\ Settles
    OBVIOUS
<1> USE DEF Inv, TypeOK
<1>0. ASSUME UNCHANGED <<row, phase>> PROVE Counts /\ Settles
    BY <1>0 DEF Counts, Settles, Issued
<1>1. ASSUME NEW c \in Claimer, NEW t \in Token, NEW at \in Nat, NEW heard \in BOOLEAN,
             ClaimNew(c, t, at, heard)
      PROVE  Counts /\ Settles
    <2> DEFINE fresh == [row EXCEPT !.status = "pending"]
    <2>1. /\ row.status = "absent" /\ t \in Token \ Issued
          /\ fresh \in Row /\ fresh.attempt = row.attempt /\ row.attempt = 0
        BY <1>1 DEF ClaimNew, Drawn, Row, Open, Sound, RowSound, Issued
    <2> HIDE DEF fresh
    <2>2. Settles
        BY <2>1 DEF Settles, Settled
    <2>3. CASE row' = Vacated(fresh, "failed", Never) /\ UNCHANGED clientVars
        <3>1. Vacated(fresh, "failed", Never).attempt = fresh.attempt
            BY <2>1, VacatedType, Times
        <3>2. Issued' = Issued
            BY <2>3 DEF clientVars, Issued
        <3> QED
            BY <2>1, <2>2, <2>3, <3>1, <3>2 DEF Counts
    <2>4. CASE row' = fresh /\ UNCHANGED clientVars
        BY <2>1, <2>2, <2>4 DEF clientVars, Issued, Counts
    <2>5. CASE row' = Leased(fresh, c, t, at) /\ Learn(t, c, heard)
        <3>1. Leased(fresh, c, t, at).attempt = row.attempt + 1
            BY <2>1, LeasedType, Times
        <3> QED
            BY <2>1, <2>2, <2>5, <3>1, LearnIssues DEF Counts
    <2> QED
        BY <1>1, <2>3, <2>4, <2>5 DEF ClaimNew, fresh
<1>2. ASSUME NEW p \in Worker, NEW t \in Token, NEW heard \in BOOLEAN, ClaimWrite(p, t, heard)
      PROVE  Counts /\ Settles
    <2> DEFINE j == work[p]
    <2>1. j.op = "claim" /\ j \in Job /\ j.seen \in Row /\ j.who \in Claimer /\ j.at \in Nat
        BY <1>2 DEF ClaimWrite, Job, Idle
    <2>2. CASE ClaimExpired(j) \/ ClaimExhausted(j)
        BY <2>2, FailSteps DEF ClaimExpired, ClaimExhausted, clientVars
    <2>3. CASE ClaimAgain(j, heard)
        <3>1. j.seen.token \in Issued
            BY <2>1, <2>3 DEF ClaimAgain, LiveLeaseOf, Sound, JobSound
        <3>2. Issued' = Issued
            BY <2>1, <2>3, <3>1, LearnIssues DEF ClaimAgain, Issued
        <3> QED
            BY <2>3, <3>2 DEF ClaimAgain, Counts, Settles
    <2>4. CASE ClaimLease(j, t, heard)
        <3>1. t \in Token \ Issued /\ j.seen.attempt < MaxAttempts
            BY <2>4 DEF ClaimLease, Drawn, Issued
        <3>2. CASE StillDue(j.seen, j.at)
            <4>1. /\ row.status \notin Settled /\ row.attempt = j.seen.attempt
                  /\ row' = Leased(j.seen, j.who, t, j.at) /\ Learn(t, j.who, heard)
                BY <2>4, <3>2 DEF ClaimLease, StillDue, Due, Settled
            <4> HIDE DEF j
            <4>2. row'.attempt = row.attempt + 1
                BY <2>1, <3>1, <4>1, LeasedType
            <4> QED
                BY <2>1, <3>1, <4>1, <4>2, LearnIssues DEF Counts, Settles
        <3>3. CASE ~StillDue(j.seen, j.at)
            BY <2>4, <3>3, <1>0 DEF ClaimLease, clientVars
        <3> QED
            BY <3>2, <3>3
    <2> QED
        BY <1>2, <2>2, <2>3, <2>4 DEF ClaimWrite
<1>3. ASSUME NEW p \in Worker, NEW heard \in BOOLEAN, TransitionWrite(p, heard)
      PROVE  Counts /\ Settles
    <2> DEFINE j == work[p]
    <2>1. j.op \in Action /\ j \in Job
        BY <1>3 DEF TransitionWrite, Idle, Action
    <2>2. CASE FailIfUnchanged(j.seen) /\ UNCHANGED phase
        BY <2>2, FailSteps
    <2>3. CASE UNCHANGED <<row, phase>>
        BY <2>3, <1>0
    <2>4. CASE /\ StillAllowed(j)
               /\ row' = Moved(j.op, j.seen, j.at)
               /\ phase' = IF heard /\ j.op = "sending" /\ phase[j.token] = "held"
                            THEN [phase EXCEPT ![j.token] = "cleared"] ELSE phase
        <3> HIDE DEF j
        <3>1. Issued' = Issued
            BY <2>4 DEF Issued
        <3>2. row.status \in Allowed(j.op) /\ row.attempt >= 1
            BY <2>1, <2>4 DEF StillAllowed, Allowed, Action, Sound, RowSound, Leasing
        <3>3. row'.attempt = row.attempt
            BY <2>1, <2>4, <3>2, MovedTypes
        <3>4. Settles
            <4>1. CASE row.status \in Settled
                <5>1. /\ j.op \notin {"release", "retry"}
                      /\ row.status = (IF j.op = "skip" THEN "skipped" ELSE j.op)
                    BY <2>1, <3>2, <4>1 DEF Allowed, Settled, Action
                <5>2. row' = [row EXCEPT !.status = row.status, !.next = Never]
                    BY <2>1, <2>4, <3>2, <5>1, MovedTypes
                <5> QED
                    BY <5>2 DEF Settles, Row
            <4> QED
                BY <4>1 DEF Settles
        <3> QED
            BY <3>1, <3>3, <3>4 DEF Counts
    <2> QED
        BY <1>3, <2>2, <2>3, <2>4 DEF TransitionWrite
<1>4. ASSUME NEW t \in Token, NEW answer \in {"accepted", "rejected", "unknown"},
             NEW seen \in BOOLEAN, Post(t, answer, seen)
      PROVE  Counts /\ Settles
    BY <1>4 DEF Post, Counts, Settles, Issued
<1>5. ASSUME NEW c \in Claimer, Crash(c) PROVE Counts /\ Settles
    BY <1>5 DEF Crash, Counts, Settles, Issued
<1>6. ASSUME NEW c \in Claimer, Poll(c) PROVE Counts /\ Settles
    <2>1. Recent \subseteq Nat
        BY DEF Recent
    <2> QED
        BY <1>0, <1>1, <1>6, <2>1 DEF Poll, ClaimRead, clientVars
<1>7. ASSUME NEW p \in Worker, NEW t \in Token, NEW a \in Action, TransitionRead(p, t, a)
      PROVE  Counts /\ Settles
    BY <1>0, <1>7 DEF TransitionRead, clientVars
<1>8. CASE Tick \/ UNCHANGED vars
    BY <1>0, <1>8 DEF Tick, vars, clientVars
<1> QED
    BY <1>2, <1>3, <1>4, <1>5, <1>6, <1>7, <1>8 DEF Next, Answer

(* A report that is sent, uncertain, skipped or failed stays so, whatever    *)
(* request was still under way when it settled.                              *)
THEOREM SettledStays == Spec => SettledForever
<1>1. Inv /\ [Next]_vars => [Settles]_vars
    BY NextSteps
<1> QED
    BY <1>1, InvHolds, PTL DEF Spec, SettledForever, Settles

(* Issued tokens are finitely many, and attempt_count is their number. *)
CountInv == IsFiniteSet(Issued) /\ row.attempt = Cardinality(Issued)

(* attempt_count is the number of leases handed out, at most one more than   *)
(* there are retry delays, and the state has its types.                      *)
THEOREM LeasesAreCounted == Spec => []AttemptsCountLeases
<1>1. Init => CountInv
    <2> SUFFICES ASSUME Init PROVE CountInv
        OBVIOUS
    <2>1. Issued = {} /\ row.attempt = 0
        BY DEF Init, Issued
    <2> QED
        BY <2>1, FS_EmptySet DEF CountInv
<1>2. Inv /\ CountInv /\ [Next]_vars => CountInv'
    <2> SUFFICES ASSUME Inv, CountInv, [Next]_vars PROVE CountInv'
        OBVIOUS
    <2>1. Counts
        BY NextSteps
    <2>2. CASE row'.attempt = row.attempt /\ Issued' = Issued
        BY <2>2 DEF CountInv
    <2>3. ASSUME NEW t \in Token \ Issued, row'.attempt = row.attempt + 1, Issued' = Issued \cup {t}
          PROVE  CountInv'
        BY <2>3, FS_AddElement DEF CountInv
    <2> QED
        BY <2>1, <2>2, <2>3 DEF Counts
<1>3. Inv /\ CountInv => AttemptsCountLeases
    BY DEF Inv, TypeOK, Row, CountInv, AttemptsCountLeases
<1> QED
    BY <1>1, <1>2, <1>3, InvHolds, PTL DEF Spec

-----------------------------------------------------------------------------
(* The refinement of OneSender *)

Going == {"sending", "sent", "uncertain"}

Sends == Sending!Next \/ UNCHANGED <<Permit, shown>>

(* Only a report that is going out may have been seen, by its own lease. *)
LEMMA SeenGoing ==
    ASSUME Inv
    PROVE  /\ row.status \notin Going => Permit = NoToken /\ Sending!Unseen
           /\ row.status \in Going => Permit = row.token /\ row.token \in Token /\ Permit # NoToken
           /\ \A t \in Token : t # row.token => shown[t] = 0
           /\ shown \in [Token -> Nat]
<1> USE DEF Inv, TypeOK, Sound
<1>1. \A t \in Token : shown[t] \in Nat /\ (shown[t] > 0 => row.token = t /\ row.status \in Going)
    BY DEF TokenSound, Going
<1>2. row.status \in Going => row.token \in Token /\ row.token # NoToken
    BY ConstantAssumption DEF RowSound, Leasing, Issued, Going
<1> QED
    BY <1>1, <1>2 DEF Permit, Sending!Unseen, Going

(* A step of a report that is not going out, before or after, is not seen. *)
LEMMA NotGoing ==
    ASSUME shown' = shown, row.status \notin Going, row'.status \notin Going
    PROVE  Sends
BY DEF Sends, Permit, Going

LEMMA FailSends ==
    ASSUME Inv, NEW seen, FailIfUnchanged(seen), shown' = shown
    PROVE  Sends
<1>1. CASE row' = row
    BY <1>1 DEF Sends, Permit
<1>2. CASE row.status \in Open /\ row' = Vacated(row, "failed", Never)
    <2>1. row'.status = "failed"
        BY <1>2, VacatedType, Times DEF Inv, TypeOK
    <2> QED
        BY <1>2, <2>1, NotGoing DEF Open, Going
<1> QED
    BY <1>1, <1>2, FailTypes DEF Inv

(* What a claimer reports moves its own lease: to the go-ahead, which no     *)
(* other has, or back, if the chat service rejected the message.             *)
LEMMA MovedSends ==
    ASSUME Inv, NEW p \in Worker, work[p].op \in Action, StillAllowed(work[p]), shown' = shown,
           row' = Moved(work[p].op, work[p].seen, work[p].at)
    PROVE  Sends
<1> DEFINE j == work[p]
<1>1. j \in Job /\ j.op \in Action /\ JobSound(j)
    BY DEF Inv, TypeOK, Sound, Idle, Action
<1>2. row.token = j.token /\ row.status \in Allowed(j.op) /\ row \in Row
    BY DEF StillAllowed, Inv, TypeOK
<1>3. StillAllowed(j) /\ row' = Moved(j.op, j.seen, j.at)
    OBVIOUS
<1> HIDE DEF j
<1>4. row.attempt >= 1 /\ row.token \in Token
    BY <1>1, <1>2 DEF Allowed, Action, Inv, Sound, RowSound, Leasing, Issued
<1>5. CASE j.op \in {"release", "retry"}
    <2>1. PICK status \in {"pending", "failed"}, next \in Nat : row' = Vacated(row, status, next)
        BY <1>1, <1>3, <1>4, <1>5, MovedTypes DEF Inv
    <2>2. row'.status \notin Going
        BY <1>2, <2>1, VacatedType DEF Going
    <2>3. CASE j.op = "release"
        BY <1>2, <2>2, <2>3, NotGoing DEF Allowed, Going
    <2>4. CASE j.op = "retry"
        <3>1. row.status \in Going /\ shown[row.token] = 0
            BY <1>1, <1>2, <1>4, <2>4 DEF Allowed, Going, JobSound, Inv, Sound, TokenSound
        <3>2. Permit # NoToken /\ Sending!Unseen
            BY <3>1, SeenGoing DEF Sending!Unseen
        <3>3. Permit' = NoToken
            BY <2>2 DEF Permit, Going
        <3> QED
            BY <3>2, <3>3 DEF Sends, Sending!Next, Sending!GiveBack
    <2> QED
        BY <1>5, <2>3, <2>4
<1>6. CASE j.op \notin {"release", "retry"}
    <2>1. PICK status \in {"sending", "sent", "uncertain", "skipped"} :
              /\ status = (IF j.op = "skip" THEN "skipped" ELSE j.op)
              /\ row' = [row EXCEPT !.status = status, !.next = Never]
        BY <1>1, <1>3, <1>4, <1>6, MovedTypes DEF Inv
    <2>2. row'.status = status /\ row'.token = row.token
        BY <1>2, <2>1 DEF Row
    <2>3. CASE j.op = "skip"
        BY <1>2, <2>1, <2>2, <2>3, NotGoing DEF Allowed, Going
    <2>4. CASE j.op # "skip" /\ row.status \in Going
        <3>1. row'.status \in Going
            BY <1>1, <1>6, <2>1, <2>2, <2>4 DEF Going, Action
        <3> QED
            BY <2>2, <2>4, <3>1 DEF Sends, Permit, Going
    <2>5. CASE j.op # "skip" /\ row.status \notin Going
        <3>1. row'.status = "sending"
            BY <1>1, <1>2, <1>6, <2>1, <2>2, <2>5 DEF Allowed, Action, Going
        <3>2. Permit = NoToken /\ Sending!Unseen /\ Permit' = row.token
            BY <2>2, <2>5, <3>1, SeenGoing DEF Permit
        <3> QED
            BY <1>4, <3>2 DEF Sends, Sending!Next, Sending!Grant
    <2> QED
        BY <2>3, <2>4, <2>5
<1> QED
    BY <1>5, <1>6

(* A post is the message of the lease that has the go-ahead. *)
LEMMA PostSends ==
    ASSUME Inv, NEW t \in Token, NEW answer \in {"accepted", "rejected", "unknown"}, NEW seen \in BOOLEAN,
           Post(t, answer, seen)
    PROVE  Sends
<1>1. row.token = t /\ row.status = "sending" /\ shown[t] = 0 /\ row' = row
    BY DEF Inv, TypeOK, Sound, TokenSound, Post
<1>2. Permit = t /\ Permit # NoToken /\ Permit' = Permit /\ Sending!Unseen
    BY <1>1, SeenGoing DEF Permit, Going, Sending!Unseen
<1>3. CASE seen
    <2>1. shown' = [shown EXCEPT ![t] = 1]
        BY <1>1, <1>3 DEF Post
    <2> QED
        BY <1>2, <2>1 DEF Sends, Sending!Next, Sending!Show
<1>4. CASE ~seen
    BY <1>2, <1>4 DEF Sends, Post
<1> QED
    BY <1>3, <1>4

LEMMA NextSends == Inv /\ [Next]_vars => Sends
<1> SUFFICES ASSUME Inv, [Next]_vars PROVE Sends
    OBVIOUS
<1>0. ASSUME UNCHANGED <<row, shown>> PROVE Sends
    BY <1>0 DEF Sends, Permit
<1>1. ASSUME NEW c \in Claimer, NEW t \in Token, NEW at \in Nat, NEW heard \in BOOLEAN,
             ClaimNew(c, t, at, heard)
      PROVE  Sends
    <2> DEFINE fresh == [row EXCEPT !.status = "pending"]
    <2>1. row.status = "absent" /\ fresh \in Row /\ fresh.status = "pending" /\ fresh.attempt = 0
        BY <1>1 DEF ClaimNew, Inv, TypeOK, Row, Open, Sound, RowSound
    <2>2. \/ row' = Vacated(fresh, "failed", Never) \/ row' = fresh
          \/ row' = Leased(fresh, c, t, at)
        BY <1>1 DEF ClaimNew
    <2>3. shown' = shown
        BY <1>1 DEF ClaimNew, clientVars, Learn
    <2> HIDE DEF fresh
    <2>4. row'.status \in {"failed", "pending", "claimed"}
        <3>1. Vacated(fresh, "failed", Never).status = "failed"
            BY <2>1, VacatedType, Times
        <3>2. Leased(fresh, c, t, at).status = "claimed"
            BY <2>1, LeasedType, Times
        <3> QED
            BY <2>1, <2>2, <3>1, <3>2
    <2> QED
        BY <2>1, <2>3, <2>4, NotGoing DEF Going
<1>2. ASSUME NEW p \in Worker, NEW t \in Token, NEW heard \in BOOLEAN, ClaimWrite(p, t, heard)
      PROVE  Sends
    <2> DEFINE j == work[p]
    <2>1. j \in Job /\ j.seen \in Row /\ j.who \in Claimer /\ j.at \in Nat
        BY <1>2 DEF ClaimWrite, Inv, TypeOK, Job, Idle
    <2>2. CASE ClaimExpired(j) \/ ClaimExhausted(j)
        BY <2>2, FailSends DEF ClaimExpired, ClaimExhausted, clientVars
    <2>3. CASE ClaimAgain(j, heard)
        BY <2>3, <1>0 DEF ClaimAgain, Learn
    <2>4. CASE ClaimLease(j, t, heard)
        <3>1. CASE StillDue(j.seen, j.at)
            <4>1. /\ row.status \in Open /\ j.seen.attempt < MaxAttempts
                  /\ row' = Leased(j.seen, j.who, t, j.at) /\ Learn(t, j.who, heard)
                BY <2>4, <3>1 DEF ClaimLease, StillDue, Due, Open
            <4> HIDE DEF j
            <4>2. row'.status = "claimed"
                BY <2>1, <4>1, LeasedType
            <4> QED
                BY <4>1, <4>2, NotGoing DEF Open, Going, Learn
        <3>2. CASE ~StillDue(j.seen, j.at)
            BY <2>4, <3>2, <1>0 DEF ClaimLease, clientVars
        <3> QED
            BY <3>1, <3>2
    <2> QED
        BY <1>2, <2>2, <2>3, <2>4 DEF ClaimWrite
<1>3. ASSUME NEW p \in Worker, NEW heard \in BOOLEAN, TransitionWrite(p, heard)
      PROVE  Sends
    BY <1>0, <1>3, FailSends, MovedSends DEF TransitionWrite
<1>4. ASSUME NEW c \in Claimer, Poll(c) \/ Crash(c) PROVE Sends
    <2>1. Recent \subseteq Nat
        BY DEF Recent, Inv, TypeOK
    <2> QED
        BY <1>0, <1>1, <1>4, <2>1 DEF Poll, Crash, ClaimRead, clientVars
<1>5. ASSUME NEW p \in Worker, NEW t \in Token, NEW a \in Action, TransitionRead(p, t, a)
      PROVE  Sends
    BY <1>0, <1>5 DEF TransitionRead, clientVars
<1>6. CASE Tick \/ UNCHANGED vars
    BY <1>0, <1>6 DEF Tick, vars, clientVars
<1> QED
    BY <1>2, <1>3, <1>4, <1>5, <1>6, PostSends DEF Next, Answer

(* Whatever is lost, late, repeated or decided on a stale row, there is one  *)
(* go-ahead at a time, taken back only by a retry that nobody saw, and one   *)
(* message (routers/daily_reports.py, claim and transitions).                *)
THEOREM ReportHasOneSender == Spec => ImplementsOneSender
<1>1. Init => Sending!Init
    BY DEF Init, Sending!Init, Permit
<1>2. Inv /\ [Next]_vars => [Sending!Next]_Sending!vars
    BY NextSends DEF Sends, Sending!vars
<1> QED
    BY <1>1, <1>2, InvHolds, PTL DEF Spec, ImplementsOneSender, Sending!Spec
=============================================================================
