---------------------------- MODULE DailyReport ----------------------------
(***************************************************************************)
(* Delivery of the daily report of one (date, group): claim, send, retry.  *)
(* Source: routers/daily_reports.py.                                       *)
(*                                                                         *)
(* SQLite ignores SELECT ... FOR UPDATE, so a request reads the row in one *)
(* step and writes it with a conditional UPDATE in a later one; the model  *)
(* keeps the two apart.  On MySQL the row lock makes them adjacent, which  *)
(* is one of the interleavings.                                            *)
(*                                                                         *)
(* A claimer (instance_id, delivery_bot_id) is one bot process, outside    *)
(* the repository.  It may crash and restart, answers may be lost, and a   *)
(* request may be repeated or be processed late.  It reports what the chat *)
(* service told it: retry only after a rejection, sent only after success. *)
(***************************************************************************)
EXTENDS Integers, Sequences, FiniteSets

CONSTANTS
    Worker,         \* request handlers of the service
    Claimer,        \* (instance_id, delivery_bot_id) pairs
    Token,          \* claim tokens: uuid4 values, each drawn at most once
    Delays,         \* DAILY_REPORT_RETRY_DELAYS
    ClaimTimeout,   \* DAILY_REPORT_CLAIM_TIMEOUT
    Cutoff,         \* cutoff_at of the row
    Deadline,       \* _retry_deadline of the date
    Lag,            \* how far the time of a claim may lag behind its read
    LastTime,       \* where the clock of the model stops (a bound)
    NoToken, NoOne

ASSUME ConstantAssumption ==
    /\ Delays \in Seq(Nat \ {0})
    /\ ClaimTimeout \in Nat \ {0}
    /\ Cutoff \in Nat /\ Deadline \in Nat /\ Cutoff < Deadline
    /\ Lag \in Nat /\ LastTime \in Nat
    /\ NoToken \notin Token /\ NoOne \notin Claimer

MaxAttempts == 1 + Len(Delays)

Never == LastTime + Deadline + ClaimTimeout + 1   \* a NULL time

VARIABLES
    row,     \* the daily_report_deliveries row
    now,     \* the clock of the service
    work,    \* what each worker is doing
    phase,   \* what the claimer that was given a token knows about it
    holder,  \* the claimer a token was drawn for
    reply,   \* what the chat service answered to the post made with a token
    shown    \* how many messages of a token the group saw

clientVars == <<phase, holder, reply, shown>>
vars == <<row, now, work, clientVars>>

Open == {"pending", "claimed"}
Settled == {"sent", "uncertain", "skipped", "failed"}
Action == {"sending", "sent", "release", "retry", "uncertain", "skip"}

Row == [status : {"absent", "sending"} \cup Open \cup Settled, by : Claimer \cup {NoOne},
        token : Token \cup {NoToken}, claimedAt : Nat, attempt : 0..MaxAttempts, next : Nat]

Job == [op : Action \cup {"claim"}, who : Claimer, token : Token \cup {NoToken},
        at : Nat, seen : Row, deaf : BOOLEAN]

Idle == [op |-> "idle"]

(* The row has a status of the code, at most 1 + len(delays) attempts and     *)
(* times that are no earlier than the start; claimers know of leases.        *)
TypeOK ==
    /\ row \in Row
    /\ now \in 0..LastTime
    /\ work \in [Worker -> Job \cup {Idle}]
    /\ phase \in [Token -> {"unissued", "lost", "held", "cleared", "posted", "crashed"}]
    /\ holder \in [Token -> Claimer \cup {NoOne}]
    /\ reply \in [Token -> {"none", "accepted", "rejected", "unknown"}]
    /\ shown \in [Token -> Nat]

Init ==
    /\ row = [status |-> "absent", by |-> NoOne, token |-> NoToken,
              claimedAt |-> 0, attempt |-> 0, next |-> Never]
    /\ now = 0
    /\ work = [p \in Worker |-> Idle]
    /\ phase = [t \in Token |-> "unissued"]
    /\ holder = [t \in Token |-> NoOne]
    /\ reply = [t \in Token |-> "none"]
    /\ shown = [t \in Token |-> 0]

-----------------------------------------------------------------------------
(* Conditions on the row x as some request read it *)

Expired(x, at) == x.status \in Open /\ at >= Deadline

LiveLeaseOf(x, c, at) ==
    x.status = "claimed" /\ x.by = c /\ x.claimedAt >= at - ClaimTimeout

(* Mutant of Due: a lease that lapsed while sending is handed out again. *)
DueSendingToo(x, at) ==
    \/ x.status = "pending" /\ at >= Cutoff /\ (x.next = Never \/ x.next <= at)
    \/ x.status \in {"claimed", "sending"} /\ x.claimedAt < at - ClaimTimeout

Due(x, at) ==
    \/ x.status = "pending" /\ at >= Cutoff /\ (x.next = Never \/ x.next <= at)
    \/ x.status = "claimed" /\ x.claimedAt < at - ClaimTimeout

(* The row after it was given back or given up. *)
Vacated(x, status, next) ==
    [status |-> status, by |-> NoOne, token |-> NoToken, claimedAt |-> 0,
     attempt |-> x.attempt, next |-> next]

(* Mutants of FailIfUnchanged: no condition on the row; NULL tokens do not *)
(* compare equal.                                                          *)
FailBlindly(seen) == row' = Vacated(row, "failed", Never)
FailIfUnchangedToken(seen) ==
    row' = IF /\ row.status = seen.status
              /\ row.token = seen.token /\ seen.token # NoToken
              /\ row.attempt = seen.attempt
           THEN Vacated(row, "failed", Never) ELSE row

FailIfUnchanged(seen) ==
    row' = IF /\ seen.status \in Open
              /\ row.status = seen.status
              /\ row.token = seen.token
              /\ row.attempt = seen.attempt
           THEN Vacated(row, "failed", Never) ELSE row

(* Mutant of NextClaimAt: leases of others are left out. *)
NextClaimOfPending(x) ==
    IF x.status # "pending" THEN Never
    ELSE IF x.next = Never \/ x.next < Cutoff THEN Cutoff ELSE x.next

(* The hint of a claim answer: when it is worth claiming again. *)
NextClaimAt(x) ==
    LET candidate == CASE x.status = "pending" -> IF x.next = Never \/ x.next < Cutoff THEN Cutoff ELSE x.next
                       [] x.status = "claimed" -> x.claimedAt + ClaimTimeout
                       [] OTHER -> Never
    IN  IF candidate < Deadline THEN candidate ELSE Never

-----------------------------------------------------------------------------
(* Claim *)

Leased(x, c, t, at) ==
    [status |-> "claimed", by |-> c, token |-> t, claimedAt |-> at,
     attempt |-> x.attempt + 1, next |-> Never]

(* A new token.  Which one is of no consequence, so they are drawn in order. *)
Drawn(t) ==
    LET new == {u \in Token : phase[u] = "unissued"}
    IN  t \in new /\ t = CHOOSE u \in new : TRUE

(* The claimer's process learns of a lease, unless the answer is lost or the *)
(* process that asked is gone.                                               *)
Learn(t, c, heard) ==
    /\ holder' = [holder EXCEPT ![t] = c]
    /\ phase' = [phase EXCEPT ![t] =
          CASE heard /\ @ \in {"unissued", "lost", "crashed"} -> "held"
            [] ~heard /\ @ = "unissued" -> "lost"
            [] OTHER -> @]
    /\ UNCHANGED <<reply, shown>>

(* The first claim of the date and group inserts the row and goes on in the  *)
(* same transaction.  Of two at once the unique key lets one commit, and the *)
(* other starts again.                                                       *)
ClaimNew(c, t, at, heard) ==
    /\ row.status = "absent"
    /\ Drawn(t)
    /\ LET fresh == [row EXCEPT !.status = "pending"] IN
       \/ /\ at >= Deadline
          /\ row' = Vacated(fresh, "failed", Never)
          /\ UNCHANGED clientVars
       \/ /\ at < Deadline /\ ~Due(fresh, at)
          /\ row' = fresh
          /\ UNCHANGED clientVars
       \/ /\ at < Deadline /\ Due(fresh, at)
          /\ row' = Leased(fresh, c, t, at)
          /\ Learn(t, c, heard)
    /\ UNCHANGED <<now, work>>

(* A claim of a row that is none of these is answered with the hint only.    *)
ClaimRead(p, c, at) ==
    /\ work[p] = Idle
    /\ Expired(row, at) \/ LiveLeaseOf(row, c, at) \/ Due(row, at)
    /\ work' = [work EXCEPT ![p] = [op |-> "claim", who |-> c, token |-> NoToken,
                                    at |-> at, seen |-> row, deaf |-> FALSE]]
    /\ UNCHANGED <<row, now, clientVars>>

ClaimExpired(j) ==
    /\ Expired(j.seen, j.at)
    /\ FailIfUnchanged(j.seen)
    /\ UNCHANGED clientVars

(* The answer to an earlier claim was lost: the lease is answered again. *)
ClaimAgain(j, heard) ==
    /\ ~Expired(j.seen, j.at)
    /\ LiveLeaseOf(j.seen, j.who, j.at)
    /\ Learn(j.seen.token, j.who, heard)
    /\ UNCHANGED row

ClaimExhausted(j) ==
    /\ ~Expired(j.seen, j.at)
    /\ Due(j.seen, j.at)
    /\ j.seen.attempt >= MaxAttempts
    /\ FailIfUnchanged(j.seen)
    /\ UNCHANGED clientVars

(* Mutant of StillDue: the UPDATE has no condition. *)
StillDueUnchecked(seen, at) == TRUE

(* The conditional UPDATE: the row still has the attempt count that was read *)
(* and is still due.                                                         *)
StillDue(seen, at) == row.attempt = seen.attempt /\ Due(row, at)

ClaimLease(j, t, heard) ==
    /\ ~Expired(j.seen, j.at)
    /\ ~LiveLeaseOf(j.seen, j.who, j.at)
    /\ Due(j.seen, j.at)
    /\ j.seen.attempt < MaxAttempts
    /\ Drawn(t)
    /\ IF StillDue(j.seen, j.at)
       THEN row' = Leased(j.seen, j.who, t, j.at) /\ Learn(t, j.who, heard)
       ELSE UNCHANGED <<row, clientVars>>

ClaimWrite(p, t, heard) ==
    LET j == work[p] IN
    /\ j.op = "claim"
    /\ heard => ~j.deaf
    /\ \/ ClaimExpired(j)
       \/ ClaimAgain(j, heard)
       \/ ClaimExhausted(j)
       \/ ClaimLease(j, t, heard)
    /\ work' = [work EXCEPT ![p] = Idle]
    /\ UNCHANGED now

-----------------------------------------------------------------------------
(* Transition *)

(* Mutant of Allowed: a release may also follow the send. *)
AllowedLateRelease(a) ==
    CASE a \in {"sending", "release"} -> {"claimed", "sending"}
      [] a = "sent"      -> {"sending", "sent"}
      [] a = "retry"     -> {"sending"}
      [] a = "uncertain" -> {"sending", "uncertain"}
      [] a = "skip"      -> {"claimed", "skipped"}

Allowed(a) ==
    CASE a = "sending"   -> {"claimed", "sending"}
      [] a = "sent"      -> {"sending", "sent"}
      [] a = "release"   -> {"claimed"}
      [] a = "retry"     -> {"sending"}
      [] a = "uncertain" -> {"sending", "uncertain"}
      [] a = "skip"      -> {"claimed", "skipped"}

(* Mutant of GivenBack: the delay counts backwards. *)
GivenBackEarly(seen, at) ==
    IF seen.attempt > Len(Delays) THEN Vacated(row, "failed", Never)
    ELSE Vacated(row, "pending", at - Delays[seen.attempt])

(* Back to pending after the delay of this attempt, or failed when there is  *)
(* no attempt or no time left.                                               *)
GivenBack(seen, at) ==
    LET n == seen.attempt
        due == at + Delays[n]
    IN  IF n > Len(Delays) \/ due >= Deadline
        THEN Vacated(row, "failed", Never)
        ELSE Vacated(row, "pending", due)

Moved(a, seen, at) ==
    CASE a \in {"release", "retry"} -> GivenBack(seen, at)
      [] a = "skip" -> [row EXCEPT !.status = "skipped", !.next = Never]
      [] OTHER -> [row EXCEPT !.status = a, !.next = Never]

(* What a claimer may have asked for a lease, now or earlier. *)
Asks(t, a) ==
    /\ phase[t] \notin {"unissued", "lost"}
    /\ a = "sent" => reply[t] = "accepted"
    /\ a = "retry" => reply[t] = "rejected"
    /\ a = "uncertain" => reply[t] = "unknown"

Timed == {"sending", "release", "retry"}   \* whose outcome depends on the time

(* A request whose token or status does not match is refused and changes     *)
(* nothing, so only the others are of interest.                              *)
TransitionRead(p, t, a) ==
    /\ work[p] = Idle
    /\ Asks(t, a)
    /\ row.token = t
    /\ row.status \in Allowed(a)
    /\ work' = [work EXCEPT ![p] = [op |-> a, who |-> holder[t], token |-> t, seen |-> row,
                                    at |-> IF a \in Timed THEN now ELSE 0, deaf |-> FALSE]]
    /\ UNCHANGED <<row, now, clientVars>>

TooLate(j) == j.op = "sending" /\ j.seen.status = "claimed" /\ j.at >= Deadline

StillAllowed(j) ==
    /\ row.token = j.token
    /\ row.status \in Allowed(j.op)
    /\ row.attempt = j.seen.attempt

TransitionWrite(p, heard) ==
    LET j == work[p] IN
    /\ j.op \in Action
    /\ heard => ~j.deaf
    /\ \/ TooLate(j) /\ FailIfUnchanged(j.seen) /\ UNCHANGED phase
       \/ ~TooLate(j) /\ ~StillAllowed(j) /\ UNCHANGED <<row, phase>>
       \/ /\ ~TooLate(j) /\ StillAllowed(j)
          /\ row' = Moved(j.op, j.seen, j.at)
          /\ phase' = IF heard /\ j.op = "sending" /\ phase[j.token] = "held"
                      THEN [phase EXCEPT ![j.token] = "cleared"] ELSE phase
    /\ work' = [work EXCEPT ![p] = Idle]
    /\ UNCHANGED <<now, holder, reply, shown>>

-----------------------------------------------------------------------------
(* The claimer and the chat service *)

Post(t, answer, seen) ==
    /\ phase[t] = "cleared"
    /\ answer = "accepted" => seen
    /\ answer = "rejected" => ~seen
    /\ phase' = [phase EXCEPT ![t] = "posted"]
    /\ reply' = [reply EXCEPT ![t] = answer]
    /\ shown' = IF seen THEN [shown EXCEPT ![t] = @ + 1] ELSE shown
    /\ UNCHANGED <<row, now, work, holder>>

(* The process restarts: it forgets its leases and hears no answer to what   *)
(* it asked before (of these only a lease and a go-ahead would move it).     *)
Crash(c) ==
    /\ phase' = [t \in Token |-> IF holder[t] = c /\ phase[t] \in {"held", "cleared", "posted"}
                                 THEN "crashed" ELSE phase[t]]
    /\ work' = [p \in Worker |-> IF work[p].op \in {"claim", "sending"} /\ work[p].who = c
                                 THEN [work[p] EXCEPT !.deaf = TRUE] ELSE work[p]]
    /\ UNCHANGED <<row, now, holder, reply, shown>>

Tick ==
    /\ now < LastTime
    /\ now' = now + 1
    /\ UNCHANGED <<row, work, clientVars>>

Recent == {at \in 0..now : at >= now - Lag}

Poll(c) ==
    \/ \E t \in Token, at \in Recent, heard \in BOOLEAN : ClaimNew(c, t, at, heard)
    \/ \E p \in Worker, at \in Recent : ClaimRead(p, c, at)

Answer(p) ==
    \/ \E t \in Token, heard \in BOOLEAN : ClaimWrite(p, t, heard)
    \/ \E heard \in BOOLEAN : TransitionWrite(p, heard)

Next ==
    \/ \E c \in Claimer : Poll(c) \/ Crash(c)
    \/ \E p \in Worker : Answer(p)
    \/ \E p \in Worker, t \in Token, a \in Action : TransitionRead(p, t, a)
    \/ \E t \in Token, answer \in {"accepted", "rejected", "unknown"}, seen \in BOOLEAN :
          Post(t, answer, seen)
    \/ Tick

Spec == Init /\ [][Next]_vars

(* The clock runs, every worker finishes, and polling as a whole is not      *)
(* starved: some poll is taken up if a worker is free again and again.       *)
Fairness ==
    /\ WF_vars(Tick)
    /\ \A p \in Worker : WF_vars(Answer(p))
    /\ SF_vars(\E c \in Claimer : Poll(c))

FairSpec == Spec /\ Fairness

-----------------------------------------------------------------------------
(* Properties *)

Issued == {t \in Token : phase[t] # "unissued"}

ShownBy == {t \in Token : shown[t] > 0}

(* The group sees the report at most once, through lapsed leases, restarts,  *)
(* lost answers and late requests: a row that is sending is never leased     *)
(* again, and an answered-again lease belongs to the process that asked.     *)
ShownAtMostOnce == Cardinality(ShownBy) <= 1 /\ \A t \in Token : shown[t] <= 1

(* What the row claims is what happened: sent means the group saw it, and    *)
(* a row that is skipped, failed or up for another attempt means it did not. *)
StatusTellsTruth ==
    /\ row.status = "sent" => ShownBy # {}
    /\ row.status \in Open \cup {"absent", "skipped", "failed"} => ShownBy = {}

(* attempt_count counts the leases handed out, also when two workers decide  *)
(* on the same snapshot, so no more than 1 + len(delays) are ever made; the  *)
(* state has its types.                                                      *)
AttemptsCountLeases ==
    TypeOK /\ row.attempt = Cardinality(Issued) /\ row.attempt <= MaxAttempts

(* A claimer that sleeps until the hint misses nothing: if the row stays as  *)
(* it is, nothing is claimable before the hint (or at all, without one), and *)
(* it is claimable no more than a tick after it.                             *)
HintCoversClaim ==
    LET hint == NextClaimAt(row) IN
    row.status \in Open =>
        /\ \A at \in now..(Deadline - 1) : Due(row, at) => hint <= at
        /\ hint # Never => Due(row, hint + 1)

(* A settled report stays settled, whatever request was still under way.     *)
SettledForever ==
    [][row.status \in Settled => row'.status = row.status /\ row'.token = row.token]_vars

(* No report waits for ever: with claimers that poll and a clock that runs,  *)
(* it is sent, handed to a sender, skipped or failed.                        *)
NeverStuckOpen ==
    (row.status \in Open \cup {"absent"}) ~> (row.status \notin Open \cup {"absent"})

(* The lease that was told to send and has not given that back. *)
Permit == IF row.status \in {"sending", "sent", "uncertain"} THEN row.token ELSE NoToken

Sending == INSTANCE OneSender WITH permit <- Permit

(* There is one go-ahead at a time; it is given back (retry) only if the     *)
(* group saw nothing, and never taken away; whoever has it shows the report  *)
(* once, and nobody else does: not after a lapsed lease, a lost answer, a    *)
(* restart, or a request that was decided on a row read before.              *)
ImplementsOneSender == Sending!Spec
=============================================================================
