------------------------ MODULE ReservationDelivery ------------------------
(***************************************************************************)
(* Delivery of roast reservations: from the moment a reservation waits for *)
(* its target to the moment its result is in the group chat and recorded.  *)
(*                                                                         *)
(* The server side is one row per reservation, changed by the handlers of  *)
(* routers/roast_reservations.py.  A handler reads the row (SELECT ... FOR *)
(* UPDATE), decides, and commits once; the commit is the action.  On MySQL *)
(* (RowLocks) nobody changes the row in between, so the handler decides on *)
(* the row as it is.  SQLite ignores FOR UPDATE: there /sending, /outcome, *)
(* /complete, /release, /events, activation and the /claim of old clients  *)
(* decide on a version of the row that may have been overtaken, and their  *)
(* UPDATE ... WHERE id = ? writes the columns they changed all the same.   *)
(* Takeovers, protection changes, /outcome/prepare and the /claim of v2    *)
(* clients write first, which takes SQLite's write lock, and then read.    *)
(*                                                                         *)
(* A transaction that fails rolls back and changes nothing: it is a step   *)
(* that does not happen.  A request the server refuses (ok = False) does   *)
(* not change the row either.                                              *)
(*                                                                         *)
(* The chat bots ("Plus") are outside the repository.  A bot process is    *)
(* known to the server by the claim token of each lease; the model keeps   *)
(* what a process knows about a lease.  Requests may be processed after    *)
(* the process gave up, be processed twice, and answers may be lost.       *)
(***************************************************************************)
EXTENDS Integers, FiniteSets

CONSTANTS
    Rsv,        \* reservations
    Bot,        \* delivery_bot_id values
    Token,      \* claim tokens: uuid4 values, each drawn at most once
    User,       \* chat users
    Outcome,    \* outcome_snapshot values
    Success,    \* the snapshot whose event_type is "success"
    Roast,      \* the feed source of an immediate roast (POST /events)
    NoOutcome, NoToken, NoUser, NoFeed,
    Eaters,     \* Eaters[r]: members of r that settle a daily feed on success
    Growable,   \* users with a real roll today and below the expert level cap
    RowLocks    \* whether SELECT ... FOR UPDATE locks the row (MySQL)

Kind == {"legacy", "prepared", "gathering"}

ASSUME ConstantAssumption ==
    /\ Rsv # {} /\ Bot # {}
    /\ Success \in Outcome
    /\ NoOutcome \notin Outcome
    /\ NoToken \notin Token
    /\ NoUser \notin User
    /\ Roast \notin Rsv /\ NoFeed \notin Rsv /\ Roast # NoFeed
    /\ Eaters \in [Rsv -> SUBSET User]
    /\ Growable \in SUBSET User
    /\ RowLocks \in BOOLEAN

VARIABLES
    (* roast_reservations *)
    status, bot, capable, claimToken, stale, outcome, feedResults,
    gathering, operator,
    (* group_protections, user_daily_feed, user_pig_progress, roast_events *)
    shielded, hits, fed, growth, events,
    (* what a bot process knows about a lease it obtained *)
    phase, of, holder, kind, said,
    (* versions of a row that a request may have read and not acted on yet *)
    earlier

rowVars   == <<status, bot, capable, claimToken, stale, outcome, feedResults,
               gathering, operator>>
tableVars == <<shielded, hits, fed, growth, events>>
leaseVars == <<phase, of, holder, kind, said>>
vars      == <<rowVars, tableVars, leaseVars, earlier>>

Status == {"pending", "ready", "processing", "prepared", "sending", "completed"}

(* A lease is unissued, then lost (the answer never arrived), held (claimed, *)
(* no result yet), acked (the server confirmed a result), cleared (the       *)
(* server allowed the send), sent, done (the completion was confirmed), or   *)
(* dropped (the process gave up or crashed before sending).                  *)
Phase == {"unissued", "lost", "held", "acked", "cleared", "sent", "done",
          "dropped"}

(* What a handler reads of a reservation.  open: old clients may have it;    *)
(* recorded: roast_events has an event of it.                                *)
View == [status : Status, token : Token \cup {NoToken}, outcome : Outcome \cup {NoOutcome},
         bot : Bot, stale : BOOLEAN, open : BOOLEAN, recorded : BOOLEAN]

(* The columns of a reservation, the shared tables and what each process     *)
(* knows have values the code can produce.                                   *)
TypeOK ==
    /\ status \in [Rsv -> Status]
    /\ bot \in [Rsv -> Bot]
    /\ capable \in SUBSET Rsv
    /\ claimToken \in [Rsv -> Token \cup {NoToken}]
    /\ stale \in SUBSET Rsv
    /\ outcome \in [Rsv -> Outcome \cup {NoOutcome}]
    /\ feedResults \in [Rsv -> SUBSET User]
    /\ gathering \in SUBSET Rsv
    /\ operator \in [Rsv -> User \cup {NoUser}]
    /\ shielded \in SUBSET Rsv
    /\ hits \in [Rsv -> Nat]
    /\ fed \in [User -> Rsv \cup {Roast, NoFeed}]
    /\ growth \in [User -> Nat]
    /\ events \in [Rsv -> [Outcome -> Nat]]
    /\ phase \in [Token -> Phase]
    /\ of \in [Token -> Rsv]
    /\ holder \in [Token -> Bot]
    /\ kind \in [Token -> Kind]
    /\ said \in [Token -> Outcome \cup {NoOutcome}]
    /\ earlier \in [Rsv -> SUBSET View]

Init ==
    /\ status = [r \in Rsv |-> "pending"]
    /\ bot \in [Rsv -> Bot]
    /\ capable \in SUBSET Rsv
    /\ claimToken = [r \in Rsv |-> NoToken]
    /\ stale = {}
    /\ outcome = [r \in Rsv |-> NoOutcome]
    /\ feedResults = [r \in Rsv |-> {}]
    /\ gathering \in SUBSET Rsv
    /\ operator = [r \in Rsv |-> NoUser]
    /\ shielded = gathering
    /\ hits = [r \in Rsv |-> 0]
    /\ fed = [u \in User |-> NoFeed]
    /\ growth = [u \in User |-> 0]
    /\ events = [r \in Rsv |-> [o \in Outcome |-> 0]]
    /\ phase = [t \in Token |-> "unissued"]
    /\ of = [t \in Token |-> CHOOSE r \in Rsv : TRUE]
    /\ holder = [t \in Token |-> CHOOSE b \in Bot : TRUE]
    /\ kind = [t \in Token |-> "legacy"]
    /\ said = [t \in Token |-> NoOutcome]
    /\ earlier = [r \in Rsv |-> {}]

-----------------------------------------------------------------------------
(* What requests read. *)

Recorded(r) == \E o \in Outcome : events[r][o] > 0

Row(r) == [status |-> status[r], token |-> claimToken[r], outcome |-> outcome[r],
           bot |-> bot[r], stale |-> r \in stale,
           open |-> r \notin gathering /\ operator[r] = NoUser,
           recorded |-> Recorded(r)]

(* Mutant of ReadsLock: a SELECT without FOR UPDATE. *)
ReadsLockNothing == FALSE

ReadsLock == RowLocks

(* The versions a handler may decide on when it commits.  Without the lock   *)
(* it may have read the row any time before: how long a request takes is not *)
(* bounded.                                                                  *)
Readable(r) == IF ReadsLock THEN {Row(r)} ELSE {Row(r)} \cup earlier[r]

(* What a step overwrites may have been read before. *)
Remember ==
    earlier' = IF ReadsLock THEN earlier ELSE [r \in Rsv |-> earlier[r] \cup {Row(r)}]

-----------------------------------------------------------------------------
(* Before the first claim.  Module Gathering has the conditions under which *)
(* a reservation fires; here they are a choice.                             *)

(* The target arrived and the conditions of the reservation, read as v, are  *)
(* met.                                                                      *)
Activate(r, v) ==
    /\ v.status = "pending"
    /\ Remember
    /\ status' = [status EXCEPT ![r] = "ready"]
    /\ UNCHANGED <<bot, capable, claimToken, stale, outcome, feedResults,
                   gathering, operator, tableVars, leaseVars>>

(* Mutant of TakeOver: no check that the reservation still waits. *)
TakeOverAnytime(r, b, u, arrived) ==
    /\ operator[r] = NoUser
    /\ Remember
    /\ operator' = [operator EXCEPT ![r] = u]
    /\ bot' = [bot EXCEPT ![r] = b]
    /\ capable' = capable \cup {r}
    /\ UNCHANGED <<status, claimToken, stale, outcome, feedResults, gathering,
                   tableVars, leaseVars>>

(* A privileged user takes a waiting reservation over; it fires at once when *)
(* the target has arrived already.                                           *)
TakeOver(r, b, u, arrived) ==
    /\ status[r] = "pending"
    /\ operator[r] = NoUser
    /\ Remember
    /\ operator' = [operator EXCEPT ![r] = u]
    /\ bot' = [bot EXCEPT ![r] = b]
    /\ capable' = capable \cup {r}
    /\ status' = [status EXCEPT ![r] = IF arrived THEN "ready" ELSE @]
    /\ UNCHANGED <<claimToken, stale, outcome, feedResults, gathering,
                   tableVars, leaseVars>>

(* Protection of the target is granted or withdrawn.  Waiting reservations  *)
(* follow unless taken over; one whose target has arrived may fire.         *)
ProtectionChange(r, on, fires) ==
    /\ Remember
    /\ shielded' = IF on THEN shielded \cup {r} ELSE shielded \ {r}
    /\ LET follows == status[r] = "pending" /\ operator[r] = NoUser IN
       /\ gathering' = IF ~follows THEN gathering
                       ELSE IF on THEN gathering \cup {r} ELSE gathering \ {r}
       /\ fires => follows
    /\ status' = [status EXCEPT ![r] = IF fires THEN "ready" ELSE @]
    /\ UNCHANGED <<bot, capable, claimToken, stale, outcome, feedResults,
                   operator, hits, fed, growth, events, leaseVars>>

CanReassign(r) ==
    /\ r \in gathering
    /\ operator[r] = NoUser
    /\ r \notin capable
    /\ status[r] \in {"pending", "ready"}
    /\ outcome[r] = NoOutcome
    /\ claimToken[r] = NoToken

(* A v2 client takes part in (or runs into) the reservation: it becomes the *)
(* sender of a protected row whose sender cannot gather, or declares the    *)
(* capability of the sender it already is.                                  *)
UpdateDeliveryCapability(r, b) ==
    /\ \/ CanReassign(r)
       \/ status[r] = "pending" /\ operator[r] = NoUser /\ bot[r] = b
    /\ Remember
    /\ bot' = [bot EXCEPT ![r] = b]
    /\ capable' = capable \cup {r}
    /\ UNCHANGED <<status, claimToken, stale, outcome, feedResults, gathering,
                   operator, tableVars, leaseVars>>

-----------------------------------------------------------------------------
(* Claiming *)

Leased(s) == s \in {"processing", "prepared"}

(* claimed_at falls behind ROAST_RESERVATION_CLAIM_TIMEOUT. *)
LeaseLapse(r) ==
    /\ Leased(status[r])
    /\ r \notin stale
    /\ Remember
    /\ stale' = stale \cup {r}
    /\ UNCHANGED <<status, bot, capable, claimToken, outcome, feedResults,
                   gathering, operator, tableVars, leaseVars>>

(* Mutant of Claimable: a stale lease with a frozen result is forgotten. *)
ClaimableUnprepared(v, b, k) ==
    /\ v.bot = b
    /\ v.status = "ready" \/ (v.status = "processing" /\ v.stale)
    /\ k # "gathering" => v.open

Claimable(v, b, k) ==
    /\ v.bot = b
    /\ v.status = "ready" \/ (Leased(v.status) /\ v.stale)
    /\ k # "gathering" => v.open

Unissued == {t \in Token : phase[t] = "unissued"}

(* Mutant of StatusOnClaim: every claim starts over. *)
StatusOnClaimAfresh(v, k) == "processing"

StatusOnClaim(v, k) ==
    IF v.outcome = NoOutcome THEN "processing"
    ELSE IF k = "legacy" THEN "sending" ELSE "prepared"

PhaseOnClaim(v, k, heard) ==
    IF ~heard THEN "lost"
    ELSE IF v.outcome = NoOutcome THEN "held"
    ELSE IF k = "legacy" THEN "cleared" ELSE "acked"

Rows(S) == [r \in S |-> Row(r)]

(* What the query of a claim of kind k may have returned for the rows S: a   *)
(* v2 client declares its capability with an UPDATE before it.               *)
ClaimReads(k, S) ==
    IF k = "gathering" THEN {Rows(S)}
    ELSE {seen \in [S -> UNION {Readable(r) : r \in S}] : \A r \in S : seen[r] \in Readable(r)}

(* One /claim: bot b, client kind k, the rows S that the limit and the      *)
(* exclusion list leave, read as seen, a fresh token for each.  The status  *)
(* is written only where it differs from the one read.                      *)
Claim(b, k, S, seen, fresh, heard) ==
    /\ \A r \in S : Claimable(seen[r], b, k)
    /\ fresh \in [S -> Unissued]
    /\ \A r, q \in S : fresh[r] = fresh[q] => r = q
    /\ Remember
    /\ capable' = IF k = "gathering"
                  THEN capable \cup {r \in Rsv : bot[r] = b /\ status[r] \in {"pending", "ready"}}
                  ELSE capable
    /\ status' = [r \in Rsv |-> IF r \in S /\ StatusOnClaim(seen[r], k) # seen[r].status
                                THEN StatusOnClaim(seen[r], k) ELSE status[r]]
    /\ claimToken' = [r \in Rsv |-> IF r \in S THEN fresh[r] ELSE claimToken[r]]
    /\ stale' = stale \ S
    /\ LET For(t) == {r \in S : fresh[r] = t}
           row(t) == CHOOSE r \in For(t) : TRUE
       IN  /\ phase' = [t \in Token |-> IF For(t) # {} THEN PhaseOnClaim(seen[row(t)], k, heard) ELSE phase[t]]
           /\ of' = [t \in Token |-> IF For(t) # {} THEN row(t) ELSE of[t]]
           /\ holder' = [t \in Token |-> IF For(t) # {} THEN b ELSE holder[t]]
           /\ kind' = [t \in Token |-> IF For(t) # {} THEN k ELSE kind[t]]
           /\ said' = [t \in Token |-> IF For(t) # {} THEN seen[row(t)].outcome ELSE said[t]]
    /\ UNCHANGED <<bot, outcome, feedResults, gathering, operator, tableVars>>

-----------------------------------------------------------------------------
(* Results *)

Known(t) == phase[t] \notin {"unissued", "lost"}

(* The client got the answer: it acts on it only where it was waiting. *)
Hear(t, heard, from, to, o) ==
    /\ heard => phase[t] \in from
    /\ phase' = IF heard THEN [phase EXCEPT ![t] = to] ELSE phase
    /\ said' = IF heard THEN [said EXCEPT ![t] = o] ELSE said
    /\ UNCHANGED <<of, holder, kind>>

(* Mutant of FeedNow: no look at the feed row of the day. *)
FeedNowAgain(r, o, settle) ==
    IF settle /\ o = Success THEN (Eaters[r] \ {operator[r]}) \cap Growable ELSE {}

(* Members whose growth this settlement pays: the unique feed row of the day *)
(* is still free.  An operator is excluded from the row they took over.      *)
FeedNow(r, o, settle) ==
    IF settle /\ o = Success
    THEN {u \in (Eaters[r] \ {operator[r]}) \cap Growable : fed[u] = NoFeed}
    ELSE {}

Freeze(r, o, settle) ==
    LET lucky == FeedNow(r, o, settle)
        broken == r \in gathering \cap shielded /\ o = Success
    IN  /\ outcome' = [outcome EXCEPT ![r] = o]
        /\ feedResults' = [feedResults EXCEPT ![r] = lucky]
        /\ hits' = [hits EXCEPT ![r] = IF broken THEN @ + 1 ELSE @]
        /\ fed' = [u \in User |-> IF u \in lucky THEN r ELSE fed[u]]
        /\ growth' = [u \in User |-> IF u \in lucky THEN growth[u] + 1 ELSE growth[u]]

(* Mutant of PrepareOutcome: a later result replaces the frozen one. *)
PrepareOutcomeReplaces(t, o, settle, heard) ==
    LET r == of[t] IN
    /\ Known(t) /\ kind[t] # "legacy"
    /\ claimToken[r] = t
    /\ Remember
    /\ status[r] \in {"processing", "prepared", "sending", "completed"}
    /\ Freeze(r, o, settle)
    /\ status' = [status EXCEPT ![r] = IF @ = "processing" THEN "prepared" ELSE @]
    /\ Hear(t, heard, {"held"}, "acked", o)
    /\ UNCHANGED <<bot, capable, claimToken, stale, gathering, operator, shielded, events>>

PrepareOutcome(t, o, settle, heard) ==
    LET r == of[t] IN
    /\ Known(t) /\ kind[t] # "legacy"
    /\ claimToken[r] = t
    /\ Remember
    /\ status[r] \in {"processing", "prepared", "sending", "completed"}
    /\ \/ outcome[r] = NoOutcome /\ status[r] = "processing" /\ Freeze(r, o, settle)
       \/ outcome[r] = o /\ UNCHANGED <<outcome, feedResults, hits, fed, growth>>
    /\ status' = [status EXCEPT ![r] = IF @ = "processing" THEN "prepared" ELSE @]
    /\ Hear(t, heard, {"held"}, "acked", o)
    /\ UNCHANGED <<bot, capable, claimToken, stale, gathering, operator, shielded, events>>

(* The old clients' /outcome: the send follows at once, no feed is settled. *)
SaveOutcome(t, v, o, heard) ==
    LET r == of[t] IN
    /\ Known(t) /\ kind[t] = "legacy"
    /\ v.token = t
    /\ v.status \in {"processing", "sending", "completed"}
    /\ Remember
    /\ \/ v.outcome = NoOutcome /\ v.status = "processing" /\ outcome' = [outcome EXCEPT ![r] = o]
       \/ v.outcome = o /\ UNCHANGED outcome
    /\ status' = [status EXCEPT ![r] = IF v.status = "processing" THEN "sending" ELSE @]
    /\ Hear(t, heard, {"held"}, "cleared", o)
    /\ UNCHANGED <<bot, capable, claimToken, stale, feedResults, gathering, operator, tableVars>>

MarkSending(t, v, heard) ==
    LET r == of[t] IN
    /\ Known(t) /\ kind[t] # "legacy"
    /\ v.token = t
    /\ v.status \in {"prepared", "sending", "completed"}
    /\ v.outcome # NoOutcome
    /\ Remember
    /\ status' = [status EXCEPT ![r] = IF v.status = "prepared" THEN "sending" ELSE @]
    /\ Hear(t, heard, {"acked"}, "cleared", said[t])
    /\ UNCHANGED <<bot, capable, claimToken, stale, outcome, feedResults, gathering, operator, tableVars>>

(* The bot posts the message in the group. *)
Post(t) ==
    /\ phase[t] = "cleared"
    /\ phase' = [phase EXCEPT ![t] = "sent"]
    /\ UNCHANGED <<of, holder, kind, said, rowVars, tableVars, earlier>>

(* The event of a reservation is written unless the request saw one.  No     *)
(* unique key keeps a second one out: the lock on the reservation has to.    *)
RecordEvent(r, v, o) ==
    events' = IF v.recorded THEN events ELSE [events EXCEPT ![r][o] = @ + 1]

Complete(t, v, withEvent, heard) ==
    LET r == of[t] IN
    /\ phase[t] \in {"sent", "done"}
    /\ v.token = t
    /\ v.status \in {"sending", "completed"}
    /\ Remember
    /\ status' = [status EXCEPT ![r] = IF v.status = "completed" THEN @ ELSE "completed"]
    /\ IF withEvent THEN RecordEvent(r, v, said[t]) ELSE UNCHANGED events
    /\ Hear(t, heard, {"sent"}, "done", said[t])
    /\ UNCHANGED <<bot, capable, claimToken, stale, outcome, feedResults, gathering, operator,
                   shielded, hits, fed, growth>>

(* POST /events of an old client, with the reservation's id. *)
LegacyEvent(t, v) ==
    /\ phase[t] \in {"sent", "done"}
    /\ Remember
    /\ RecordEvent(of[t], v, said[t])
    /\ UNCHANGED <<rowVars, shielded, hits, fed, growth, leaseVars>>

(* The process gives the lease up; its /release may arrive late or twice. *)
Release(t, v) ==
    LET r == of[t] IN
    /\ phase[t] \in {"held", "acked", "dropped"}
    /\ v.token = t
    /\ Leased(v.status)
    /\ Remember
    /\ status' = [status EXCEPT ![r] = "ready"]
    /\ claimToken' = [claimToken EXCEPT ![r] = NoToken]
    /\ stale' = stale \ {r}
    /\ phase' = [phase EXCEPT ![t] = "dropped"]
    /\ UNCHANGED <<bot, capable, outcome, feedResults, gathering, operator, tableVars, of, holder, kind, said>>

(* The process crashes, or its request was refused and it forgets the lease. *)
Drop(t) ==
    /\ phase[t] \in {"held", "acked", "cleared"}
    /\ phase' = [phase EXCEPT ![t] = "dropped"]
    /\ UNCHANGED <<of, holder, kind, said, rowVars, tableVars, earlier>>

(* An immediate roast elsewhere feeds its attacker (POST /events). *)
RoastFeed(u) ==
    /\ u \in Growable /\ fed[u] = NoFeed
    /\ fed' = [fed EXCEPT ![u] = Roast]
    /\ growth' = [growth EXCEPT ![u] = @ + 1]
    /\ UNCHANGED <<rowVars, shielded, hits, events, leaseVars, earlier>>

-----------------------------------------------------------------------------
RowStep(r) ==
    \/ \E v \in Readable(r) : Activate(r, v)
    \/ LeaseLapse(r)
    \/ \E b \in Bot, u \in User, arrived \in BOOLEAN : TakeOver(r, b, u, arrived)
    \/ \E b \in Bot : UpdateDeliveryCapability(r, b)
    \/ \E on, fires \in BOOLEAN : ProtectionChange(r, on, fires)

ClaimStep ==
    \E b \in Bot, k \in Kind, S \in SUBSET Rsv, heard \in BOOLEAN :
        \E seen \in ClaimReads(k, S), fresh \in [S -> Unissued] : Claim(b, k, S, seen, fresh, heard)

LeaseStep(t) ==
    \/ \E o \in Outcome, settle, heard \in BOOLEAN : PrepareOutcome(t, o, settle, heard)
    \/ \E v \in Readable(of[t]), o \in Outcome, heard \in BOOLEAN : SaveOutcome(t, v, o, heard)
    \/ \E v \in Readable(of[t]), heard \in BOOLEAN : MarkSending(t, v, heard)
    \/ Post(t)
    \/ \E v \in Readable(of[t]), withEvent, heard \in BOOLEAN : Complete(t, v, withEvent, heard)
    \/ \E v \in Readable(of[t]) : LegacyEvent(t, v)
    \/ \E v \in Readable(of[t]) : Release(t, v)
    \/ Drop(t)

Next ==
    \/ \E r \in Rsv : RowStep(r)
    \/ ClaimStep
    \/ \E t \in Token : LeaseStep(t)
    \/ \E u \in User : RoastFeed(u)

Spec == Init /\ [][Next]_vars

(* Clocks advance, and the v2 client of a row's own bot keeps polling. *)
Poll(r) ==
    \E b \in Bot, t \in Unissued : Claim(b, "gathering", {r}, Rows({r}), [q \in {r} |-> t], TRUE)

Fairness == \A r \in Rsv : WF_vars(LeaseLapse(r)) /\ WF_vars(Poll(r))

FairSpec == Spec /\ Fairness

-----------------------------------------------------------------------------
(* Properties *)

Posted(r) == {t \in Token : of[t] = r /\ phase[t] \in {"sent", "done"}}

(* No interleaving of lapsed leases, re-claims, lost answers and late        *)
(* requests lets two leases of a reservation both post its result: /sending  *)
(* and /outcome check the token under the row lock (MySQL), and /claim never *)
(* hands out a row that is sending.                                          *)
AtMostOneSend == \A r \in Rsv : \A t, s \in Posted(r) : t = s

(* A lease the server may let post: nobody else can. *)
MayPost == {"cleared", "sent", "done"}

(* What relates a lease to the row it was issued for. *)
LeaseAgrees(t) ==
    /\ phase[t] \in MayPost =>
          /\ claimToken[of[t]] = t
          /\ status[of[t]] \in {"sending", "completed"}
    /\ phase[t] \in MayPost \cup {"acked"} =>
          /\ outcome[of[t]] # NoOutcome
          /\ said[t] = outcome[of[t]]

(* What relates a row to the lease whose token it carries. *)
RowAgrees(r) ==
    /\ claimToken[r] # NoToken =>
          /\ phase[claimToken[r]] # "unissued"
          /\ of[claimToken[r]] = r
    /\ claimToken[r] = NoToken <=> status[r] \in {"pending", "ready"}
    /\ status[r] = "processing" => outcome[r] = NoOutcome
    /\ status[r] \in {"prepared", "sending", "completed"} => outcome[r] # NoOutcome

(* What every bot process believes about its lease agrees with the row, after *)
(* any number of re-claims: a process allowed to post owns the row, and the   *)
(* result it carries is the frozen one, wherever that result was drawn.       *)
LeaseRowAgreement == (\A t \in Token : LeaseAgrees(t)) /\ (\A r \in Rsv : RowAgrees(r))

(* Types included, this is the inductive invariant that the proofs rest on:  *)
(* rows and leases fit together whatever lapses, is lost or is repeated, as  *)
(* long as each handler holds the row lock from its read to its commit.      *)
Consistent == TypeOK /\ LeaseRowAgreement

(* What the group was shown is the frozen outcome_snapshot, also when the    *)
(* process that sends is not the one that drew the result.                   *)
SentIsFrozen == \A r \in Rsv : \A t \in Posted(r) : said[t] = outcome[r] /\ outcome[r] # NoOutcome

(* The sender of a row is never exchanged under a live lease: the process    *)
(* that holds the current token belongs to the row's delivery_bot_id.        *)
SenderHoldsLease ==
    \A r \in Rsv : claimToken[r] # NoToken => of[claimToken[r]] = r /\ holder[claimToken[r]] = bot[r]

(* A client that cannot gather (old, or v1) never holds the lease of a       *)
(* protected or taken-over reservation: it would treat the row as a sure hit.*)
OnlyGatherersHold ==
    \A r \in Rsv : claimToken[r] # NoToken /\ (r \in gathering \/ operator[r] # NoUser)
                   => kind[claimToken[r]] = "gathering"

(* The process with the current lease belongs to the row's sender and is     *)
(* able to deliver it, after takeovers, upgrades and protection changes.     *)
(* This needs no row locks.                                                  *)
LeaseInRightHands == SenderHoldsLease /\ OnlyGatherersHold

(* One growth per user and day, whichever of several reservations and        *)
(* immediate roasts settles first; the receipt, the feed row and the growth  *)
(* agree; only a success feeds.  (Without row locks a late /outcome of an    *)
(* old lease replaces the success that was settled.)                         *)
FeedAccounting ==
    /\ \A u \in User : growth[u] = (IF fed[u] = NoFeed THEN 0 ELSE 1)
    /\ \A r \in Rsv, u \in User : u \in feedResults[r] <=> fed[u] = r
    /\ \A r \in Rsv : feedResults[r] # {} => outcome[r] = Success

(* A retried result or a re-claim never counts a broken protection twice.    *)
OneHitPerSuccess ==
    \A r \in Rsv : hits[r] <= 1 /\ (hits[r] = 1 => outcome[r] = Success)

(* A reservation has one event, of the frozen result, whether it came with   *)
(* /complete, with a retry of it, or from /events of an old client: each     *)
(* looks for an event under the lock on the reservation (MySQL).             *)
OneEvent ==
    \A r \in Rsv, o \in Outcome :
        events[r][o] > 0 => events[r][o] = 1 /\ outcome[r] = o /\ Posted(r) # {}

(* A reservation is sent once, breaks protection once and is recorded once,  *)
(* whoever retries which of the requests, and in whatever order, where the   *)
(* handlers lock the row.                                                    *)
SettledOnce == AtMostOneSend /\ OneHitPerSuccess /\ OneEvent

(* The frozen result of a reservation never changes, and neither do the feed *)
(* receipts frozen with it: /outcome and /outcome/prepare read that there is *)
(* none under the row lock.                                                  *)
FrozenForever ==
    [][\A r \in Rsv : outcome[r] # NoOutcome =>
          outcome'[r] = outcome[r] /\ feedResults'[r] = feedResults[r]]_vars

(* A row that reached sending is never recovered by a re-claim, a release or *)
(* a takeover: it only completes, under the same token.  A /release that was *)
(* slow waits for the row lock and then sees that the row is sending.        *)
SendingIsFinal ==
    [][\A r \in Rsv : status[r] \in {"sending", "completed"} =>
          /\ claimToken'[r] = claimToken[r]
          /\ bot'[r] = bot[r]
          /\ status'[r] \in {status[r], "completed"}]_vars

(* A lease whose process died before /sending is handed out again (while     *)
(* tokens last: the bound of the model).                                     *)
AbandonedLeaseRecovered ==
    \A r \in Rsv, t \in Token :
        (claimToken[r] = t /\ Leased(status[r])) ~>
            (claimToken[r] # t \/ ~Leased(status[r]) \/ Unissued = {})

-----------------------------------------------------------------------------
(* What the group observes. *)
Sender(r) == CHOOSE t \in Posted(r) : TRUE

Shown == [r \in Rsv |-> IF Posted(r) = {} THEN NoOutcome ELSE said[Sender(r)]]

Once == INSTANCE OnceDelivery WITH
            Item <- Rsv, Result <- Outcome, NoResult <- NoOutcome,
            decided <- outcome, posted <- Shown

(* Delivery implements the promise of OnceDelivery, where rows are locked. *)
ImplementsOnce == Once!Spec
=============================================================================
