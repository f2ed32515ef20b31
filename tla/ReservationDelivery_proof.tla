--------------------- MODULE ReservationDelivery_proof ---------------------
(***************************************************************************)
(* Theorems about ReservationDelivery, for every set of reservations,      *)
(* bots, tokens, users and results.  Types and the hands a lease is in are *)
(* right on both engines; what a reservation sends, pays and records rests *)
(* on row locks, which these theorems have as a hypothesis.                *)
(***************************************************************************)
EXTENDS ReservationDelivery, TLAPS

USE ConstantAssumption DEF Kind, Status, Phase

-----------------------------------------------------------------------------
(* Lemmas about the operators the handlers share. *)

(* Whatever version of a row a request decides on has the types of the row. *)
LEMMA ReadableType ==
  ASSUME TypeOK, NEW r \in Rsv, NEW v \in Readable(r)
  PROVE  v \in View
<1>1. Row(r) \in View
  BY DEF Row, View, TypeOK, Recorded
<1> QED
  BY <1>1 DEF Readable, TypeOK

(* What is remembered of the rows has their types. *)
LEMMA RememberType == TypeOK /\ Remember => earlier' \in [Rsv -> SUBSET View]
<1>1. TypeOK => \A r \in Rsv : Row(r) \in View
  BY ReadableType DEF Readable
<1> QED
  BY <1>1 DEF Remember, TypeOK

(* What a claim read of its rows. *)
LEMMA ClaimReadsType ==
  ASSUME TypeOK, NEW k \in Kind, NEW S \in SUBSET Rsv, NEW seen \in ClaimReads(k, S), NEW r \in S
  PROVE  seen[r] \in Readable(r) /\ seen[r] \in View
<1>1. seen[r] \in Readable(r)
  BY DEF ClaimReads, Rows, Readable
<1> QED
  BY <1>1, ReadableType

(* A claim gives each row of S a lease of its own and leaves the rest of the *)
(* leases alone.                                                             *)
LEMMA ClaimLeases ==
  ASSUME TypeOK, NEW b \in Bot, NEW k \in Kind, NEW S \in SUBSET Rsv, NEW heard \in BOOLEAN,
         NEW seen \in ClaimReads(k, S), NEW fresh \in [S -> Unissued],
             Claim(b, k, S, seen, fresh, heard)
  PROVE  /\ \A r \in S :
              /\ fresh[r] \in Token /\ phase[fresh[r]] = "unissued"
              /\ phase'[fresh[r]] = PhaseOnClaim(seen[r], k, heard)
              /\ of'[fresh[r]] = r
              /\ holder'[fresh[r]] = b
              /\ kind'[fresh[r]] = k
              /\ said'[fresh[r]] = seen[r].outcome
         /\ \A t \in Token : (\A r \in S : fresh[r] # t) =>
              /\ phase'[t] = phase[t] /\ of'[t] = of[t] /\ holder'[t] = holder[t]
              /\ kind'[t] = kind[t] /\ said'[t] = said[t]
<1> DEFINE For(t) == {r \in S : fresh[r] = t}
           row(t) == CHOOSE r \in For(t) : TRUE
<1>1. /\ phase' = [t \in Token |-> IF For(t) # {} THEN PhaseOnClaim(seen[row(t)], k, heard) ELSE phase[t]]
      /\ of' = [t \in Token |-> IF For(t) # {} THEN row(t) ELSE of[t]]
      /\ holder' = [t \in Token |-> IF For(t) # {} THEN b ELSE holder[t]]
      /\ kind' = [t \in Token |-> IF For(t) # {} THEN k ELSE kind[t]]
      /\ said' = [t \in Token |-> IF For(t) # {} THEN seen[row(t)].outcome ELSE said[t]]
  BY DEF Claim
<1>2. ASSUME NEW r \in S
      PROVE  fresh[r] \in Token /\ phase[fresh[r]] = "unissued" /\ For(fresh[r]) # {} /\ row(fresh[r]) = r
  <2>1. fresh[r] \in Token /\ phase[fresh[r]] = "unissued"
    BY DEF Unissued
  <2>2. For(fresh[r]) = {r}
    BY DEF Claim
  <2> QED
    BY <2>1, <2>2
<1>3. ASSUME NEW t \in Token, \A r \in S : fresh[r] # t PROVE For(t) = {}
  BY <1>3
<1> HIDE DEF For, row
<1>4. ASSUME NEW r \in S
      PROVE  /\ phase'[fresh[r]] = PhaseOnClaim(seen[r], k, heard)
             /\ of'[fresh[r]] = r
             /\ holder'[fresh[r]] = b
             /\ kind'[fresh[r]] = k
             /\ said'[fresh[r]] = seen[r].outcome
  BY <1>1, <1>2
<1>5. ASSUME NEW t \in Token, \A r \in S : fresh[r] # t
      PROVE  /\ phase'[t] = phase[t] /\ of'[t] = of[t] /\ holder'[t] = holder[t]
             /\ kind'[t] = kind[t] /\ said'[t] = said[t]
  BY <1>1, <1>3, <1>5
<1> QED
  BY <1>2, <1>4, <1>5

(* After a claim the lease variables still map tokens to leases. *)
LEMMA ClaimLeaseType ==
  ASSUME TypeOK, NEW b \in Bot, NEW k \in Kind, NEW S \in SUBSET Rsv, NEW heard \in BOOLEAN,
         NEW seen \in ClaimReads(k, S), NEW fresh \in [S -> Unissued],
             Claim(b, k, S, seen, fresh, heard)
  PROVE  /\ phase' \in [Token -> Phase]
         /\ of' \in [Token -> Rsv]
         /\ holder' \in [Token -> Bot]
         /\ kind' \in [Token -> Kind]
         /\ said' \in [Token -> Outcome \cup {NoOutcome}]
<1>0. /\ \A r \in S :
              /\ phase'[fresh[r]] = PhaseOnClaim(seen[r], k, heard)
              /\ of'[fresh[r]] = r
              /\ holder'[fresh[r]] = b
              /\ kind'[fresh[r]] = k
              /\ said'[fresh[r]] = seen[r].outcome
      /\ \A t \in Token : (\A r \in S : fresh[r] # t) =>
              /\ phase'[t] = phase[t] /\ of'[t] = of[t] /\ holder'[t] = holder[t]
              /\ kind'[t] = kind[t] /\ said'[t] = said[t]
  BY ClaimLeases
<1>1. ASSUME NEW t \in Token
      PROVE  /\ phase'[t] \in Phase /\ of'[t] \in Rsv /\ holder'[t] \in Bot
             /\ kind'[t] \in Kind /\ said'[t] \in Outcome \cup {NoOutcome}
  <2>1. CASE \E r \in S : fresh[r] = t
    <3>1. PICK r \in S : fresh[r] = t
      BY <2>1
    <3>2. seen[r].outcome \in Outcome \cup {NoOutcome}
      BY ClaimReadsType DEF View
    <3> QED
      BY <1>0, <3>1, <3>2 DEF PhaseOnClaim
  <2>2. CASE \A r \in S : fresh[r] # t
    BY <1>0, <2>2 DEF TypeOK
  <2> QED
    BY <2>1, <2>2
<1>2. /\ phase' = [t \in Token |-> phase'[t]]
      /\ of' = [t \in Token |-> of'[t]]
      /\ holder' = [t \in Token |-> holder'[t]]
      /\ kind' = [t \in Token |-> kind'[t]]
      /\ said' = [t \in Token |-> said'[t]]
  BY DEF Claim
<1> QED
  BY <1>1, <1>2

(* Hearing an answer keeps the lease variables typed. *)
LEMMA HearType ==
  ASSUME TypeOK, NEW t \in Token, NEW heard \in BOOLEAN, NEW from, NEW to \in Phase,
         NEW o \in Outcome \cup {NoOutcome}, Hear(t, heard, from, to, o)
  PROVE  /\ phase' \in [Token -> Phase]
         /\ of' \in [Token -> Rsv]
         /\ holder' \in [Token -> Bot]
         /\ kind' \in [Token -> Kind]
         /\ said' \in [Token -> Outcome \cup {NoOutcome}]
  BY DEF Hear, TypeOK

(* Recording an event keeps the counters of every row. *)
LEMMA RecordEventType ==
  ASSUME TypeOK, NEW r \in Rsv, NEW v, NEW o, RecordEvent(r, v, o)
  PROVE  events' \in [Rsv -> [Outcome -> Nat]]
<1>1. [events[r] EXCEPT ![o] = @ + 1] \in [Outcome -> Nat]
  <2>1. events[r] \in [Outcome -> Nat]
    BY DEF TypeOK
  <2>2. CASE o \in Outcome
    BY <2>1, <2>2
  <2>3. CASE o \notin Outcome
    BY <2>1, <2>3
  <2> QED
    BY <2>2, <2>3
<1>2. CASE v.recorded
  BY <1>2 DEF RecordEvent, TypeOK
<1>3. CASE ~v.recorded
  BY <1>1, <1>3 DEF RecordEvent, TypeOK
<1> QED
  BY <1>2, <1>3

(* Freezing a result keeps the types of the tables it pays into. *)
LEMMA FreezeType ==
  ASSUME TypeOK, NEW r \in Rsv, NEW o \in Outcome, NEW settle \in BOOLEAN, Freeze(r, o, settle)
  PROVE  /\ outcome' \in [Rsv -> Outcome \cup {NoOutcome}]
         /\ feedResults' \in [Rsv -> SUBSET User]
         /\ hits' \in [Rsv -> Nat]
         /\ fed' \in [User -> Rsv \cup {Roast, NoFeed}]
         /\ growth' \in [User -> Nat]
<1>1. FeedNow(r, o, settle) \in SUBSET User
  BY DEF FeedNow, TypeOK
<1>2. hits' \in [Rsv -> Nat]
  BY DEF Freeze, TypeOK
<1>3. fed' \in [User -> Rsv \cup {Roast, NoFeed}] /\ growth' \in [User -> Nat]
  BY <1>1 DEF Freeze, TypeOK
<1> QED
  BY <1>1, <1>2, <1>3 DEF Freeze, TypeOK

-----------------------------------------------------------------------------
(* Types hold initially and are kept by every step. *)
LEMMA InitType == Init => TypeOK
  BY DEF Init, TypeOK

(* Each handler keeps the types. *)
LEMMA NextType == TypeOK /\ [Next]_vars => TypeOK'
<1> SUFFICES ASSUME TypeOK, [Next]_vars PROVE TypeOK'
  OBVIOUS
<1>1. ASSUME NEW r \in Rsv, NEW v \in Readable(r), Activate(r, v)
      PROVE  TypeOK'
  BY <1>1, RememberType DEF Activate, tableVars, leaseVars, TypeOK
<1>2. ASSUME NEW r \in Rsv, LeaseLapse(r)
      PROVE  TypeOK'
  BY <1>2, RememberType DEF LeaseLapse, tableVars, leaseVars, TypeOK
<1>3. ASSUME NEW r \in Rsv, NEW b \in Bot, NEW u \in User, NEW arrived \in BOOLEAN,
             TakeOver(r, b, u, arrived)
      PROVE  TypeOK'
  BY <1>3, RememberType DEF TakeOver, tableVars, leaseVars, TypeOK
<1>4. ASSUME NEW r \in Rsv, NEW b \in Bot, UpdateDeliveryCapability(r, b)
      PROVE  TypeOK'
  BY <1>4, RememberType DEF UpdateDeliveryCapability, tableVars, leaseVars, TypeOK
<1>5. ASSUME NEW r \in Rsv, NEW on \in BOOLEAN, NEW fires \in BOOLEAN, ProtectionChange(r, on, fires)
      PROVE  TypeOK'
  BY <1>5, RememberType DEF ProtectionChange, leaseVars, TypeOK
<1>6. ASSUME NEW b \in Bot, NEW k \in Kind, NEW S \in SUBSET Rsv, NEW heard \in BOOLEAN,
             NEW seen \in ClaimReads(k, S), NEW fresh \in [S -> Unissued],
             Claim(b, k, S, seen, fresh, heard)
      PROVE  TypeOK'
  <2>1. /\ phase' \in [Token -> Phase] /\ of' \in [Token -> Rsv] /\ holder' \in [Token -> Bot]
        /\ kind' \in [Token -> Kind] /\ said' \in [Token -> Outcome \cup {NoOutcome}]
    BY <1>6, ClaimLeaseType
  <2>2. \A r \in S : fresh[r] \in Token
    BY <1>6, ClaimLeases
  <2>3. claimToken' \in [Rsv -> Token \cup {NoToken}] /\ status' \in [Rsv -> Status]
    BY <1>6, <2>2 DEF Claim, StatusOnClaim, TypeOK
  <2> QED
    BY <1>6, <2>1, <2>3, RememberType DEF Claim, tableVars, TypeOK
<1>7. ASSUME NEW t \in Token, NEW o \in Outcome, NEW settle \in BOOLEAN, NEW heard \in BOOLEAN,
             PrepareOutcome(t, o, settle, heard)
      PROVE  TypeOK'
  <2>1. of[t] \in Rsv
    BY DEF TypeOK
  <2>2. /\ outcome' \in [Rsv -> Outcome \cup {NoOutcome}]
        /\ feedResults' \in [Rsv -> SUBSET User]
        /\ hits' \in [Rsv -> Nat]
        /\ fed' \in [User -> Rsv \cup {Roast, NoFeed}]
        /\ growth' \in [User -> Nat]
    <3>1. CASE Freeze(of[t], o, settle)
      BY <2>1, <3>1, FreezeType
    <3>2. CASE UNCHANGED <<outcome, feedResults, hits, fed, growth>>
      BY <3>2 DEF TypeOK
    <3> QED
      BY <1>7, <3>1, <3>2 DEF PrepareOutcome
  <2>3. /\ phase' \in [Token -> Phase] /\ of' \in [Token -> Rsv] /\ holder' \in [Token -> Bot]
        /\ kind' \in [Token -> Kind] /\ said' \in [Token -> Outcome \cup {NoOutcome}]
    BY <1>7, HearType DEF PrepareOutcome
  <2> QED
    BY <1>7, <2>2, <2>3, RememberType DEF PrepareOutcome, TypeOK
<1>8. ASSUME NEW t \in Token, NEW v \in Readable(of[t]), NEW o \in Outcome, NEW heard \in BOOLEAN,
             SaveOutcome(t, v, o, heard)
      PROVE  TypeOK'
  <2>1. /\ phase' \in [Token -> Phase] /\ of' \in [Token -> Rsv] /\ holder' \in [Token -> Bot]
        /\ kind' \in [Token -> Kind] /\ said' \in [Token -> Outcome \cup {NoOutcome}]
    BY <1>8, HearType DEF SaveOutcome
  <2>2. outcome' \in [Rsv -> Outcome \cup {NoOutcome}]
    <3>1. CASE outcome' = [outcome EXCEPT ![of[t]] = o]
      BY <3>1 DEF TypeOK
    <3>2. CASE UNCHANGED outcome
      BY <3>2 DEF TypeOK
    <3> QED
      BY <1>8, <3>1, <3>2 DEF SaveOutcome
  <2>3. status' \in [Rsv -> Status]
    BY <1>8 DEF SaveOutcome, TypeOK
  <2> QED
    BY <1>8, <2>1, <2>2, <2>3, RememberType DEF SaveOutcome, tableVars, TypeOK
<1>9. ASSUME NEW t \in Token, NEW v \in Readable(of[t]), NEW heard \in BOOLEAN, MarkSending(t, v, heard)
      PROVE  TypeOK'
  <2>1. said[t] \in Outcome \cup {NoOutcome}
    BY DEF TypeOK
  <2>2. /\ phase' \in [Token -> Phase] /\ of' \in [Token -> Rsv] /\ holder' \in [Token -> Bot]
        /\ kind' \in [Token -> Kind] /\ said' \in [Token -> Outcome \cup {NoOutcome}]
    BY <1>9, <2>1, HearType DEF MarkSending
  <2> QED
    BY <1>9, <2>2, RememberType DEF MarkSending, tableVars, TypeOK
<1>10. ASSUME NEW t \in Token, Post(t)
      PROVE  TypeOK'
  BY <1>10 DEF Post, tableVars, rowVars, TypeOK
<1>11. ASSUME NEW t \in Token, NEW v \in Readable(of[t]), NEW withEvent \in BOOLEAN, NEW heard \in BOOLEAN,
              Complete(t, v, withEvent, heard)
      PROVE  TypeOK'
  <2>1. events' \in [Rsv -> [Outcome -> Nat]]
    <3>1. CASE withEvent
      BY <1>11, <3>1, RecordEventType DEF Complete, TypeOK
    <3>2. CASE ~withEvent
      BY <1>11, <3>2 DEF Complete, TypeOK
    <3> QED
      BY <3>1, <3>2
  <2>2. said[t] \in Outcome \cup {NoOutcome}
    BY DEF TypeOK
  <2>3. /\ phase' \in [Token -> Phase] /\ of' \in [Token -> Rsv] /\ holder' \in [Token -> Bot]
        /\ kind' \in [Token -> Kind] /\ said' \in [Token -> Outcome \cup {NoOutcome}]
    BY <1>11, <2>2, HearType DEF Complete
  <2> QED
    BY <1>11, <2>1, <2>3, RememberType DEF Complete, TypeOK
<1>12. ASSUME NEW t \in Token, NEW v \in Readable(of[t]), LegacyEvent(t, v)
      PROVE  TypeOK'
  <2>1. events' \in [Rsv -> [Outcome -> Nat]]
    BY <1>12, RecordEventType DEF LegacyEvent, TypeOK
  <2> QED
    BY <1>12, <2>1, RememberType DEF LegacyEvent, rowVars, leaseVars, TypeOK
<1>13. ASSUME NEW t \in Token, NEW v \in Readable(of[t]), Release(t, v)
      PROVE  TypeOK'
  BY <1>13, RememberType DEF Release, tableVars, TypeOK
<1>14. ASSUME NEW t \in Token, Drop(t)
      PROVE  TypeOK'
  BY <1>14 DEF Drop, tableVars, rowVars, TypeOK
<1>15. ASSUME NEW u \in User, RoastFeed(u)
      PROVE  TypeOK'
  BY <1>15 DEF RoastFeed, rowVars, leaseVars, TypeOK
<1>16. CASE UNCHANGED vars
  BY <1>16 DEF vars, rowVars, tableVars, leaseVars, TypeOK
<1> QED
  BY <1>1, <1>2, <1>3, <1>4, <1>5, <1>6, <1>7, <1>8, <1>9, <1>10, <1>11, <1>12, <1>13, <1>14, <1>15, <1>16
     DEF Next, RowStep, ClaimStep, LeaseStep

(* The state of the protocol is well typed in every behaviour, with and       *)
(* without row locks: the handlers keep each column and each lease in its set *)
(* of values, also when they act on a version of the row that is overtaken.   *)
THEOREM TypeCorrect == Spec => []TypeOK
  BY InitType, NextType, PTL DEF Spec

-----------------------------------------------------------------------------
(* Who holds a lease.  A claim of an old client may act on a version of the  *)
(* row that is overtaken; still the row then has the sender and, if it was   *)
(* open to old clients, the openness that the claim saw: neither changes any *)
(* more once a row does not wait.                                            *)

Open(r) == r \notin gathering /\ operator[r] = NoUser

Settled(r, v) == v.status # "pending" =>
                   /\ status[r] # "pending"
                   /\ v.open => Open(r) /\ v.bot = bot[r]

Held(r) == claimToken[r] # NoToken =>
             /\ phase[claimToken[r]] # "unissued"
             /\ of[claimToken[r]] = r
             /\ holder[claimToken[r]] = bot[r]
             /\ ~Open(r) => kind[claimToken[r]] = "gathering"

Hands == \A r \in Rsv :
           /\ Held(r)
           /\ status[r] = "pending" => claimToken[r] = NoToken
           /\ \A v \in earlier[r] : Settled(r, v)

(* A version that is remembered was remembered before or is the present row. *)
LEMMA Remembered ==
  ASSUME TypeOK, Remember \/ earlier' = earlier, NEW r \in Rsv, NEW v \in earlier'[r]
  PROVE  v \in earlier[r] \/ v = Row(r)
  BY DEF Remember, TypeOK

(* The row as it is agrees with itself. *)
LEMMA RowSettled ==
  ASSUME TypeOK, NEW r \in Rsv
  PROVE  /\ Settled(r, Row(r))
         /\ Row(r).status = status[r] /\ Row(r).bot = bot[r] /\ (Row(r).open <=> Open(r))
  BY DEF Settled, Row, Open

(* A step that gives out no token and leaves senders and protection alone.   *)
LEMMA HandsQuiet ==
  ASSUME TypeOK, Hands, UNCHANGED <<bot, gathering, operator, of, holder, kind>>,
         \A r \in Rsv : claimToken'[r] \in {claimToken[r], NoToken},
         \A t \in Token : phase[t] # "unissued" => phase'[t] # "unissued",
         \A r \in Rsv : status'[r] = "pending" => status[r] = "pending",
         Remember \/ earlier' = earlier
  PROVE  Hands'
<1> SUFFICES ASSUME NEW r \in Rsv
             PROVE  /\ Held(r)'
                    /\ status'[r] = "pending" => claimToken'[r] = NoToken
                    /\ \A v \in earlier'[r] : Settled(r, v)'
  BY DEF Hands
<1>1. Held(r)'
  BY DEF Hands, Held, Open, TypeOK
<1>2. status'[r] = "pending" => claimToken'[r] = NoToken
  BY DEF Hands
<1>3. ASSUME NEW v \in earlier'[r] PROVE Settled(r, v)'
  <2>1. Settled(r, v)
    BY Remembered, RowSettled DEF Hands
  <2> QED
    BY <2>1 DEF Settled, Open
<1> QED
  BY <1>1, <1>2, <1>3

(* A row that waits has no lease, so its sender may change. *)
LEMMA HandsTakeOver ==
  ASSUME TypeOK, Hands, NEW q \in Rsv, NEW b \in Bot, NEW u \in User, NEW arrived \in BOOLEAN,
         TakeOver(q, b, u, arrived)
  PROVE  Hands'
<1> SUFFICES ASSUME NEW r \in Rsv
             PROVE  /\ Held(r)'
                    /\ status'[r] = "pending" => claimToken'[r] = NoToken
                    /\ \A v \in earlier'[r] : Settled(r, v)'
  BY DEF Hands
<1>0. /\ claimToken' = claimToken /\ gathering' = gathering
      /\ UNCHANGED <<phase, of, holder, kind>> /\ status[q] = "pending"
      /\ r # q => operator'[r] = operator[r] /\ bot'[r] = bot[r] /\ status'[r] = status[r]
  BY DEF TakeOver, leaseVars, TypeOK
<1>1. Held(r)' /\ (status'[r] = "pending" => claimToken'[r] = NoToken)
  BY <1>0 DEF Hands, Held, Open
<1>3. ASSUME NEW v \in earlier'[r] PROVE Settled(r, v)'
  <2>1. Settled(r, v)
    BY Remembered, RowSettled DEF Hands, TakeOver
  <2> QED
    BY <1>0, <2>1 DEF Settled, Open
<1> QED
  BY <1>1, <1>3

(* Only a row without a lease, closed to old clients, changes its sender. *)
LEMMA HandsCapability ==
  ASSUME TypeOK, Hands, NEW q \in Rsv, NEW b \in Bot, UpdateDeliveryCapability(q, b)
  PROVE  Hands'
<1> SUFFICES ASSUME NEW r \in Rsv
             PROVE  /\ Held(r)'
                    /\ status'[r] = "pending" => claimToken'[r] = NoToken
                    /\ \A v \in earlier'[r] : Settled(r, v)'
  BY DEF Hands
<1>0. /\ claimToken' = claimToken /\ gathering' = gathering /\ operator' = operator /\ status' = status
      /\ UNCHANGED <<phase, of, holder, kind>>
      /\ bot'[r] = bot[r] \/ (~Open(r) /\ claimToken[r] = NoToken)
  BY DEF UpdateDeliveryCapability, CanReassign, leaseVars, Open, TypeOK
<1>1. Held(r)' /\ (status'[r] = "pending" => claimToken'[r] = NoToken)
  BY <1>0 DEF Hands, Held, Open
<1>3. ASSUME NEW v \in earlier'[r] PROVE Settled(r, v)'
  <2>1. Settled(r, v)
    BY Remembered, RowSettled DEF Hands, UpdateDeliveryCapability
  <2> QED
    BY <1>0, <2>1 DEF Settled, Open
<1> QED
  BY <1>1, <1>3

(* Only a row that waits follows the protection of its target. *)
LEMMA HandsProtection ==
  ASSUME TypeOK, Hands, NEW q \in Rsv, NEW on \in BOOLEAN, NEW fires \in BOOLEAN,
         ProtectionChange(q, on, fires)
  PROVE  Hands'
<1> SUFFICES ASSUME NEW r \in Rsv
             PROVE  /\ Held(r)'
                    /\ status'[r] = "pending" => claimToken'[r] = NoToken
                    /\ \A v \in earlier'[r] : Settled(r, v)'
  BY DEF Hands
<1>0. /\ claimToken' = claimToken /\ operator' = operator /\ bot' = bot
      /\ UNCHANGED <<phase, of, holder, kind>>
      /\ status'[r] = "pending" => status[r] = "pending"
      /\ status[r] # "pending" => status'[r] # "pending" /\ (r \in gathering' <=> r \in gathering)
  BY DEF ProtectionChange, leaseVars, TypeOK
<1>1. Held(r)' /\ (status'[r] = "pending" => claimToken'[r] = NoToken)
  BY <1>0 DEF Hands, Held, Open
<1>3. ASSUME NEW v \in earlier'[r] PROVE Settled(r, v)'
  <2>1. Settled(r, v)
    BY Remembered, RowSettled DEF Hands, ProtectionChange
  <2> QED
    BY <1>0, <2>1 DEF Settled, Open
<1> QED
  BY <1>1, <1>3

(* A claim gives the row to the bot it had when it was read, and has. *)
LEMMA HandsClaim ==
  ASSUME TypeOK, Hands, NEW b \in Bot, NEW k \in Kind, NEW S \in SUBSET Rsv, NEW heard \in BOOLEAN,
         NEW seen \in ClaimReads(k, S), NEW fresh \in [S -> Unissued],
         Claim(b, k, S, seen, fresh, heard)
  PROVE  Hands'
<1> SUFFICES ASSUME NEW r \in Rsv
             PROVE  /\ Held(r)'
                    /\ status'[r] = "pending" => claimToken'[r] = NoToken
                    /\ \A v \in earlier'[r] : Settled(r, v)'
  BY DEF Hands
<1>0. /\ bot' = bot /\ gathering' = gathering /\ operator' = operator
      /\ claimToken'[r] = IF r \in S THEN fresh[r] ELSE claimToken[r]
      /\ status'[r] = "pending" => status[r] = "pending"
  BY DEF Claim, StatusOnClaim, TypeOK
<1>1. ASSUME r \in S
      PROVE  /\ bot[r] = b /\ status[r] # "pending"
             /\ k = "gathering" \/ Open(r)
  <2>1. Claimable(seen[r], b, k)
    BY <1>1 DEF Claim
  <2>2. seen[r] = Row(r) \/ (k # "gathering" /\ Settled(r, seen[r]))
    <3>1. CASE k = "gathering"
      BY <1>1, <3>1 DEF ClaimReads, Rows
    <3>2. CASE k # "gathering"
      <4>1. seen[r] \in Readable(r)
        BY <1>1, ClaimReadsType
      <4>2. CASE seen[r] \in earlier[r]
        BY <3>2, <4>2 DEF Hands
      <4> QED
        BY <4>1, <4>2 DEF Readable
    <3> QED
      BY <3>1, <3>2
  <2>3. seen[r].bot = b /\ seen[r].status # "pending" /\ (k # "gathering" => seen[r].open)
    BY <2>1 DEF Claimable, Leased
  <2> QED
    BY <2>2, <2>3, RowSettled DEF Settled
<1>2. /\ \A q \in S : fresh[q] \in Token /\ phase[fresh[q]] = "unissued" /\ of'[fresh[q]] = q
                     /\ holder'[fresh[q]] = b /\ kind'[fresh[q]] = k
                     /\ phase'[fresh[q]] # "unissued"
      /\ \A t \in Token : phase[t] # "unissued" =>
           phase'[t] = phase[t] /\ of'[t] = of[t] /\ holder'[t] = holder[t] /\ kind'[t] = kind[t]
  BY ClaimLeases DEF PhaseOnClaim
<1>3. Held(r)'
  <2>1. CASE r \in S
    BY <1>0, <1>1, <1>2, <2>1 DEF Held, Open
  <2>2. CASE r \notin S
    <3>1. claimToken'[r] = claimToken[r] /\ Held(r) /\ claimToken[r] \in Token \cup {NoToken}
      BY <1>0, <2>2 DEF Hands, TypeOK
    <3> QED
      BY <1>0, <1>2, <3>1 DEF Held, Open
  <2> QED
    BY <2>1, <2>2
<1>4. status'[r] = "pending" => claimToken'[r] = NoToken
  BY <1>0, <1>1 DEF Hands
<1>5. ASSUME NEW v \in earlier'[r] PROVE Settled(r, v)'
  <2>1. Settled(r, v)
    BY Remembered, RowSettled DEF Hands, Claim
  <2> QED
    BY <1>0, <2>1 DEF Settled, Open
<1> QED
  BY <1>3, <1>4, <1>5

(* Each handler keeps leases in the right hands. *)
LEMMA NextHands == TypeOK /\ Hands /\ [Next]_vars => Hands'
<1> SUFFICES ASSUME TypeOK, Hands, [Next]_vars PROVE Hands'
  OBVIOUS
<1> DEFINE Quiet == /\ UNCHANGED <<bot, gathering, operator, of, holder, kind>>
                    /\ \A r \in Rsv : claimToken'[r] \in {claimToken[r], NoToken}
                    /\ \A t \in Token : phase[t] # "unissued" => phase'[t] # "unissued"
                    /\ \A r \in Rsv : status'[r] = "pending" => status[r] = "pending"
                    /\ Remember \/ earlier' = earlier
<1>0. Quiet => Hands'
  BY HandsQuiet
<1>1. ASSUME NEW r \in Rsv, RowStep(r) PROVE Hands'
  <2>1. ASSUME NEW v \in Readable(r), Activate(r, v) PROVE Quiet
    BY <2>1 DEF Activate, leaseVars, TypeOK
  <2>2. ASSUME LeaseLapse(r) PROVE Quiet
    BY <2>2 DEF LeaseLapse, leaseVars
  <2> QED
    BY <1>0, <1>1, <2>1, <2>2, HandsTakeOver, HandsCapability, HandsProtection DEF RowStep
<1>2. ASSUME ClaimStep PROVE Hands'
  BY <1>2, HandsClaim DEF ClaimStep
<1>3. ASSUME NEW t \in Token, LeaseStep(t) PROVE Quiet
  <2>1. ASSUME NEW o \in Outcome, NEW settle \in BOOLEAN, NEW heard \in BOOLEAN,
               PrepareOutcome(t, o, settle, heard)
        PROVE  Quiet
    BY <2>1 DEF PrepareOutcome, Hear, TypeOK
  <2>2. ASSUME NEW v \in Readable(of[t]), NEW o \in Outcome, NEW heard \in BOOLEAN,
               SaveOutcome(t, v, o, heard)
        PROVE  Quiet
    BY <2>2 DEF SaveOutcome, Hear, TypeOK
  <2>3. ASSUME NEW v \in Readable(of[t]), NEW heard \in BOOLEAN, MarkSending(t, v, heard) PROVE Quiet
    BY <2>3 DEF MarkSending, Hear, TypeOK
  <2>4. ASSUME Post(t) PROVE Quiet
    BY <2>4 DEF Post, rowVars, TypeOK
  <2>5. ASSUME NEW v \in Readable(of[t]), NEW withEvent \in BOOLEAN, NEW heard \in BOOLEAN,
               Complete(t, v, withEvent, heard)
        PROVE  Quiet
    BY <2>5 DEF Complete, Hear, TypeOK
  <2>6. ASSUME NEW v \in Readable(of[t]), LegacyEvent(t, v) PROVE Quiet
    BY <2>6 DEF LegacyEvent, rowVars, leaseVars
  <2>7. ASSUME NEW v \in Readable(of[t]), Release(t, v) PROVE Quiet
    BY <2>7 DEF Release, TypeOK
  <2>8. ASSUME Drop(t) PROVE Quiet
    BY <2>8 DEF Drop, rowVars, TypeOK
  <2> HIDE DEF Quiet
  <2> QED
    BY <1>3, <2>1, <2>2, <2>3, <2>4, <2>5, <2>6, <2>7, <2>8 DEF LeaseStep
<1>4. ASSUME NEW u \in User, RoastFeed(u) PROVE Quiet
  BY <1>4 DEF RoastFeed, rowVars, leaseVars
<1>5. CASE UNCHANGED vars
  BY <1>5, <1>0 DEF vars, rowVars, leaseVars
<1> HIDE DEF Quiet
<1> QED
  BY <1>0, <1>1, <1>2, <1>3, <1>4, <1>5 DEF Next

(* Whoever holds the lease of a row belongs to its sender and can deliver    *)
(* it, on both engines: a row that does not wait any more keeps its sender   *)
(* and its protection, so a claim that read it late is not wrong about them. *)
THEOREM HandsAreRight == Spec => []LeaseInRightHands
<1>1. Init => Hands
  BY DEF Init, Hands, Held
<1>2. TypeOK /\ Hands /\ [Next]_vars => Hands'
  BY NextHands
<1>3. Hands => LeaseInRightHands
  BY DEF Hands, Held, Open, LeaseInRightHands, SenderHoldsLease, OnlyGatherersHold
<1> QED
  BY <1>1, <1>2, <1>3, TypeCorrect, PTL DEF Spec

-----------------------------------------------------------------------------
(* Where SELECT ... FOR UPDATE locks, a handler decides on the row as it is. *)

LockedStep ==
  \/ \E r \in Rsv : Activate(r, Row(r))
  \/ \E r \in Rsv : LeaseLapse(r)
  \/ \E r \in Rsv, b \in Bot, u \in User, arrived \in BOOLEAN : TakeOver(r, b, u, arrived)
  \/ \E r \in Rsv, b \in Bot : UpdateDeliveryCapability(r, b)
  \/ \E r \in Rsv, on, fires \in BOOLEAN : ProtectionChange(r, on, fires)
  \/ \E b \in Bot, k \in Kind, S \in SUBSET Rsv, heard \in BOOLEAN :
        \E fresh \in [S -> Unissued] : Claim(b, k, S, Rows(S), fresh, heard)
  \/ \E t \in Token, o \in Outcome, settle, heard \in BOOLEAN : PrepareOutcome(t, o, settle, heard)
  \/ \E t \in Token, o \in Outcome, heard \in BOOLEAN : SaveOutcome(t, Row(of[t]), o, heard)
  \/ \E t \in Token, heard \in BOOLEAN : MarkSending(t, Row(of[t]), heard)
  \/ \E t \in Token : Post(t)
  \/ \E t \in Token, withEvent, heard \in BOOLEAN : Complete(t, Row(of[t]), withEvent, heard)
  \/ \E t \in Token : LegacyEvent(t, Row(of[t]))
  \/ \E t \in Token : Release(t, Row(of[t]))
  \/ \E t \in Token : Drop(t)
  \/ \E u \in User : RoastFeed(u)

(* Every step of the specification is then a step on the rows as they are. *)
LEMMA StepsAreLocked ==
  ASSUME RowLocks, TypeOK, [Next]_vars
  PROVE  LockedStep \/ UNCHANGED vars
<1>1. ASSUME NEW r \in Rsv, RowStep(r) PROVE LockedStep
  BY <1>1 DEF RowStep, Readable, ReadsLock, LockedStep
<1>2. ASSUME ClaimStep PROVE LockedStep
  <2>0. PICK b \in Bot, k \in Kind, S \in SUBSET Rsv, heard \in BOOLEAN :
           \E seen \in ClaimReads(k, S), fresh \in [S -> Unissued] : Claim(b, k, S, seen, fresh, heard)
    BY <1>2 DEF ClaimStep
  <2>1. PICK seen \in ClaimReads(k, S), fresh \in [S -> Unissued] : Claim(b, k, S, seen, fresh, heard)
    BY <2>0
  <2>2. \A r \in S : seen[r] = Row(r)
    BY ClaimReadsType DEF Readable, ReadsLock
  <2>3. seen = [r \in S |-> seen[r]]
    BY DEF ClaimReads, Rows
  <2>4. seen = Rows(S)
    BY <2>2, <2>3 DEF Rows
  <2> QED
    BY <2>1, <2>4 DEF LockedStep
<1>3. ASSUME NEW t \in Token, LeaseStep(t) PROVE LockedStep
  <2>1. of[t] \in Rsv /\ Readable(of[t]) = {Row(of[t])}
    BY DEF TypeOK, Readable, ReadsLock
  <2> QED
    BY <1>3, <2>1 DEF LeaseStep, LockedStep
<1> QED
  BY <1>1, <1>2, <1>3 DEF Next, LockedStep

(* The lease of a row claimed under the lock starts with the row's result. *)
LEMMA ClaimRows ==
  ASSUME TypeOK, NEW b \in Bot, NEW k \in Kind, NEW S \in SUBSET Rsv, NEW heard \in BOOLEAN,
         NEW fresh \in [S -> Unissued], Claim(b, k, S, Rows(S), fresh, heard)
  PROVE  /\ \A r \in S :
              /\ fresh[r] \in Token /\ phase[fresh[r]] = "unissued"
              /\ phase'[fresh[r]] = PhaseOnClaim(Row(r), k, heard)
              /\ of'[fresh[r]] = r
              /\ holder'[fresh[r]] = b
              /\ kind'[fresh[r]] = k
              /\ said'[fresh[r]] = outcome[r]
         /\ \A t \in Token : (\A r \in S : fresh[r] # t) =>
              /\ phase'[t] = phase[t] /\ of'[t] = of[t] /\ holder'[t] = holder[t]
              /\ kind'[t] = kind[t] /\ said'[t] = said[t]
         /\ \A r \in S : status'[r] = StatusOnClaim(Row(r), k)
         /\ \A r \in Rsv \ S : status'[r] = status[r]
         /\ \A r \in S : Claimable(Row(r), b, k)
<1>1. Rows(S) \in ClaimReads(k, S)
  BY DEF ClaimReads, Rows, Readable
<1>2. \A r \in S : Rows(S)[r] = Row(r) /\ Row(r).outcome = outcome[r] /\ Row(r).status = status[r]
  BY DEF Rows, Row
<1>3. /\ \A r \in S : status'[r] = StatusOnClaim(Row(r), k)
      /\ \A r \in Rsv \ S : status'[r] = status[r]
      /\ \A r \in S : Claimable(Row(r), b, k)
  BY <1>2 DEF Claim
<1> QED
  BY <1>1, <1>2, <1>3, ClaimLeases

-----------------------------------------------------------------------------
(* The agreement between leases and rows is inductive together with the types. *)
LEMMA InitAgreement == Init => LeaseRowAgreement
  BY DEF Init, LeaseRowAgreement, LeaseAgrees, RowAgrees, MayPost

(* Each handler keeps the agreement. *)
LEMMA NextAgreement == RowLocks /\ TypeOK /\ LeaseRowAgreement /\ [Next]_vars => LeaseRowAgreement'
<1> SUFFICES ASSUME RowLocks, TypeOK, LeaseRowAgreement, [Next]_vars PROVE LeaseRowAgreement'
  OBVIOUS
<1>1. ASSUME NEW r \in Rsv, Activate(r, Row(r))
      PROVE  LeaseRowAgreement'
  <2>1. ASSUME NEW s \in Token PROVE LeaseAgrees(s)'
    BY <1>1 DEF Activate, Row, tableVars, leaseVars, LeaseRowAgreement, LeaseAgrees, RowAgrees, MayPost, TypeOK
  <2>2. ASSUME NEW q \in Rsv PROVE RowAgrees(q)'
    BY <1>1 DEF Activate, Row, tableVars, leaseVars, LeaseRowAgreement, LeaseAgrees, RowAgrees, MayPost, TypeOK
  <2> QED
    BY <2>1, <2>2 DEF LeaseRowAgreement
<1>2. ASSUME NEW r \in Rsv, LeaseLapse(r)
      PROVE  LeaseRowAgreement'
  <2>1. ASSUME NEW s \in Token PROVE LeaseAgrees(s)'
    BY <1>2 DEF LeaseLapse, tableVars, leaseVars, Leased, LeaseRowAgreement, LeaseAgrees, RowAgrees, MayPost, TypeOK
  <2>2. ASSUME NEW q \in Rsv PROVE RowAgrees(q)'
    BY <1>2 DEF LeaseLapse, tableVars, leaseVars, Leased, LeaseRowAgreement, LeaseAgrees, RowAgrees, MayPost, TypeOK
  <2> QED
    BY <2>1, <2>2 DEF LeaseRowAgreement
<1>3. ASSUME NEW r \in Rsv, NEW b \in Bot, NEW u \in User, NEW arrived \in BOOLEAN,
             TakeOver(r, b, u, arrived)
      PROVE  LeaseRowAgreement'
  <2>1. ASSUME NEW s \in Token PROVE LeaseAgrees(s)'
    BY <1>3 DEF TakeOver, tableVars, leaseVars, LeaseRowAgreement, LeaseAgrees, RowAgrees, MayPost, TypeOK
  <2>2. ASSUME NEW q \in Rsv PROVE RowAgrees(q)'
    BY <1>3 DEF TakeOver, tableVars, leaseVars, LeaseRowAgreement, LeaseAgrees, RowAgrees, MayPost, TypeOK
  <2> QED
    BY <2>1, <2>2 DEF LeaseRowAgreement
<1>4. ASSUME NEW r \in Rsv, NEW b \in Bot, UpdateDeliveryCapability(r, b)
      PROVE  LeaseRowAgreement'
  <2>1. ASSUME NEW s \in Token PROVE LeaseAgrees(s)'
    BY <1>4 DEF UpdateDeliveryCapability, tableVars, leaseVars, CanReassign, LeaseRowAgreement, LeaseAgrees, RowAgrees, MayPost, TypeOK
  <2>2. ASSUME NEW q \in Rsv PROVE RowAgrees(q)'
    BY <1>4 DEF UpdateDeliveryCapability, tableVars, leaseVars, CanReassign, LeaseRowAgreement, LeaseAgrees, RowAgrees, MayPost, TypeOK
  <2> QED
    BY <2>1, <2>2 DEF LeaseRowAgreement
<1>5. ASSUME NEW r \in Rsv, NEW on \in BOOLEAN, NEW fires \in BOOLEAN, ProtectionChange(r, on, fires)
      PROVE  LeaseRowAgreement'
  <2>1. ASSUME NEW s \in Token PROVE LeaseAgrees(s)'
    BY <1>5 DEF ProtectionChange, leaseVars, LeaseRowAgreement, LeaseAgrees, RowAgrees, MayPost, TypeOK
  <2>2. ASSUME NEW q \in Rsv PROVE RowAgrees(q)'
    BY <1>5 DEF ProtectionChange, leaseVars, LeaseRowAgreement, LeaseAgrees, RowAgrees, MayPost, TypeOK
  <2> QED
    BY <2>1, <2>2 DEF LeaseRowAgreement
<1>6. ASSUME NEW b \in Bot, NEW k \in Kind, NEW S \in SUBSET Rsv, NEW heard \in BOOLEAN,
             NEW fresh \in [S -> Unissued], Claim(b, k, S, Rows(S), fresh, heard)
      PROVE  LeaseRowAgreement'
  <2>0. /\ \A r \in S :
              /\ fresh[r] \in Token /\ phase[fresh[r]] = "unissued"
              /\ phase'[fresh[r]] = PhaseOnClaim(Row(r), k, heard)
              /\ of'[fresh[r]] = r
              /\ said'[fresh[r]] = outcome[r]
        /\ \A t \in Token : (\A r \in S : fresh[r] # t) =>
              /\ phase'[t] = phase[t] /\ of'[t] = of[t] /\ said'[t] = said[t]
    BY <1>6, ClaimRows
  <2>1. /\ \A r \in Rsv : status'[r] = IF r \in S THEN StatusOnClaim(Row(r), k) ELSE status[r]
        /\ \A r \in Rsv : claimToken'[r] = IF r \in S THEN fresh[r] ELSE claimToken[r]
        /\ outcome' = outcome
        /\ \A r \in S : status[r] \in {"ready", "processing", "prepared"}
    <3>1. \A r \in S : Row(r).status = status[r]
      BY DEF Row
    <3>2. \A r \in S : status[r] \in {"ready", "processing", "prepared"}
      BY <1>6, <3>1, ClaimRows DEF Claimable, Leased
    <3>3. /\ \A r \in Rsv : status'[r] = IF r \in S THEN StatusOnClaim(Row(r), k) ELSE status[r]
          /\ \A r \in Rsv : claimToken'[r] = IF r \in S THEN fresh[r] ELSE claimToken[r]
          /\ outcome' = outcome
      <4>1. \A r \in Rsv : status'[r] = IF r \in S THEN StatusOnClaim(Row(r), k) ELSE status[r]
        BY <1>6, ClaimRows
      <4>2. /\ \A r \in Rsv : claimToken'[r] = IF r \in S THEN fresh[r] ELSE claimToken[r]
            /\ outcome' = outcome
        BY <1>6 DEF Claim
      <4> QED
        BY <4>1, <4>2
    <3> QED
      BY <3>2, <3>3
  <2>2. ASSUME NEW s \in Token PROVE LeaseAgrees(s)'
    <3>1. CASE \E r \in S : fresh[r] = s
      <4>1. PICK r \in S : fresh[r] = s
        BY <3>1
      <4>2. phase'[s] = PhaseOnClaim(Row(r), k, heard) /\ of'[s] = r /\ said'[s] = outcome[r]
        BY <2>0, <4>1
      <4>3. claimToken'[r] = s /\ status'[r] = StatusOnClaim(Row(r), k) /\ r \in Rsv
        BY <2>1, <4>1
      <4> QED
        BY <2>1, <4>2, <4>3 DEF StatusOnClaim, PhaseOnClaim, Row, LeaseAgrees, MayPost
    <3>2. CASE \A r \in S : fresh[r] # s
      <4>1. phase'[s] = phase[s] /\ of'[s] = of[s] /\ said'[s] = said[s]
        BY <2>0, <3>2
      <4>2. LeaseAgrees(s) /\ of[s] \in Rsv
        BY DEF LeaseRowAgreement, TypeOK
      <4>3. phase[s] \in MayPost => of[s] \notin S
        BY <2>1, <4>2 DEF LeaseAgrees
      <4> QED
        BY <2>1, <4>1, <4>2, <4>3 DEF LeaseAgrees, MayPost
    <3> QED
      BY <3>1, <3>2
  <2>3. ASSUME NEW q \in Rsv PROVE RowAgrees(q)'
    <3>1. CASE q \in S
      <4>1. Row(q).outcome = outcome[q]
        BY DEF Row
      <4>2. /\ claimToken'[q] = fresh[q] /\ fresh[q] \in Token /\ of'[fresh[q]] = q
            /\ phase'[fresh[q]] # "unissued"
        BY <2>0, <2>1, <3>1 DEF PhaseOnClaim
      <4>3. /\ outcome'[q] = outcome[q]
            /\ status'[q] = IF outcome[q] = NoOutcome THEN "processing"
                            ELSE IF k = "legacy" THEN "sending" ELSE "prepared"
        BY <2>1, <3>1, <4>1 DEF StatusOnClaim
      <4> QED
        BY <4>2, <4>3, ConstantAssumption DEF RowAgrees
    <3>2. CASE q \notin S
      BY <2>0, <2>1, <3>2 DEF StatusOnClaim, PhaseOnClaim, Claimable, Leased, LeaseRowAgreement, LeaseAgrees, RowAgrees, MayPost, TypeOK
    <3> QED
      BY <3>1, <3>2
  <2> QED
    BY <2>2, <2>3 DEF LeaseRowAgreement
<1>7. ASSUME NEW t \in Token, NEW o \in Outcome, NEW settle \in BOOLEAN, NEW heard \in BOOLEAN,
             PrepareOutcome(t, o, settle, heard)
      PROVE  LeaseRowAgreement'
  <2>1. ASSUME NEW s \in Token PROVE LeaseAgrees(s)'
    BY <1>7 DEF PrepareOutcome, Hear, Known, Freeze, LeaseRowAgreement, LeaseAgrees, RowAgrees, MayPost, TypeOK
  <2>2. ASSUME NEW q \in Rsv PROVE RowAgrees(q)'
    BY <1>7 DEF PrepareOutcome, Hear, Known, Freeze, LeaseRowAgreement, LeaseAgrees, RowAgrees, MayPost, TypeOK
  <2> QED
    BY <2>1, <2>2 DEF LeaseRowAgreement
<1>8. ASSUME NEW t \in Token, NEW o \in Outcome, NEW heard \in BOOLEAN, SaveOutcome(t, Row(of[t]), o, heard)
      PROVE  LeaseRowAgreement'
  <2>1. ASSUME NEW s \in Token PROVE LeaseAgrees(s)'
    BY <1>8 DEF SaveOutcome, Row, Hear, tableVars, Known, LeaseRowAgreement, LeaseAgrees, RowAgrees, MayPost, TypeOK
  <2>2. ASSUME NEW q \in Rsv PROVE RowAgrees(q)'
    BY <1>8 DEF SaveOutcome, Row, Hear, tableVars, Known, LeaseRowAgreement, LeaseAgrees, RowAgrees, MayPost, TypeOK
  <2> QED
    BY <2>1, <2>2 DEF LeaseRowAgreement
<1>9. ASSUME NEW t \in Token, NEW heard \in BOOLEAN, MarkSending(t, Row(of[t]), heard)
      PROVE  LeaseRowAgreement'
  <2>1. ASSUME NEW s \in Token PROVE LeaseAgrees(s)'
    BY <1>9 DEF MarkSending, Row, Hear, tableVars, Known, LeaseRowAgreement, LeaseAgrees, RowAgrees, MayPost, TypeOK
  <2>2. ASSUME NEW q \in Rsv PROVE RowAgrees(q)'
    BY <1>9 DEF MarkSending, Row, Hear, tableVars, Known, LeaseRowAgreement, LeaseAgrees, RowAgrees, MayPost, TypeOK
  <2> QED
    BY <2>1, <2>2 DEF LeaseRowAgreement
<1>10. ASSUME NEW t \in Token, Post(t)
      PROVE  LeaseRowAgreement'
  <2>1. ASSUME NEW s \in Token PROVE LeaseAgrees(s)'
    BY <1>10 DEF Post, tableVars, rowVars, LeaseRowAgreement, LeaseAgrees, RowAgrees, MayPost, TypeOK
  <2>2. ASSUME NEW q \in Rsv PROVE RowAgrees(q)'
    BY <1>10 DEF Post, tableVars, rowVars, LeaseRowAgreement, LeaseAgrees, RowAgrees, MayPost, TypeOK
  <2> QED
    BY <2>1, <2>2 DEF LeaseRowAgreement
<1>11. ASSUME NEW t \in Token, NEW withEvent \in BOOLEAN, NEW heard \in BOOLEAN,
              Complete(t, Row(of[t]), withEvent, heard)
      PROVE  LeaseRowAgreement'
  <2>1. ASSUME NEW s \in Token PROVE LeaseAgrees(s)'
    BY <1>11 DEF Complete, Row, Hear, LeaseRowAgreement, LeaseAgrees, RowAgrees, MayPost, TypeOK
  <2>2. ASSUME NEW q \in Rsv PROVE RowAgrees(q)'
    BY <1>11 DEF Complete, Row, Hear, LeaseRowAgreement, LeaseAgrees, RowAgrees, MayPost, TypeOK
  <2> QED
    BY <2>1, <2>2 DEF LeaseRowAgreement
<1>12. ASSUME NEW t \in Token, LegacyEvent(t, Row(of[t]))
      PROVE  LeaseRowAgreement'
  <2>1. ASSUME NEW s \in Token PROVE LeaseAgrees(s)'
    BY <1>12 DEF LegacyEvent, Row, rowVars, leaseVars, LeaseRowAgreement, LeaseAgrees, RowAgrees, MayPost, TypeOK
  <2>2. ASSUME NEW q \in Rsv PROVE RowAgrees(q)'
    BY <1>12 DEF LegacyEvent, Row, rowVars, leaseVars, LeaseRowAgreement, LeaseAgrees, RowAgrees, MayPost, TypeOK
  <2> QED
    BY <2>1, <2>2 DEF LeaseRowAgreement
<1>13. ASSUME NEW t \in Token, Release(t, Row(of[t]))
      PROVE  LeaseRowAgreement'
  <2>1. ASSUME NEW s \in Token PROVE LeaseAgrees(s)'
    BY <1>13 DEF Release, Row, tableVars, Leased, LeaseRowAgreement, LeaseAgrees, RowAgrees, MayPost, TypeOK
  <2>2. ASSUME NEW q \in Rsv PROVE RowAgrees(q)'
    BY <1>13 DEF Release, Row, tableVars, Leased, LeaseRowAgreement, LeaseAgrees, RowAgrees, MayPost, TypeOK
  <2> QED
    BY <2>1, <2>2 DEF LeaseRowAgreement
<1>14. ASSUME NEW t \in Token, Drop(t)
      PROVE  LeaseRowAgreement'
  <2>1. ASSUME NEW s \in Token PROVE LeaseAgrees(s)'
    BY <1>14 DEF Drop, tableVars, rowVars, LeaseRowAgreement, LeaseAgrees, RowAgrees, MayPost, TypeOK
  <2>2. ASSUME NEW q \in Rsv PROVE RowAgrees(q)'
    BY <1>14 DEF Drop, tableVars, rowVars, LeaseRowAgreement, LeaseAgrees, RowAgrees, MayPost, TypeOK
  <2> QED
    BY <2>1, <2>2 DEF LeaseRowAgreement
<1>15. ASSUME NEW u \in User, RoastFeed(u)
      PROVE  LeaseRowAgreement'
  <2>1. ASSUME NEW s \in Token PROVE LeaseAgrees(s)'
    BY <1>15 DEF RoastFeed, rowVars, leaseVars, LeaseRowAgreement, LeaseAgrees, RowAgrees, MayPost, TypeOK
  <2>2. ASSUME NEW q \in Rsv PROVE RowAgrees(q)'
    BY <1>15 DEF RoastFeed, rowVars, leaseVars, LeaseRowAgreement, LeaseAgrees, RowAgrees, MayPost, TypeOK
  <2> QED
    BY <2>1, <2>2 DEF LeaseRowAgreement
<1>16. CASE UNCHANGED vars
  BY <1>16 DEF vars, rowVars, tableVars, leaseVars, LeaseRowAgreement, LeaseAgrees, RowAgrees, MayPost, TypeOK
<1> QED
  BY <1>1, <1>2, <1>3, <1>4, <1>5, <1>6, <1>7, <1>8, <1>9, <1>10, <1>11, <1>12, <1>13, <1>14, <1>15, <1>16, StepsAreLocked
     DEF LockedStep

(* With row locks, every lease agrees with its row in every behaviour:       *)
(* whatever is claimed again, answered late or repeated, a process allowed   *)
(* to post owns the row and carries the frozen result.                       *)
THEOREM AgreementHolds == ASSUME RowLocks PROVE Spec => []LeaseRowAgreement
<1>1. Init => TypeOK /\ LeaseRowAgreement
  BY InitType, InitAgreement
<1>2. TypeOK /\ LeaseRowAgreement /\ [Next]_vars => (TypeOK /\ LeaseRowAgreement)'
  BY NextType, NextAgreement
<1> QED
  BY <1>1, <1>2, PTL DEF Spec

(* Types and agreement together: the inductive invariant of the handlers     *)
(* that hold the row lock from their read to their commit.                   *)
THEOREM ConsistencyHolds == ASSUME RowLocks PROVE Spec => []Consistent
  BY TypeCorrect, AgreementHolds, PTL DEF Consistent

(* With row locks, at most one lease of a reservation ever posts in the      *)
(* group.                                                                    *)
THEOREM SendsOnce == ASSUME RowLocks PROVE Spec => []AtMostOneSend
<1>1. TypeOK /\ LeaseRowAgreement => AtMostOneSend
  BY DEF TypeOK, LeaseRowAgreement, LeaseAgrees, AtMostOneSend, Posted, MayPost
<1> QED
  BY <1>1, TypeCorrect, AgreementHolds, PTL

(* With row locks, what the group is shown is the result frozen in the row.  *)
THEOREM SendsTheFrozenResult == ASSUME RowLocks PROVE Spec => []SentIsFrozen
<1>1. TypeOK /\ LeaseRowAgreement => SentIsFrozen
  BY DEF TypeOK, LeaseRowAgreement, LeaseAgrees, SentIsFrozen, Posted, MayPost
<1> QED
  BY <1>1, TypeCorrect, AgreementHolds, PTL

-----------------------------------------------------------------------------
(* Steps of a frozen row. *)

Frozen == \A r \in Rsv : outcome[r] # NoOutcome =>
             outcome'[r] = outcome[r] /\ feedResults'[r] = feedResults[r]

Final == \A r \in Rsv : status[r] \in {"sending", "completed"} =>
            /\ claimToken'[r] = claimToken[r]
            /\ bot'[r] = bot[r]
            /\ status'[r] \in {status[r], "completed"}

(* No step changes a frozen result or the feed receipts frozen with it. *)
LEMMA FrozenStep == RowLocks /\ TypeOK /\ LeaseRowAgreement /\ [Next]_vars => Frozen
<1> SUFFICES ASSUME RowLocks, TypeOK, LeaseRowAgreement, [Next]_vars PROVE Frozen
  OBVIOUS
<1>1. ASSUME NEW r \in Rsv, Activate(r, Row(r))
      PROVE  Frozen
  BY <1>1 DEF Activate, Row, tableVars, leaseVars, Frozen
<1>2. ASSUME NEW r \in Rsv, LeaseLapse(r)
      PROVE  Frozen
  BY <1>2 DEF LeaseLapse, tableVars, leaseVars, Frozen
<1>3. ASSUME NEW r \in Rsv, NEW b \in Bot, NEW u \in User, NEW arrived \in BOOLEAN,
             TakeOver(r, b, u, arrived)
      PROVE  Frozen
  BY <1>3 DEF TakeOver, tableVars, leaseVars, Frozen
<1>4. ASSUME NEW r \in Rsv, NEW b \in Bot, UpdateDeliveryCapability(r, b)
      PROVE  Frozen
  BY <1>4 DEF UpdateDeliveryCapability, tableVars, leaseVars, Frozen
<1>5. ASSUME NEW r \in Rsv, NEW on \in BOOLEAN, NEW fires \in BOOLEAN, ProtectionChange(r, on, fires)
      PROVE  Frozen
  BY <1>5 DEF ProtectionChange, leaseVars, Frozen
<1>6. ASSUME NEW b \in Bot, NEW k \in Kind, NEW S \in SUBSET Rsv, NEW heard \in BOOLEAN,
             NEW fresh \in [S -> Unissued], Claim(b, k, S, Rows(S), fresh, heard)
      PROVE  Frozen
  BY <1>6 DEF Claim, StatusOnClaim, tableVars, Frozen
<1>7. ASSUME NEW t \in Token, NEW o \in Outcome, NEW settle \in BOOLEAN, NEW heard \in BOOLEAN,
             PrepareOutcome(t, o, settle, heard)
      PROVE  Frozen
  BY <1>7 DEF PrepareOutcome, Hear, Freeze, Frozen, TypeOK
<1>8. ASSUME NEW t \in Token, NEW o \in Outcome, NEW heard \in BOOLEAN, SaveOutcome(t, Row(of[t]), o, heard)
      PROVE  Frozen
  BY <1>8 DEF SaveOutcome, Row, Hear, tableVars, Frozen, TypeOK
<1>9. ASSUME NEW t \in Token, NEW heard \in BOOLEAN, MarkSending(t, Row(of[t]), heard)
      PROVE  Frozen
  BY <1>9 DEF MarkSending, Row, Hear, tableVars, Frozen
<1>10. ASSUME NEW t \in Token, Post(t)
      PROVE  Frozen
  BY <1>10 DEF Post, tableVars, rowVars, Frozen
<1>11. ASSUME NEW t \in Token, NEW withEvent \in BOOLEAN, NEW heard \in BOOLEAN,
              Complete(t, Row(of[t]), withEvent, heard)
      PROVE  Frozen
  BY <1>11 DEF Complete, Row, Hear, Frozen
<1>12. ASSUME NEW t \in Token, LegacyEvent(t, Row(of[t]))
      PROVE  Frozen
  BY <1>12 DEF LegacyEvent, Row, rowVars, leaseVars, Frozen
<1>13. ASSUME NEW t \in Token, Release(t, Row(of[t]))
      PROVE  Frozen
  BY <1>13 DEF Release, Row, tableVars, Frozen
<1>14. ASSUME NEW t \in Token, Drop(t)
      PROVE  Frozen
  BY <1>14 DEF Drop, tableVars, rowVars, Frozen
<1>15. ASSUME NEW u \in User, RoastFeed(u)
      PROVE  Frozen
  BY <1>15 DEF RoastFeed, rowVars, leaseVars, Frozen
<1>16. CASE UNCHANGED vars
  BY <1>16 DEF vars, rowVars, tableVars, leaseVars, Frozen
<1> QED
  BY <1>1, <1>2, <1>3, <1>4, <1>5, <1>6, <1>7, <1>8, <1>9, <1>10, <1>11, <1>12, <1>13, <1>14, <1>15, <1>16, StepsAreLocked
     DEF LockedStep

(* With row locks, the result of a reservation is drawn once: retries, other *)
(* leases and old clients read it back.                                      *)
THEOREM ResultsAreFrozen == ASSUME RowLocks PROVE Spec => FrozenForever
<1>1. [Next]_vars /\ TypeOK /\ LeaseRowAgreement => [Frozen]_vars
  BY FrozenStep
<1> QED
  BY <1>1, TypeCorrect, AgreementHolds, PTL DEF Spec, FrozenForever, Frozen

(* No step takes a row back from sending. *)
LEMMA FinalStep == RowLocks /\ TypeOK /\ LeaseRowAgreement /\ [Next]_vars => Final
<1> SUFFICES ASSUME RowLocks, TypeOK, LeaseRowAgreement, [Next]_vars PROVE Final
  OBVIOUS
<1>1. ASSUME NEW r \in Rsv, Activate(r, Row(r))
      PROVE  Final
  BY <1>1 DEF Activate, Row, tableVars, leaseVars, Final, TypeOK
<1>2. ASSUME NEW r \in Rsv, LeaseLapse(r)
      PROVE  Final
  BY <1>2 DEF LeaseLapse, tableVars, leaseVars, Final, TypeOK
<1>3. ASSUME NEW r \in Rsv, NEW b \in Bot, NEW u \in User, NEW arrived \in BOOLEAN,
             TakeOver(r, b, u, arrived)
      PROVE  Final
  BY <1>3 DEF TakeOver, tableVars, leaseVars, Final, TypeOK
<1>4. ASSUME NEW r \in Rsv, NEW b \in Bot, UpdateDeliveryCapability(r, b)
      PROVE  Final
  BY <1>4 DEF UpdateDeliveryCapability, tableVars, leaseVars, CanReassign, Final, TypeOK
<1>5. ASSUME NEW r \in Rsv, NEW on \in BOOLEAN, NEW fires \in BOOLEAN, ProtectionChange(r, on, fires)
      PROVE  Final
  BY <1>5 DEF ProtectionChange, leaseVars, Final, TypeOK
<1>6. ASSUME NEW b \in Bot, NEW k \in Kind, NEW S \in SUBSET Rsv, NEW heard \in BOOLEAN,
             NEW fresh \in [S -> Unissued], Claim(b, k, S, Rows(S), fresh, heard)
      PROVE  Final
  <2>1. \A r \in S : Row(r).status = status[r]
    BY DEF Row
  <2>2. /\ \A r \in S : status[r] \notin {"sending", "completed"}
        /\ \A r \in Rsv \ S : status'[r] = status[r]
    BY <1>6, <2>1, ClaimRows DEF Claimable, Leased
  <2>3. \A r \in Rsv \ S : claimToken'[r] = claimToken[r] /\ bot'[r] = bot[r]
    BY <1>6 DEF Claim
  <2> QED
    BY <2>2, <2>3 DEF Final
<1>7. ASSUME NEW t \in Token, NEW o \in Outcome, NEW settle \in BOOLEAN, NEW heard \in BOOLEAN,
             PrepareOutcome(t, o, settle, heard)
      PROVE  Final
  BY <1>7 DEF PrepareOutcome, Hear, Final, TypeOK
<1>8. ASSUME NEW t \in Token, NEW o \in Outcome, NEW heard \in BOOLEAN, SaveOutcome(t, Row(of[t]), o, heard)
      PROVE  Final
  BY <1>8 DEF SaveOutcome, Row, Hear, tableVars, Final, TypeOK
<1>9. ASSUME NEW t \in Token, NEW heard \in BOOLEAN, MarkSending(t, Row(of[t]), heard)
      PROVE  Final
  BY <1>9 DEF MarkSending, Row, Hear, tableVars, Final, TypeOK
<1>10. ASSUME NEW t \in Token, Post(t)
      PROVE  Final
  BY <1>10 DEF Post, tableVars, rowVars, Final, TypeOK
<1>11. ASSUME NEW t \in Token, NEW withEvent \in BOOLEAN, NEW heard \in BOOLEAN,
              Complete(t, Row(of[t]), withEvent, heard)
      PROVE  Final
  BY <1>11 DEF Complete, Row, Hear, Final, TypeOK
<1>12. ASSUME NEW t \in Token, LegacyEvent(t, Row(of[t]))
      PROVE  Final
  BY <1>12 DEF LegacyEvent, Row, rowVars, leaseVars, Final, TypeOK
<1>13. ASSUME NEW t \in Token, Release(t, Row(of[t]))
      PROVE  Final
  BY <1>13 DEF Release, Row, tableVars, Leased, Final, TypeOK
<1>14. ASSUME NEW t \in Token, Drop(t)
      PROVE  Final
  BY <1>14 DEF Drop, tableVars, rowVars, Final, TypeOK
<1>15. ASSUME NEW u \in User, RoastFeed(u)
      PROVE  Final
  BY <1>15 DEF RoastFeed, rowVars, leaseVars, Final, TypeOK
<1>16. CASE UNCHANGED vars
  BY <1>16 DEF vars, rowVars, tableVars, leaseVars, Final
<1> QED
  BY <1>1, <1>2, <1>3, <1>4, <1>5, <1>6, <1>7, <1>8, <1>9, <1>10, <1>11, <1>12, <1>13, <1>14, <1>15, <1>16, StepsAreLocked
     DEF LockedStep

(* With row locks, a row that reached sending keeps its token and its sender *)
(* until it is completed: no claim, release or takeover recovers it.         *)
THEOREM SendingStaysFinal == ASSUME RowLocks PROVE Spec => SendingIsFinal
<1>1. [Next]_vars /\ TypeOK /\ LeaseRowAgreement => [Final]_vars
  BY FinalStep
<1> QED
  BY <1>1, TypeCorrect, AgreementHolds, PTL DEF Spec, SendingIsFinal, Final

-----------------------------------------------------------------------------
(* What a result pays. *)

(* Only the freezing step counts a broken protection. *)
LEMMA NextOneHitPerSuccess == RowLocks /\ TypeOK /\ LeaseRowAgreement /\ OneHitPerSuccess /\ [Next]_vars => OneHitPerSuccess'
<1> SUFFICES ASSUME RowLocks, TypeOK, LeaseRowAgreement, OneHitPerSuccess, [Next]_vars PROVE OneHitPerSuccess'
  OBVIOUS
<1>1. ASSUME NEW r \in Rsv, Activate(r, Row(r))
      PROVE  OneHitPerSuccess'
  BY <1>1 DEF Activate, Row, tableVars, leaseVars, OneHitPerSuccess, TypeOK
<1>2. ASSUME NEW r \in Rsv, LeaseLapse(r)
      PROVE  OneHitPerSuccess'
  BY <1>2 DEF LeaseLapse, tableVars, leaseVars, OneHitPerSuccess, TypeOK
<1>3. ASSUME NEW r \in Rsv, NEW b \in Bot, NEW u \in User, NEW arrived \in BOOLEAN,
             TakeOver(r, b, u, arrived)
      PROVE  OneHitPerSuccess'
  BY <1>3 DEF TakeOver, tableVars, leaseVars, OneHitPerSuccess, TypeOK
<1>4. ASSUME NEW r \in Rsv, NEW b \in Bot, UpdateDeliveryCapability(r, b)
      PROVE  OneHitPerSuccess'
  BY <1>4 DEF UpdateDeliveryCapability, tableVars, leaseVars, OneHitPerSuccess, TypeOK
<1>5. ASSUME NEW r \in Rsv, NEW on \in BOOLEAN, NEW fires \in BOOLEAN, ProtectionChange(r, on, fires)
      PROVE  OneHitPerSuccess'
  BY <1>5 DEF ProtectionChange, leaseVars, OneHitPerSuccess, TypeOK
<1>6. ASSUME NEW b \in Bot, NEW k \in Kind, NEW S \in SUBSET Rsv, NEW heard \in BOOLEAN,
             NEW fresh \in [S -> Unissued], Claim(b, k, S, Rows(S), fresh, heard)
      PROVE  OneHitPerSuccess'
  BY <1>6 DEF Claim, StatusOnClaim, tableVars, OneHitPerSuccess, TypeOK
<1>7. ASSUME NEW t \in Token, NEW o \in Outcome, NEW settle \in BOOLEAN, NEW heard \in BOOLEAN,
             PrepareOutcome(t, o, settle, heard)
      PROVE  OneHitPerSuccess'
  <2>1. CASE Freeze(of[t], o, settle) /\ outcome[of[t]] = NoOutcome
    <3>0. of[t] \in Rsv /\ hits[of[t]] \in Nat
      BY DEF TypeOK
    <3>1. of[t] \in Rsv /\ hits[of[t]] = 0
      BY <2>1, <3>0 DEF OneHitPerSuccess
    <3>2. hits'[of[t]] \in {0, 1} /\ (hits'[of[t]] = 1 => o = Success) /\ outcome'[of[t]] = o
      BY <2>1, <3>1 DEF Freeze, TypeOK
    <3>3. \A r \in Rsv : r # of[t] => hits'[r] = hits[r] /\ outcome'[r] = outcome[r]
      BY <2>1, <3>1 DEF Freeze, TypeOK
    <3> QED
      BY <3>2, <3>3 DEF OneHitPerSuccess
  <2>2. CASE UNCHANGED <<outcome, feedResults, hits, fed, growth>>
    BY <2>2 DEF OneHitPerSuccess
  <2> QED
    BY <1>7, <2>1, <2>2 DEF PrepareOutcome
<1>8. ASSUME NEW t \in Token, NEW o \in Outcome, NEW heard \in BOOLEAN, SaveOutcome(t, Row(of[t]), o, heard)
      PROVE  OneHitPerSuccess'
  BY <1>8 DEF SaveOutcome, Row, Hear, tableVars, OneHitPerSuccess, TypeOK
<1>9. ASSUME NEW t \in Token, NEW heard \in BOOLEAN, MarkSending(t, Row(of[t]), heard)
      PROVE  OneHitPerSuccess'
  BY <1>9 DEF MarkSending, Row, Hear, tableVars, OneHitPerSuccess, TypeOK
<1>10. ASSUME NEW t \in Token, Post(t)
      PROVE  OneHitPerSuccess'
  BY <1>10 DEF Post, tableVars, rowVars, OneHitPerSuccess, TypeOK
<1>11. ASSUME NEW t \in Token, NEW withEvent \in BOOLEAN, NEW heard \in BOOLEAN,
              Complete(t, Row(of[t]), withEvent, heard)
      PROVE  OneHitPerSuccess'
  BY <1>11 DEF Complete, Row, Hear, OneHitPerSuccess, TypeOK
<1>12. ASSUME NEW t \in Token, LegacyEvent(t, Row(of[t]))
      PROVE  OneHitPerSuccess'
  BY <1>12 DEF LegacyEvent, Row, rowVars, leaseVars, OneHitPerSuccess, TypeOK
<1>13. ASSUME NEW t \in Token, Release(t, Row(of[t]))
      PROVE  OneHitPerSuccess'
  BY <1>13 DEF Release, Row, tableVars, OneHitPerSuccess, TypeOK
<1>14. ASSUME NEW t \in Token, Drop(t)
      PROVE  OneHitPerSuccess'
  BY <1>14 DEF Drop, tableVars, rowVars, OneHitPerSuccess, TypeOK
<1>15. ASSUME NEW u \in User, RoastFeed(u)
      PROVE  OneHitPerSuccess'
  BY <1>15 DEF RoastFeed, rowVars, leaseVars, OneHitPerSuccess, TypeOK
<1>16. CASE UNCHANGED vars
  BY <1>16 DEF vars, rowVars, tableVars, leaseVars, OneHitPerSuccess, LeaseRowAgreement, RowAgrees, TypeOK
<1> QED
  BY <1>1, <1>2, <1>3, <1>4, <1>5, <1>6, <1>7, <1>8, <1>9, <1>10, <1>11, <1>12, <1>13, <1>14, <1>15, <1>16, StepsAreLocked
     DEF LockedStep

(* With row locks, a broken protection is counted once, with the successful  *)
(* result.                                                                   *)
THEOREM HitsOnce == ASSUME RowLocks PROVE Spec => []OneHitPerSuccess
<1>1. Init => OneHitPerSuccess
  BY DEF Init, TypeOK, OneHitPerSuccess
<1>2. TypeOK /\ LeaseRowAgreement /\ OneHitPerSuccess /\ [Next]_vars => OneHitPerSuccess'
  BY NextOneHitPerSuccess
<1> QED
  BY <1>1, <1>2, TypeCorrect, AgreementHolds, PTL DEF Spec

(* Receipts, feed rows and growth move together. *)
LEMMA NextFeedAccounting == RowLocks /\ TypeOK /\ LeaseRowAgreement /\ FeedAccounting /\ [Next]_vars => FeedAccounting'
<1> SUFFICES ASSUME RowLocks, TypeOK, LeaseRowAgreement, FeedAccounting, [Next]_vars PROVE FeedAccounting'
  OBVIOUS
<1>1. ASSUME NEW r \in Rsv, Activate(r, Row(r))
      PROVE  FeedAccounting'
  BY <1>1 DEF Activate, Row, tableVars, leaseVars, FeedAccounting, TypeOK
<1>2. ASSUME NEW r \in Rsv, LeaseLapse(r)
      PROVE  FeedAccounting'
  BY <1>2 DEF LeaseLapse, tableVars, leaseVars, FeedAccounting, TypeOK
<1>3. ASSUME NEW r \in Rsv, NEW b \in Bot, NEW u \in User, NEW arrived \in BOOLEAN,
             TakeOver(r, b, u, arrived)
      PROVE  FeedAccounting'
  BY <1>3 DEF TakeOver, tableVars, leaseVars, FeedAccounting, TypeOK
<1>4. ASSUME NEW r \in Rsv, NEW b \in Bot, UpdateDeliveryCapability(r, b)
      PROVE  FeedAccounting'
  BY <1>4 DEF UpdateDeliveryCapability, tableVars, leaseVars, FeedAccounting, TypeOK
<1>5. ASSUME NEW r \in Rsv, NEW on \in BOOLEAN, NEW fires \in BOOLEAN, ProtectionChange(r, on, fires)
      PROVE  FeedAccounting'
  BY <1>5 DEF ProtectionChange, leaseVars, FeedAccounting, TypeOK
<1>6. ASSUME NEW b \in Bot, NEW k \in Kind, NEW S \in SUBSET Rsv, NEW heard \in BOOLEAN,
             NEW fresh \in [S -> Unissued], Claim(b, k, S, Rows(S), fresh, heard)
      PROVE  FeedAccounting'
  BY <1>6 DEF Claim, StatusOnClaim, tableVars, FeedAccounting, TypeOK
<1>7. ASSUME NEW t \in Token, NEW o \in Outcome, NEW settle \in BOOLEAN, NEW heard \in BOOLEAN,
             PrepareOutcome(t, o, settle, heard)
      PROVE  FeedAccounting'
  <2>1. CASE Freeze(of[t], o, settle) /\ outcome[of[t]] = NoOutcome
    <3> DEFINE lucky == FeedNow(of[t], o, settle)
    <3>1. /\ lucky \in SUBSET User
          /\ \A u \in lucky : fed[u] = NoFeed
          /\ lucky # {} => o = Success
      BY DEF FeedNow, TypeOK
    <3>2. of[t] \in Rsv /\ feedResults[of[t]] = {}
      <4>1. of[t] \in Rsv
        BY DEF TypeOK
      <4>2. outcome[of[t]] # Success
        BY <2>1, ConstantAssumption
      <4> QED
        BY <4>1, <4>2 DEF FeedAccounting
    <3>3. /\ \A r \in Rsv : feedResults'[r] = IF r = of[t] THEN lucky ELSE feedResults[r]
          /\ \A r \in Rsv : outcome'[r] = IF r = of[t] THEN o ELSE outcome[r]
          /\ \A u \in User : fed'[u] = IF u \in lucky THEN of[t] ELSE fed[u]
          /\ \A u \in User : growth'[u] = IF u \in lucky THEN growth[u] + 1 ELSE growth[u]
      BY <2>1, <3>2 DEF Freeze, TypeOK
    <3> HIDE DEF lucky
    <3>4. ASSUME NEW u \in User PROVE growth'[u] = (IF fed'[u] = NoFeed THEN 0 ELSE 1)
      BY <3>1, <3>2, <3>3 DEF FeedAccounting, TypeOK
    <3>5. ASSUME NEW r \in Rsv, NEW u \in User PROVE u \in feedResults'[r] <=> fed'[u] = r
      BY <3>1, <3>2, <3>3 DEF FeedAccounting
    <3>6. ASSUME NEW r \in Rsv, feedResults'[r] # {} PROVE outcome'[r] = Success
      BY <3>1, <3>3, <3>6 DEF FeedAccounting
    <3> QED
      BY <3>4, <3>5, <3>6 DEF FeedAccounting
  <2>2. CASE UNCHANGED <<outcome, feedResults, hits, fed, growth>>
    BY <2>2 DEF FeedAccounting
  <2> QED
    BY <1>7, <2>1, <2>2 DEF PrepareOutcome
<1>8. ASSUME NEW t \in Token, NEW o \in Outcome, NEW heard \in BOOLEAN, SaveOutcome(t, Row(of[t]), o, heard)
      PROVE  FeedAccounting'
  BY <1>8 DEF SaveOutcome, Row, tableVars, FeedAccounting, TypeOK
<1>9. ASSUME NEW t \in Token, NEW heard \in BOOLEAN, MarkSending(t, Row(of[t]), heard)
      PROVE  FeedAccounting'
  BY <1>9 DEF MarkSending, Row, Hear, tableVars, FeedAccounting, TypeOK
<1>10. ASSUME NEW t \in Token, Post(t)
      PROVE  FeedAccounting'
  BY <1>10 DEF Post, tableVars, rowVars, FeedAccounting, TypeOK
<1>11. ASSUME NEW t \in Token, NEW withEvent \in BOOLEAN, NEW heard \in BOOLEAN,
              Complete(t, Row(of[t]), withEvent, heard)
      PROVE  FeedAccounting'
  BY <1>11 DEF Complete, Row, Hear, FeedAccounting, TypeOK
<1>12. ASSUME NEW t \in Token, LegacyEvent(t, Row(of[t]))
      PROVE  FeedAccounting'
  BY <1>12 DEF LegacyEvent, Row, rowVars, leaseVars, FeedAccounting, TypeOK
<1>13. ASSUME NEW t \in Token, Release(t, Row(of[t]))
      PROVE  FeedAccounting'
  BY <1>13 DEF Release, Row, tableVars, FeedAccounting, TypeOK
<1>14. ASSUME NEW t \in Token, Drop(t)
      PROVE  FeedAccounting'
  BY <1>14 DEF Drop, tableVars, rowVars, FeedAccounting, TypeOK
<1>15. ASSUME NEW u \in User, RoastFeed(u)
      PROVE  FeedAccounting'
  BY <1>15 DEF RoastFeed, rowVars, leaseVars, FeedAccounting, TypeOK
<1>16. CASE UNCHANGED vars
  BY <1>16 DEF vars, rowVars, tableVars, leaseVars, FeedAccounting, LeaseRowAgreement, RowAgrees, TypeOK
<1> QED
  BY <1>1, <1>2, <1>3, <1>4, <1>5, <1>6, <1>7, <1>8, <1>9, <1>10, <1>11, <1>12, <1>13, <1>14, <1>15, <1>16, StepsAreLocked
     DEF LockedStep

(* With row locks, a user grows once a day, and the row that fed them says   *)
(* so: no late /outcome replaces the success that was settled.               *)
THEOREM GrowthIsAccounted == ASSUME RowLocks PROVE Spec => []FeedAccounting
<1>1. Init => FeedAccounting
  BY DEF Init, TypeOK, FeedAccounting
<1>2. TypeOK /\ LeaseRowAgreement /\ FeedAccounting /\ [Next]_vars => FeedAccounting'
  BY NextFeedAccounting
<1> QED
  BY <1>1, <1>2, TypeCorrect, AgreementHolds, PTL DEF Spec

(* Only /complete and /events write events, of the result that was sent. *)
LEMMA NextOneEvent == RowLocks /\ TypeOK /\ LeaseRowAgreement /\ OneEvent /\ [Next]_vars => OneEvent'
<1> SUFFICES ASSUME RowLocks, TypeOK, LeaseRowAgreement, OneEvent, [Next]_vars PROVE OneEvent'
  OBVIOUS
<1>1. ASSUME NEW r \in Rsv, Activate(r, Row(r))
      PROVE  OneEvent'
  <2>1. ASSUME NEW q \in Rsv PROVE Posted(q)' = Posted(q)
    BY <1>1 DEF Activate, Row, tableVars, leaseVars, Posted, TypeOK
  <2> QED
    BY <1>1, <2>1 DEF Activate, Row, tableVars, leaseVars, OneEvent, TypeOK
<1>2. ASSUME NEW r \in Rsv, LeaseLapse(r)
      PROVE  OneEvent'
  <2>1. ASSUME NEW q \in Rsv PROVE Posted(q)' = Posted(q)
    BY <1>2 DEF LeaseLapse, tableVars, leaseVars, Posted, TypeOK
  <2> QED
    BY <1>2, <2>1 DEF LeaseLapse, tableVars, leaseVars, OneEvent, TypeOK
<1>3. ASSUME NEW r \in Rsv, NEW b \in Bot, NEW u \in User, NEW arrived \in BOOLEAN,
             TakeOver(r, b, u, arrived)
      PROVE  OneEvent'
  <2>1. ASSUME NEW q \in Rsv PROVE Posted(q)' = Posted(q)
    BY <1>3 DEF TakeOver, tableVars, leaseVars, Posted, TypeOK
  <2> QED
    BY <1>3, <2>1 DEF TakeOver, tableVars, leaseVars, OneEvent, TypeOK
<1>4. ASSUME NEW r \in Rsv, NEW b \in Bot, UpdateDeliveryCapability(r, b)
      PROVE  OneEvent'
  <2>1. ASSUME NEW q \in Rsv PROVE Posted(q)' = Posted(q)
    BY <1>4 DEF UpdateDeliveryCapability, tableVars, leaseVars, Posted, TypeOK
  <2> QED
    BY <1>4, <2>1 DEF UpdateDeliveryCapability, tableVars, leaseVars, OneEvent, TypeOK
<1>5. ASSUME NEW r \in Rsv, NEW on \in BOOLEAN, NEW fires \in BOOLEAN, ProtectionChange(r, on, fires)
      PROVE  OneEvent'
  <2>1. ASSUME NEW q \in Rsv PROVE Posted(q)' = Posted(q)
    BY <1>5 DEF ProtectionChange, leaseVars, Posted, TypeOK
  <2> QED
    BY <1>5, <2>1 DEF ProtectionChange, leaseVars, OneEvent, TypeOK
<1>6. ASSUME NEW b \in Bot, NEW k \in Kind, NEW S \in SUBSET Rsv, NEW heard \in BOOLEAN,
             NEW fresh \in [S -> Unissued], Claim(b, k, S, Rows(S), fresh, heard)
      PROVE  OneEvent'
  <2>1. ASSUME NEW q \in Rsv PROVE Posted(q) \subseteq Posted(q)'
    <3> SUFFICES ASSUME NEW t \in Posted(q) PROVE t \in Posted(q)'
      OBVIOUS
    <3>1. t \in Token /\ phase[t] # "unissued"
      BY DEF Posted
    <3>2. phase'[t] = phase[t] /\ of'[t] = of[t]
      BY <1>6, <3>1, ClaimRows
    <3> QED
      BY <3>2 DEF Posted
  <2> QED
    BY <1>6, <2>1 DEF Claim, tableVars, OneEvent
<1>7. ASSUME NEW t \in Token, NEW o \in Outcome, NEW settle \in BOOLEAN, NEW heard \in BOOLEAN,
             PrepareOutcome(t, o, settle, heard)
      PROVE  OneEvent'
  <2>1. ASSUME NEW q \in Rsv PROVE Posted(q)' = Posted(q)
    BY <1>7 DEF PrepareOutcome, Hear, Posted, TypeOK
  <2>2. ASSUME NEW q \in Rsv, outcome[q] # NoOutcome PROVE outcome'[q] = outcome[q]
    BY <1>7, <2>2 DEF PrepareOutcome, Freeze, TypeOK
  <2>3. events' = events
    BY <1>7 DEF PrepareOutcome
  <2> QED
    BY <2>1, <2>2, <2>3 DEF OneEvent
<1>8. ASSUME NEW t \in Token, NEW o \in Outcome, NEW heard \in BOOLEAN, SaveOutcome(t, Row(of[t]), o, heard)
      PROVE  OneEvent'
  <2>1. ASSUME NEW q \in Rsv PROVE Posted(q)' = Posted(q)
    BY <1>8 DEF SaveOutcome, Row, Hear, Posted, TypeOK
  <2>2. ASSUME NEW q \in Rsv, outcome[q] # NoOutcome PROVE outcome'[q] = outcome[q]
    BY <1>8, <2>2 DEF SaveOutcome, Row, TypeOK
  <2>3. events' = events
    BY <1>8 DEF SaveOutcome, Row, tableVars
  <2> QED
    BY <2>1, <2>2, <2>3 DEF OneEvent
<1>9. ASSUME NEW t \in Token, NEW heard \in BOOLEAN, MarkSending(t, Row(of[t]), heard)
      PROVE  OneEvent'
  <2>1. ASSUME NEW q \in Rsv PROVE Posted(q)' = Posted(q)
    BY <1>9 DEF MarkSending, Row, Hear, tableVars, Posted, TypeOK
  <2> QED
    BY <1>9, <2>1 DEF MarkSending, Row, Hear, tableVars, OneEvent, TypeOK
<1>10. ASSUME NEW t \in Token, Post(t)
      PROVE  OneEvent'
  <2>1. ASSUME NEW q \in Rsv PROVE Posted(q) \subseteq Posted(q)'
    BY <1>10 DEF Post, Posted, TypeOK
  <2> QED
    BY <1>10, <2>1 DEF Post, rowVars, tableVars, OneEvent
<1>11. ASSUME NEW t \in Token, NEW withEvent \in BOOLEAN, NEW heard \in BOOLEAN,
              Complete(t, Row(of[t]), withEvent, heard)
      PROVE  OneEvent'
  <2>1. of[t] \in Rsv /\ said[t] = outcome[of[t]] /\ outcome[of[t]] \in Outcome
    BY <1>11 DEF Complete, Row, LeaseRowAgreement, LeaseAgrees, MayPost, TypeOK
  <2>2. ASSUME NEW q \in Rsv PROVE Posted(q)' = Posted(q)
    BY <1>11 DEF Complete, Row, Hear, Posted, TypeOK
  <2>3. t \in Posted(of[t])
    BY <1>11 DEF Complete, Row, Posted
  <2>4. CASE events' = events
    BY <1>11, <2>2, <2>4 DEF Complete, Row, OneEvent
  <2>5. CASE RecordEvent(of[t], Row(of[t]), said[t])
    <3>1. CASE Recorded(of[t])
      BY <1>11, <2>2, <3>1, <2>5 DEF Complete, Row, RecordEvent, OneEvent
    <3>2. CASE ~Recorded(of[t])
      <4>1. \A o \in Outcome : events[of[t]][o] = 0
        BY <2>1, <3>2 DEF Recorded, TypeOK
      <4>2. \A q \in Rsv, o \in Outcome :
              events'[q][o] = IF q = of[t] /\ o = said[t] THEN events[q][o] + 1 ELSE events[q][o]
        BY <2>1, <2>5, <3>2 DEF RecordEvent, Row, TypeOK
      <4>3. outcome' = outcome
        BY <1>11 DEF Complete
      <4> QED
        BY <2>1, <2>2, <2>3, <4>1, <4>2, <4>3 DEF OneEvent
    <3> QED
      BY <3>1, <3>2
  <2> QED
    BY <1>11, <2>4, <2>5 DEF Complete
<1>12. ASSUME NEW t \in Token, LegacyEvent(t, Row(of[t]))
      PROVE  OneEvent'
  <2>1. of[t] \in Rsv /\ said[t] = outcome[of[t]] /\ outcome[of[t]] \in Outcome
    BY <1>12 DEF LegacyEvent, Row, LeaseRowAgreement, LeaseAgrees, MayPost, TypeOK
  <2>2. ASSUME NEW q \in Rsv PROVE Posted(q)' = Posted(q)
    BY <1>12 DEF LegacyEvent, Row, rowVars, leaseVars, Posted, TypeOK
  <2>3. t \in Posted(of[t])
    BY <1>12 DEF LegacyEvent, Row, Posted
  <2>4. CASE events' = events
    BY <1>12, <2>2, <2>4 DEF LegacyEvent, Row, rowVars, OneEvent
  <2>5. CASE RecordEvent(of[t], Row(of[t]), said[t])
    <3>1. CASE Recorded(of[t])
      BY <1>12, <2>2, <3>1, <2>5 DEF LegacyEvent, Row, rowVars, RecordEvent, OneEvent
    <3>2. CASE ~Recorded(of[t])
      <4>1. \A o \in Outcome : events[of[t]][o] = 0
        BY <2>1, <3>2 DEF Recorded, TypeOK
      <4>2. \A q \in Rsv, o \in Outcome :
              events'[q][o] = IF q = of[t] /\ o = said[t] THEN events[q][o] + 1 ELSE events[q][o]
        BY <2>1, <2>5, <3>2 DEF RecordEvent, Row, TypeOK
      <4>3. outcome' = outcome
        BY <1>12 DEF LegacyEvent, Row, rowVars
      <4> QED
        BY <2>1, <2>2, <2>3, <4>1, <4>2, <4>3 DEF OneEvent
    <3> QED
      BY <3>1, <3>2
  <2> QED
    BY <1>12, <2>4, <2>5 DEF LegacyEvent
<1>13. ASSUME NEW t \in Token, Release(t, Row(of[t]))
      PROVE  OneEvent'
  <2>1. ASSUME NEW q \in Rsv PROVE Posted(q)' = Posted(q)
    BY <1>13 DEF Release, Row, tableVars, Posted, TypeOK
  <2> QED
    BY <1>13, <2>1 DEF Release, Row, tableVars, OneEvent, TypeOK
<1>14. ASSUME NEW t \in Token, Drop(t)
      PROVE  OneEvent'
  <2>1. ASSUME NEW q \in Rsv PROVE Posted(q)' = Posted(q)
    BY <1>14 DEF Drop, tableVars, rowVars, Posted, TypeOK
  <2> QED
    BY <1>14, <2>1 DEF Drop, tableVars, rowVars, OneEvent, TypeOK
<1>15. ASSUME NEW u \in User, RoastFeed(u)
      PROVE  OneEvent'
  <2>1. ASSUME NEW q \in Rsv PROVE Posted(q)' = Posted(q)
    BY <1>15 DEF RoastFeed, rowVars, leaseVars, Posted, TypeOK
  <2> QED
    BY <1>15, <2>1 DEF RoastFeed, rowVars, leaseVars, OneEvent, TypeOK
<1>16. CASE UNCHANGED vars
  BY <1>16 DEF vars, rowVars, tableVars, leaseVars, OneEvent, Posted
<1> QED
  BY <1>1, <1>2, <1>3, <1>4, <1>5, <1>6, <1>7, <1>8, <1>9, <1>10, <1>11, <1>12, <1>13, <1>14, <1>15, <1>16, StepsAreLocked
     DEF LockedStep

(* With row locks, a reservation has at most one event, of the frozen result *)
(* that was sent, although roast_events has no unique key for it.            *)
THEOREM EventsOnce == ASSUME RowLocks PROVE Spec => []OneEvent
<1>1. Init => OneEvent
  BY DEF Init, TypeOK, OneEvent
<1>2. TypeOK /\ LeaseRowAgreement /\ OneEvent /\ [Next]_vars => OneEvent'
  BY NextOneEvent
<1> QED
  BY <1>1, <1>2, TypeCorrect, AgreementHolds, PTL DEF Spec

(* With row locks: one message, one broken protection, one event for a       *)
(* reservation.                                                              *)
THEOREM SettlesOnce == ASSUME RowLocks PROVE Spec => []SettledOnce
  BY SendsOnce, HitsOnce, EventsOnce, PTL DEF SettledOnce

-----------------------------------------------------------------------------
(* Delivery implements OnceDelivery: the result is decided by the step that  *)
(* freezes it and shown by the step that posts it.                           *)

(* What the group was shown is the same after a step in which nothing is     *)
(* posted and the posting leases keep their row and result.                  *)
LEMMA ShownSame ==
  ASSUME TypeOK, \A t \in Token :
            /\ phase'[t] \in {"sent", "done"} <=> phase[t] \in {"sent", "done"}
            /\ phase[t] \in {"sent", "done"} => of'[t] = of[t] /\ said'[t] = said[t]
  PROVE  Shown' = Shown
<1>1. ASSUME NEW r \in Rsv PROVE Posted(r)' = Posted(r)
  BY DEF Posted
<1>2. ASSUME NEW r \in Rsv PROVE Sender(r)' = Sender(r)
  BY <1>1 DEF Sender
<1>3. ASSUME NEW r \in Rsv, Posted(r) # {} PROVE said'[Sender(r)] = said[Sender(r)]
  <2>1. Sender(r) \in Posted(r)
    BY <1>3 DEF Sender
  <2> QED
    BY <2>1 DEF Posted
<1> QED
  BY <1>1, <1>2, <1>3 DEF Shown

AbstractStep == Once!Next \/ UNCHANGED <<outcome, Shown>>

(* Every step decides, posts or leaves what the group sees alone. *)
LEMMA NextImplements == RowLocks /\ TypeOK /\ LeaseRowAgreement /\ [Next]_vars => AbstractStep
<1> SUFFICES ASSUME RowLocks, TypeOK, LeaseRowAgreement, [Next]_vars PROVE AbstractStep
  OBVIOUS
<1>1. ASSUME NEW r \in Rsv, Activate(r, Row(r))
      PROVE  AbstractStep
  BY <1>1, ShownSame DEF Activate, Row, tableVars, leaseVars, AbstractStep, TypeOK
<1>2. ASSUME NEW r \in Rsv, LeaseLapse(r)
      PROVE  AbstractStep
  BY <1>2, ShownSame DEF LeaseLapse, tableVars, leaseVars, AbstractStep, TypeOK
<1>3. ASSUME NEW r \in Rsv, NEW b \in Bot, NEW u \in User, NEW arrived \in BOOLEAN,
             TakeOver(r, b, u, arrived)
      PROVE  AbstractStep
  BY <1>3, ShownSame DEF TakeOver, tableVars, leaseVars, AbstractStep, TypeOK
<1>4. ASSUME NEW r \in Rsv, NEW b \in Bot, UpdateDeliveryCapability(r, b)
      PROVE  AbstractStep
  BY <1>4, ShownSame DEF UpdateDeliveryCapability, tableVars, leaseVars, AbstractStep, TypeOK
<1>5. ASSUME NEW r \in Rsv, NEW on \in BOOLEAN, NEW fires \in BOOLEAN, ProtectionChange(r, on, fires)
      PROVE  AbstractStep
  BY <1>5, ShownSame DEF ProtectionChange, leaseVars, AbstractStep, TypeOK
<1>6. ASSUME NEW b \in Bot, NEW k \in Kind, NEW S \in SUBSET Rsv, NEW heard \in BOOLEAN,
             NEW fresh \in [S -> Unissued], Claim(b, k, S, Rows(S), fresh, heard)
      PROVE  AbstractStep
  <2>1. ASSUME NEW t \in Token
        PROVE  /\ phase'[t] \in {"sent", "done"} <=> phase[t] \in {"sent", "done"}
               /\ phase[t] \in {"sent", "done"} => of'[t] = of[t] /\ said'[t] = said[t]
    <3>1. CASE \E r \in S : fresh[r] = t
      <4>1. phase[t] = "unissued" /\ phase'[t] \notin {"sent", "done"}
        BY <1>6, <3>1, ClaimRows DEF PhaseOnClaim
      <4> QED
        BY <4>1
    <3>2. CASE \A r \in S : fresh[r] # t
      BY <1>6, <3>2, ClaimRows
    <3> QED
      BY <3>1, <3>2
  <2>2. Shown' = Shown
    BY <2>1, ShownSame
  <2> QED
    BY <1>6, <2>2 DEF Claim, AbstractStep
<1>7. ASSUME NEW t \in Token, NEW o \in Outcome, NEW settle \in BOOLEAN, NEW heard \in BOOLEAN,
             PrepareOutcome(t, o, settle, heard)
      PROVE  AbstractStep
  <2>1. Shown' = Shown
    BY <1>7, ShownSame DEF PrepareOutcome, Hear, TypeOK
  <2>2. of[t] \in Rsv
    BY DEF TypeOK
  <2>3. CASE outcome[of[t]] = NoOutcome /\ Freeze(of[t], o, settle)
    BY <2>1, <2>2, <2>3 DEF AbstractStep, Once!Next, Once!Decide, Freeze
  <2>4. CASE UNCHANGED outcome
    BY <2>1, <2>4 DEF AbstractStep
  <2> QED
    BY <1>7, <2>3, <2>4 DEF PrepareOutcome, Hear
<1>8. ASSUME NEW t \in Token, NEW o \in Outcome, NEW heard \in BOOLEAN, SaveOutcome(t, Row(of[t]), o, heard)
      PROVE  AbstractStep
  <2>1. Shown' = Shown
    BY <1>8, ShownSame DEF SaveOutcome, Row, Hear, TypeOK
  <2>2. of[t] \in Rsv
    BY DEF TypeOK
  <2>3. CASE outcome[of[t]] = NoOutcome /\ outcome' = [outcome EXCEPT ![of[t]] = o]
    BY <2>1, <2>2, <2>3 DEF AbstractStep, Once!Next, Once!Decide
  <2>4. CASE UNCHANGED outcome
    BY <2>1, <2>4 DEF AbstractStep
  <2> QED
    BY <1>8, <2>3, <2>4 DEF SaveOutcome, Row, Hear
<1>9. ASSUME NEW t \in Token, NEW heard \in BOOLEAN, MarkSending(t, Row(of[t]), heard)
      PROVE  AbstractStep
  BY <1>9, ShownSame DEF MarkSending, Row, Hear, tableVars, AbstractStep, TypeOK
<1>10. ASSUME NEW t \in Token, Post(t)
      PROVE  AbstractStep
  <2>0. PICK r \in Rsv : r = of[t]
    BY DEF TypeOK
  <2>1. /\ r \in Rsv /\ phase[t] = "cleared" /\ claimToken[r] = t
        /\ outcome[r] # NoOutcome /\ said[t] = outcome[r]
    BY <1>10, <2>0 DEF Post, LeaseRowAgreement, LeaseAgrees, MayPost, TypeOK
  <2>2. Posted(r) = {}
    BY <2>0, <2>1 DEF Posted, LeaseRowAgreement, LeaseAgrees, MayPost
  <2>3. Posted(r)' = {t}
    BY <1>10, <2>0, <2>2 DEF Post, Posted, TypeOK
  <2>4. \A q \in Rsv : q # r => Posted(q)' = Posted(q)
    BY <1>10, <2>0 DEF Post, Posted, TypeOK
  <2>5. said' = said /\ outcome' = outcome
    BY <1>10 DEF Post, rowVars
  <2>6. Shown[r] = NoOutcome
    BY <2>1, <2>2 DEF Shown
  <2>7. Shown' = [Shown EXCEPT ![r] = outcome[r]]
    <3>1. Sender(r)' = t
      BY <2>3 DEF Sender
    <3>2. ASSUME NEW q \in Rsv, q # r PROVE Sender(q)' = Sender(q)
      BY <2>4, <3>2 DEF Sender
    <3>3. Shown'[r] = outcome[r]
      BY <2>1, <2>3, <2>5, <3>1 DEF Shown
    <3>4. ASSUME NEW q \in Rsv, q # r PROVE Shown'[q] = Shown[q]
      BY <2>4, <2>5, <3>2, <3>4 DEF Shown
    <3> QED
      BY <2>1, <3>3, <3>4 DEF Shown
  <2> QED
    BY <2>1, <2>5, <2>6, <2>7 DEF AbstractStep, Once!Next, Once!Post
<1>11. ASSUME NEW t \in Token, NEW withEvent \in BOOLEAN, NEW heard \in BOOLEAN,
              Complete(t, Row(of[t]), withEvent, heard)
      PROVE  AbstractStep
  BY <1>11, ShownSame DEF Complete, Row, Hear, AbstractStep, TypeOK
<1>12. ASSUME NEW t \in Token, LegacyEvent(t, Row(of[t]))
      PROVE  AbstractStep
  BY <1>12, ShownSame DEF LegacyEvent, Row, rowVars, leaseVars, AbstractStep, TypeOK
<1>13. ASSUME NEW t \in Token, Release(t, Row(of[t]))
      PROVE  AbstractStep
  BY <1>13, ShownSame DEF Release, Row, tableVars, AbstractStep, TypeOK
<1>14. ASSUME NEW t \in Token, Drop(t)
      PROVE  AbstractStep
  BY <1>14, ShownSame DEF Drop, tableVars, rowVars, AbstractStep, TypeOK
<1>15. ASSUME NEW u \in User, RoastFeed(u)
      PROVE  AbstractStep
  BY <1>15, ShownSame DEF RoastFeed, rowVars, leaseVars, AbstractStep, TypeOK
<1>16. CASE UNCHANGED vars
  BY <1>16, ShownSame DEF vars, rowVars, tableVars, leaseVars, AbstractStep
<1> QED
  BY <1>1, <1>2, <1>3, <1>4, <1>5, <1>6, <1>7, <1>8, <1>9, <1>10, <1>11, <1>12, <1>13, <1>14, <1>15, <1>16, StepsAreLocked
     DEF LockedStep

(* With row locks, a reservation shows its group at most one result, the one *)
(* that was drawn first, whatever leases lapse, answers get lost and         *)
(* requests repeat.                                                          *)
THEOREM DeliversOnce == ASSUME RowLocks PROVE Spec => ImplementsOnce
<1>1. Init => Once!Init
  BY DEF Init, Once!Init, Shown, Posted
<1>2. TypeOK /\ LeaseRowAgreement /\ [Next]_vars => [Once!Next]_Once!vars
  BY NextImplements DEF AbstractStep, Once!vars
<1> QED
  BY <1>1, <1>2, TypeCorrect, AgreementHolds, PTL DEF Spec, ImplementsOnce, Once!Spec
=============================================================================
