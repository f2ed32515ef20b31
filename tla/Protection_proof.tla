---------------------------- MODULE Protection_proof ----------------------------
(***************************************************************************)
(* Theorems about Protection, for any clients, levels, streaks of days and *)
(* numbers of breaks.                                                      *)
(***************************************************************************)
EXTENDS Protection, TLAPS

(* A row: no source counts breaks from before it was given. *)
Counted(r) ==
    /\ r \in [level : [Source -> Level], base : [Source -> 0 .. MaxHits],
              days : Nat, hits : 0 .. MaxHits]
    /\ \A s \in Source : r.base[s] <= r.hits

Notice == [status : {"none", "pending", "processing", "sending", "sent"},
           holder : Client \cup {Nobody}, stale : BOOLEAN]

Wait == [st : {"none", "pending", "ready"}, need : 0 .. MaxLevel + 1, fire : 0 .. MaxFire,
         arrived : BOOLEAN, notice : Notice]

Types ==
    /\ Counted(shield) /\ wait \in Wait /\ worth \in [Source -> Level]
    /\ global \in Level /\ yesterday \in Streak
    /\ rolled \in BOOLEAN /\ replying \in BOOLEAN /\ late \in BOOLEAN
    /\ client \in [Client -> [phase : {"away", "holds", "told", "posted"}, need : 0 .. MaxLevel + 1]]
    /\ mine \subseteq Client

(* A reservation whose target is there waits for fire alone; a notice that a *)
(* client holds is about such a wait and the threshold that holds.           *)
LeaseSound ==
    wait.st = "pending" =>
        /\ wait.arrived => wait.fire < wait.need
        /\ wait.notice.holder # Nobody =>
              LET c == wait.notice.holder IN
              /\ wait.arrived
              /\ client[c].phase # "away" => client[c].need = wait.need

(* The clients that are about to show the latest notice. *)
Tellers == {c \in mine : client[c].phase = "told"}

(* The notice can still be taken, or its holder does not know that the       *)
(* service has agreed to its being sent.                                     *)
Unsent ==
    \/ wait.notice.status \in {"pending", "processing"}
    \/ /\ wait.notice.status = "sending" /\ wait.notice.holder # Nobody
       /\ client[wait.notice.holder].phase = "holds"

(* One client at most shows the notice, and nobody has before it is sent. *)
ShownOnce ==
    /\ shown \in {0, 1}
    /\ \A c, d \in Tellers : c = d
    /\ shown = 1 \/ Unsent => Tellers = {}
    /\ Unsent => shown = 0

IInv ==
    /\ Types
    /\ protection_levels(shield) = worth
    /\ NeedFollowsLevel
    /\ LeaseSound
    /\ ShownOnce

-----------------------------------------------------------------------------
(* Levels *)

(* Each source has a level, and a source without one stays without. *)
LEMMA LevelsTyped ==
    ASSUME NEW r, Counted(r)
    PROVE  /\ protection_levels(r) \in [Source -> Level]
           /\ \A s \in Source : /\ protection_levels(r)[s] = 0 <=> r.level[s] = 0
                                /\ r.level[s] # 0 =>
                                     protection_levels(r)[s]
                                         = Least(MaxLevel, r.level[s] + (r.hits - r.base[s]))
<1>1. ASSUME NEW s \in Source
      PROVE  /\ r.level[s] \in 0 .. MaxLevel /\ r.base[s] \in 0 .. MaxHits /\ r.hits \in 0 .. MaxHits
             /\ r.base[s] <= r.hits /\ MaxLevel \in Nat /\ MaxHits \in Nat
    BY <1>1, ProtectionAssumption DEF Counted, Level
<1>2. ASSUME NEW s \in Source, r.level[s] # 0
      PROVE  Least(MaxLevel, r.level[s] + (r.hits - r.base[s])) \in 1 .. MaxLevel
    BY <1>1, <1>2 DEF Least
<1> QED
    BY <1>1, <1>2, ProtectionAssumption DEF protection_levels, Level

(* The level of the row is the highest of its sources. *)
LEMMA ThresholdTyped ==
    ASSUME NEW r, Counted(r)
    PROVE  Threshold(r) \in 0 .. MaxLevel + 1
<1> DEFINE l == protection_levels(r)
<1>1. l \in [Source -> Level] /\ MaxLevel \in Nat
    BY LevelsTyped, ProtectionAssumption
<1> HIDE DEF l
<1>2. \E m \in Level : (\E s \in Source : l[s] = m) /\ (\A s \in Source : l[s] <= m)
    <2>1. l["daily"] \in Level /\ l["manual"] \in Level /\ l["legacy"] \in Level
        BY <1>1 DEF Source
    <2>2. \E t \in Source : \A s \in Source : l[s] <= l[t]
        BY <1>1, <2>1 DEF Source, Level
    <2> QED
        BY <1>1, <2>2
<1>3. protection_level(r) \in Level
    BY <1>2 DEF protection_level, l
<1> QED
    BY <1>1, <1>3 DEF Threshold, Level

Broken(r) == [r EXCEPT !.hits = @ + 1]

(* A break raises every source by one, up to the highest level. *)
LEMMA BreakRaises ==
    ASSUME Types, protection_levels(shield) = worth, shield.hits < MaxHits
    PROVE  /\ Counted(Broken(shield))
           /\ protection_levels(Broken(shield))
                = [s \in Source |-> IF worth[s] = 0 THEN 0 ELSE Least(MaxLevel, worth[s] + 1)]
<1> DEFINE r == Broken(shield)
<1>1. Counted(shield) /\ MaxLevel \in Nat /\ MaxHits \in Nat
    BY ProtectionAssumption DEF Types
<1>2. Counted(r) /\ r.level = shield.level /\ r.base = shield.base /\ r.hits = shield.hits + 1
    BY <1>1 DEF Counted, Broken
<1> HIDE DEF r
<1>3. ASSUME NEW s \in Source
      PROVE  protection_levels(r)[s] = IF worth[s] = 0 THEN 0 ELSE Least(MaxLevel, worth[s] + 1)
    <2>1. /\ shield.level[s] \in 0 .. MaxLevel /\ shield.base[s] \in 0 .. MaxHits
          /\ shield.hits \in 0 .. MaxHits /\ shield.base[s] <= shield.hits
        BY <1>1 DEF Counted, Level
    <2>2. worth[s] = 0 <=> shield.level[s] = 0
        BY <1>1, LevelsTyped
    <2>3. CASE shield.level[s] = 0
        BY <1>2, <2>2, <2>3, LevelsTyped
    <2>4. CASE shield.level[s] # 0
        <3>1. worth[s] = Least(MaxLevel, shield.level[s] + (shield.hits - shield.base[s]))
            BY <1>1, <2>4, LevelsTyped
        <3>2. protection_levels(r)[s]
                = Least(MaxLevel, shield.level[s] + (shield.hits + 1 - shield.base[s]))
            <4>1. protection_levels(r)[s] = Least(MaxLevel, r.level[s] + (r.hits - r.base[s]))
                BY <1>2, <2>4, LevelsTyped
            <4> QED
                BY <1>1, <1>2, <2>1, <4>1 DEF Least
        <3> QED
            BY <1>1, <2>1, <2>2, <2>4, <3>1, <3>2 DEF Least
    <2> QED
        BY <2>3, <2>4
<1>4. protection_levels(r) \in [Source -> Level]
    BY <1>2, LevelsTyped
<1>5. protection_levels(r) = [s \in Source |-> IF worth[s] = 0 THEN 0 ELSE Least(MaxLevel, worth[s] + 1)]
    BY <1>3, <1>4
<1> QED
    BY <1>2, <1>5 DEF r

-----------------------------------------------------------------------------
(* The reservation and its notice *)

LEMMA NoticesTyped ==
    /\ Silent \in Notice /\ Register \in Notice /\ Silent # Register
    /\ Silent.status = "none" /\ Silent.holder = Nobody
    /\ Register.status = "pending" /\ Register.holder = Nobody
BY DEF Silent, Register, Notice

(* a is what w becomes when the user has come. *)
Activates(w, a) == a = Activated(w, TRUE) \/ a = Activated(w, FALSE)

LEMMA Activation ==
    ASSUME NEW w \in Wait, NEW a, Activates(w, a), w.st = "pending"
    PROVE  /\ a \in Wait /\ a.need = w.need /\ a.fire = w.fire /\ a.arrived
           /\ a.st = IF w.fire >= w.need THEN "ready" ELSE "pending"
           /\ a.notice \in {w.notice, Silent, Register}
           /\ a.notice = Silent \/ a.notice = w.notice \/ (a = Activated(w, TRUE) /\ ~w.arrived)
<1>1. CASE w.fire >= w.need
    <2>1. a = [w EXCEPT !.arrived = TRUE, !.st = "ready", !.notice = Silent]
        BY <1>1 DEF Activates, Activated
    <2> QED
        BY <1>1, <2>1, NoticesTyped DEF Wait
<1>2. CASE ~(w.fire >= w.need)
    <2>1. PICK n \in {w.notice, Register} :
             /\ a = [w EXCEPT !.arrived = TRUE, !.notice = n]
             /\ n = w.notice \/ (a = Activated(w, TRUE) /\ ~w.arrived)
        BY <1>2 DEF Activates, Activated
    <2> QED
        BY <1>2, <2>1, NoticesTyped DEF Wait
<1> QED
    BY <1>1, <1>2

(* A step that changes the reservation keeps what is true of leases and of   *)
(* those who show the notice, if it keeps the notice of the same wait,       *)
(* drops it, or registers a new one.                                         *)
LEMMA NoticeStep ==
    ASSUME Types, LeaseSound, ShownOnce, UNCHANGED client,
           UNCHANGED <<mine, shown>> \/ Count,
           wait'.st = "pending" /\ wait'.arrived => wait'.fire < wait'.need,
           \/ wait'.notice = Silent
           \/ wait'.notice = Register /\ Count
           \/ /\ wait'.notice = wait.notice
              /\ wait'.st = "pending" /\ wait.notice.holder # Nobody =>
                    /\ wait.st = "pending" /\ wait'.need = wait.need
                    /\ wait'.fire = wait.fire /\ wait'.arrived = wait.arrived
    PROVE  LeaseSound' /\ ShownOnce'
<1>1. LeaseSound'
    BY NoticesTyped DEF LeaseSound
<1> DEFINE registers == wait'.notice = Register /\ wait.notice # Register
<1>2. CASE registers
    <2>1. Count
        BY <1>2, NoticesTyped
    <2>2. mine' = {} /\ shown' = 0
        BY <1>2, <2>1 DEF Count
    <2>3. Tellers' = {}
        BY <2>2 DEF Tellers
    <2> QED
        BY <1>1, <2>2, <2>3 DEF ShownOnce
<1>3. CASE ~registers
    <2>1. UNCHANGED <<mine, shown>>
        BY <1>3 DEF Count
    <2>2. Tellers' = Tellers
        BY <2>1 DEF Tellers
    <2>3. wait'.notice \in {Silent, wait.notice}
        BY <1>3
    <2>4. Unsent' => Unsent
        BY <2>3, NoticesTyped DEF Unsent
    <2> QED
        BY <1>1, <2>1, <2>2, <2>4 DEF ShownOnce
<1> QED
    BY <1>2, <1>3

(* A step that changes nothing of the notice or the reservation. *)
LEMMA WaitUnchanged ==
    ASSUME Types, LeaseSound, ShownOnce, UNCHANGED <<wait, client, mine, shown>>
    PROVE  LeaseSound' /\ ShownOnce'
BY NoticeStep DEF LeaseSound

(* The reservation follows the row: it asks for the new threshold, and tells *)
(* of it unless it fires.                                                    *)
LEMMA BecomesStep ==
    ASSUME IInv, NEW r, Counted(r), Becomes(r), worth' = protection_levels(r), global' \in Level
    PROVE  IInv'
<1>0. wait \in Wait /\ Threshold(r) \in 0 .. MaxLevel + 1 /\ worth' \in [Source -> Level]
    BY ThresholdTyped, LevelsTyped DEF IInv, Types
<1>1. shield' = r /\ wait' = Synced(r) /\ Count
      /\ late' = FALSE /\ UNCHANGED <<yesterday, rolled, replying, client>>
    BY DEF Becomes
<1>2. CASE wait.st # "pending"
    <2>1. wait' = wait
        BY <1>1, <1>2 DEF Synced
    <2>2. LeaseSound' /\ ShownOnce'
        BY <1>1, <1>2, <2>1, NoticeStep DEF IInv
    <2>3. Types'
        BY <1>0, <1>1, <2>1 DEF IInv, Types, Count
    <2> QED
        BY <1>1, <1>2, <2>1, <2>2, <2>3 DEF IInv, NeedFollowsLevel
<1>3. CASE wait.st = "pending"
    <2> DEFINE w == [wait EXCEPT !.need = Threshold(r)]
               met == IF w.arrived THEN Activated(w, TRUE) ELSE w
    <2>1. /\ w \in Wait /\ w.st = "pending" /\ w.need = Threshold(r) /\ w.fire = wait.fire
          /\ w.arrived = wait.arrived /\ w.notice = wait.notice
        BY <1>0, <1>3 DEF Wait
    <2> HIDE DEF w
    <2>2. /\ met \in Wait /\ met.need = Threshold(r) /\ met.fire = wait.fire
          /\ met.arrived = wait.arrived /\ met.st \in {"pending", "ready"}
          /\ met.notice \in {wait.notice, Silent}
          /\ met.st = "pending" /\ met.arrived => met.fire < met.need
        <3>1. CASE w.arrived
            <4>1. Activates(w, met)
                BY <3>1 DEF Activates
            <4> HIDE DEF met
            <4>2. /\ met \in Wait /\ met.need = w.need /\ met.fire = w.fire /\ met.arrived
                  /\ met.st = IF w.fire >= w.need THEN "ready" ELSE "pending"
                  /\ met.notice = Silent \/ met.notice = w.notice \/ ~w.arrived
                BY <2>1, <4>1, Activation
            <4> QED
                BY <2>1, <3>1, <4>2 DEF Wait
        <3>2. CASE ~w.arrived
            BY <2>1, <3>2
        <3> QED
            BY <3>1, <3>2
    <2>3. wait' = IF met.st = "pending" /\ met.arrived /\ met.need # wait.need
                  THEN [met EXCEPT !.notice = Register] ELSE met
        BY <1>1, <1>3 DEF Synced, w
    <2> HIDE DEF met
    <2>4. CASE met.st = "pending" /\ met.arrived /\ met.need # wait.need
        <3>1. wait' \in Wait /\ wait'.need = Threshold(r) /\ wait'.notice = Register
            BY <2>2, <2>3, <2>4, NoticesTyped DEF Wait
        <3>2. LeaseSound' /\ ShownOnce'
            BY <1>1, <2>2, <2>3, <2>4, <3>1, NoticeStep DEF IInv, Wait
        <3>3. Types'
            BY <1>0, <1>1, <3>1 DEF IInv, Types, Count
        <3> QED
            BY <1>1, <3>1, <3>2, <3>3 DEF IInv, NeedFollowsLevel, Threshold
    <2>5. CASE ~(met.st = "pending" /\ met.arrived /\ met.need # wait.need)
        <3>1. wait' = met
            BY <2>3, <2>5
        <3>2. wait'.st = "pending" /\ wait.notice.holder # Nobody => wait'.need = wait.need
            BY <1>3, <2>2, <2>5, <3>1 DEF IInv, LeaseSound
        <3>3. LeaseSound' /\ ShownOnce'
            BY <1>1, <1>3, <2>2, <3>1, <3>2, NoticeStep DEF IInv
        <3>4. Types'
            BY <1>0, <1>1, <2>2, <3>1 DEF IInv, Types, Count
        <3> QED
            BY <1>1, <2>2, <3>1, <3>3, <3>4 DEF IInv, NeedFollowsLevel, Threshold
    <2> QED
        BY <2>4, <2>5
<1> QED
    BY <1>2, <1>3

-----------------------------------------------------------------------------
(* Grants, lists and copies of the global protection *)

(* A copy of the global row has its level. *)
LEMMA Copying ==
    ASSUME IInv
    PROVE  Counted(Copied) /\ protection_levels(Copied) = CopiedWorth
<1>0. Counted(shield) /\ protection_levels(shield) = worth /\ global \in Level /\ MaxLevel \in Nat
      /\ MaxHits \in Nat
    BY ProtectionAssumption DEF IInv, Types
<1>1. CASE Protected(shield)
    BY <1>0, <1>1 DEF Copied, CopiedWorth
<1>2. CASE ~Protected(shield) /\ global > 0
    <2> DEFINE r == inherited(global)
    <2>1. Counted(r) /\ \A s \in Source : /\ r.level[s] = IF s = "legacy" THEN global ELSE 0
                                          /\ r.base[s] = 0 /\ r.hits = 0
        BY <1>0 DEF inherited, NoRow, None, Counted, Level, Source
    <2> HIDE DEF r
    <2>2. ASSUME NEW s \in Source
          PROVE  protection_levels(r)[s] = IF s = "legacy" THEN global ELSE 0
        <3>1. CASE s = "legacy"
            BY <1>0, <1>2, <2>1, <3>1, LevelsTyped DEF Level, Least
        <3>2. CASE s # "legacy"
            BY <2>1, <3>2, LevelsTyped
        <3> QED
            BY <3>1, <3>2
    <2>3. protection_levels(r) = [s \in Source |-> IF s = "legacy" THEN global ELSE 0]
        BY <2>1, <2>2, LevelsTyped
    <2>4. CopiedWorth = [s \in Source |-> IF s = "legacy" THEN global ELSE 0]
        BY <1>2 DEF CopiedWorth, None, Source
    <2>5. Copied = r
        BY <1>2 DEF Copied, r
    <2> QED
        BY <2>1, <2>3, <2>4, <2>5
<1>3. CASE ~Protected(shield) /\ ~(global > 0)
    <2>1. Copied = shield /\ global = 0 /\ shield.level = None
        BY <1>0, <1>3 DEF Copied, Protected, Level
    <2>2. CopiedWorth = None
        BY <1>3, <2>1 DEF CopiedWorth, None, Source
    <2>3. \A s \in Source : worth[s] = 0
        BY <1>0, <2>1, LevelsTyped DEF None
    <2>4. worth = None
        BY <2>3, <1>0, LevelsTyped DEF None
    <2> QED
        BY <1>0, <2>1, <2>2, <2>4
<1> QED
    BY <1>1, <1>2, <1>3

Given(r, t, l, d) == [r EXCEPT !.level[t] = l, !.base[t] = r.hits, !.days = d]

(* A source that is given now counts from here. *)
LEMMA Giving ==
    ASSUME NEW r, Counted(r), NEW t \in Source, NEW l \in Level, NEW d \in Nat
    PROVE  /\ Counted(Given(r, t, l, d))
           /\ protection_levels(Given(r, t, l, d)) = [protection_levels(r) EXCEPT ![t] = l]
<1>0. MaxLevel \in Nat /\ MaxHits \in Nat /\ l \in 0 .. MaxLevel /\ r.hits \in 0 .. MaxHits
    BY ProtectionAssumption DEF Counted, Level
<1> DEFINE q == Given(r, t, l, d)
           level == [r.level EXCEPT ![t] = l]
           base == [r.base EXCEPT ![t] = r.hits]
<1>1. level \in [Source -> Level] /\ base \in [Source -> 0 .. MaxHits] /\ \A s \in Source : base[s] <= r.hits
    BY <1>0 DEF Counted
<1>2. q = [r EXCEPT !.level = level, !.base = base, !.days = d]
    BY DEF Given
<1>3. /\ level[t] = l /\ base[t] = r.hits
      /\ \A s \in Source \ {t} : level[s] = r.level[s] /\ base[s] = r.base[s]
    BY <1>0 DEF Counted
<1> HIDE DEF level, base
<1>4. Counted(q) /\ q.level = level /\ q.base = base /\ q.hits = r.hits
    BY <1>1, <1>2 DEF Counted
<1> HIDE DEF q
<1>5. ASSUME NEW s \in Source
      PROVE  protection_levels(q)[s] = [protection_levels(r) EXCEPT ![t] = l][s]
    <2>1. protection_levels(r) \in [Source -> Level] /\ protection_levels(q) \in [Source -> Level]
        BY <1>4, LevelsTyped
    <2>2. CASE s = t
        <3>1. protection_levels(q)[t] = l
            <4>1. CASE l = 0
                BY <1>3, <1>4, <4>1, LevelsTyped
            <4>2. CASE l # 0
                <5>1. protection_levels(q)[t] = Least(MaxLevel, l + (r.hits - r.hits))
                    BY <1>3, <1>4, <4>2, LevelsTyped
                <5> QED
                    BY <1>0, <5>1 DEF Least
            <4> QED
                BY <4>1, <4>2
        <3> QED
            BY <2>1, <2>2, <3>1
    <2>3. CASE s # t
        <3>1. protection_levels(q)[s] = protection_levels(r)[s]
            BY <1>3, <1>4, <2>3 DEF protection_levels
        <3> QED
            BY <2>1, <2>3, <3>1
    <2> QED
        BY <2>2, <2>3
<1>6. protection_levels(r) \in [Source -> Level] /\ protection_levels(q) \in [Source -> Level]
    BY <1>4, LevelsTyped
<1> QED
    BY <1>4, <1>5, <1>6 DEF q

LEMMA GrantStep ==
    ASSUME IInv, NEW l \in Granted, Grant(l)
    PROVE  IInv'
<1> DEFINE r == Copied
           q == ManualAdded(r, l)
<1>0. Counted(r) /\ protection_levels(r) = CopiedWorth /\ protection_levels(r) \in [Source -> Level]
    BY Copying, LevelsTyped
<1>1. l \in Level /\ "manual" \in Source /\ r.days \in Nat
    BY <1>0, ProtectionAssumption DEF Level, Source, Counted
<1> HIDE DEF r
<1>2. /\ Counted(q)
      /\ protection_levels(q) = [CopiedWorth EXCEPT !["manual"] = IF l > @ THEN l ELSE @]
    <2>1. CASE l > protection_levels(r)["manual"]
        <3>1. q = Given(r, "manual", l, r.days)
            <4> DEFINE level == [r.level EXCEPT !["manual"] = l]
                       base == [r.base EXCEPT !["manual"] = r.hits]
            <4>1. q = [r EXCEPT !.level = level, !.base = base]
                BY <2>1 DEF ManualAdded
            <4>2. Given(r, "manual", l, r.days) = [r EXCEPT !.level = level, !.base = base, !.days = r.days]
                BY DEF Given
            <4> HIDE DEF level, base
            <4> QED
                BY <1>0, <4>1, <4>2 DEF Counted
        <3> HIDE DEF q
        <3>2. Counted(q) /\ protection_levels(q) = [protection_levels(r) EXCEPT !["manual"] = l]
            BY <1>0, <1>1, <3>1, Giving
        <3> QED
            BY <1>0, <2>1, <3>2
    <2>2. CASE ~(l > protection_levels(r)["manual"])
        BY <1>0, <1>1, <2>2 DEF ManualAdded
    <2> QED
        BY <2>1, <2>2
<1>3. Becomes(q) /\ worth' = protection_levels(q) /\ global' = global
    BY <1>2 DEF Grant, r
<1> HIDE DEF q
<1> QED
    BY <1>2, <1>3, BecomesStep DEF IInv, Types

(* A historical row becomes one of a daily source. *)
LEMMA Renaming ==
    ASSUME NEW r, Counted(r), historical(r), NEW initial
    PROVE  /\ Counted(DailyAdded(r, initial))
           /\ protection_levels(DailyAdded(r, initial))
                = [protection_levels(r) EXCEPT !["daily"] = protection_levels(r)["legacy"],
                                               !["legacy"] = 0]
<1> DEFINE q == DailyAdded(r, initial)
           level == [r.level EXCEPT !["daily"] = r.level["legacy"], !["legacy"] = 0]
           base == [r.base EXCEPT !["daily"] = r.base["legacy"], !["legacy"] = 0]
<1>0. /\ r.level \in [Source -> Level] /\ r.base \in [Source -> 0 .. MaxHits] /\ r.hits \in 0 .. MaxHits
      /\ MaxHits \in Nat /\ MaxLevel \in Nat /\ 0 \in Level
    BY ProtectionAssumption DEF Counted, Level
<1>1. level \in [Source -> Level] /\ base \in [Source -> 0 .. MaxHits] /\ \A s \in Source : base[s] <= r.hits
    BY <1>0 DEF Source, Counted
<1>2. q = [r EXCEPT !.level = level, !.base = base]
    BY DEF DailyAdded, Counted
<1>3. /\ level["daily"] = r.level["legacy"] /\ base["daily"] = r.base["legacy"] /\ level["legacy"] = 0
      /\ level["manual"] = r.level["manual"] /\ base["manual"] = r.base["manual"]
    BY <1>0 DEF Source
<1> HIDE DEF level, base
<1>4. Counted(q) /\ q.level = level /\ q.base = base /\ q.hits = r.hits
    BY <1>1, <1>2 DEF Counted
<1> HIDE DEF q
<1>5. /\ protection_levels(q)["daily"] = protection_levels(r)["legacy"]
      /\ protection_levels(q)["legacy"] = 0
      /\ protection_levels(q)["manual"] = protection_levels(r)["manual"]
    BY <1>3, <1>4 DEF protection_levels, Source
<1>6. protection_levels(r) \in [Source -> Level] /\ protection_levels(q) \in [Source -> Level]
    BY <1>4, LevelsTyped
<1>7. protection_levels(q) = [protection_levels(r) EXCEPT !["daily"] = protection_levels(r)["legacy"],
                                                          !["legacy"] = 0]
    BY <1>5, <1>6 DEF Source
<1> QED
    BY <1>4, <1>7 DEF q

LEMMA ListStep ==
    ASSUME IInv, NEW initial \in Granted, List(initial)
    PROVE  IInv'
<1> DEFINE r == Copied
           q == DailyAdded(r, initial)
           l == Least(MaxLevel, initial + yesterday)
<1>0. Counted(r) /\ protection_levels(r) = CopiedWorth
    BY Copying
<1>1. l \in Level /\ "daily" \in Source /\ yesterday + 1 \in Nat
    BY ProtectionAssumption DEF Level, Source, Least, IInv, Types
<1>2. Becomes(q) /\ global' = global
    BY DEF List
<1>3. /\ historical(r) => worth' = [CopiedWorth EXCEPT !["daily"] = CopiedWorth["legacy"], !["legacy"] = 0]
      /\ ~historical(r) => worth' = [CopiedWorth EXCEPT !["daily"] = l]
    BY DEF List
<1> HIDE DEF r, l
<1>4. Counted(q) /\ worth' = protection_levels(q)
    <2>1. CASE historical(r)
        BY <1>0, <1>3, <2>1, Renaming
    <2>2. CASE ~historical(r)
        <3>1. q = Given(r, "daily", l, yesterday + 1)
            BY <2>2 DEF DailyAdded, Given, l
        <3> HIDE DEF q
        <3> QED
            BY <1>0, <1>1, <1>3, <2>2, <3>1, Giving
    <2> QED
        BY <2>1, <2>2
<1> HIDE DEF q
<1> QED
    BY <1>2, <1>4, BecomesStep DEF IInv, Types

LEMMA UnlistStep ==
    ASSUME IInv, Unlist
    PROVE  IInv'
<1> DEFINE r == shield
           q == DailyRemoved(r)
           own == IF historical(r) THEN 0 ELSE protection_levels(r)["legacy"]
           raised == global > own
           legacy == IF global = 0 THEN 0 ELSE IF raised THEN global ELSE r.level["legacy"]
           raisedBase == IF raised THEN [r.base EXCEPT !["legacy"] = r.hits] ELSE r.base
           kept == [r.level EXCEPT !["daily"] = 0, !["legacy"] = legacy]
           base == [s \in Source |-> IF kept[s] = 0 THEN 0 ELSE raisedBase[s]]
<1>0. /\ Counted(r) /\ protection_levels(r) = worth /\ worth \in [Source -> Level] /\ global \in Level
      /\ MaxHits \in Nat /\ MaxLevel \in Nat /\ Level = 0 .. MaxLevel
      /\ r.level \in [Source -> Level] /\ r.base \in [Source -> 0 .. MaxHits] /\ r.hits \in 0 .. MaxHits
    BY ProtectionAssumption DEF Counted, Level, IInv, Types
<1>1. Becomes(q) /\ global' = global
      /\ worth' = [worth EXCEPT !["daily"] = 0,
                     !["legacy"] = IF global = 0 THEN 0
                                   ELSE IF historical(r) \/ global > @ THEN global ELSE @]
    BY DEF Unlist
<1>2. q = IF kept = None THEN NoRow ELSE [r EXCEPT !.level = kept, !.days = 0, !.base = base]
    BY DEF DailyRemoved
<1>3. own \in Level /\ legacy \in Level
    BY <1>0 DEF Source
<1>4. kept \in [Source -> Level] /\ kept["daily"] = 0 /\ kept["legacy"] = legacy
      /\ kept["manual"] = r.level["manual"]
    BY <1>0, <1>3 DEF Source
<1>5. /\ raisedBase \in [Source -> 0 .. MaxHits] /\ \A s \in Source : raisedBase[s] <= r.hits
      /\ raisedBase["manual"] = r.base["manual"]
      /\ raisedBase["legacy"] = IF raised THEN r.hits ELSE r.base["legacy"]
    BY <1>0 DEF Counted, Source
<1> HIDE DEF kept, raisedBase
<1>6. /\ base \in [Source -> 0 .. MaxHits] /\ \A s \in Source : base[s] <= r.hits
      /\ \A s \in Source : kept[s] # 0 => base[s] = raisedBase[s]
    BY <1>0, <1>5
<1> HIDE DEF base
<1>7. /\ Counted(q) /\ \A s \in Source : q.level[s] = kept[s]
      /\ kept # None => q.base = base /\ q.hits = r.hits
    <2>1. CASE kept = None
        <3>1. q = NoRow
            BY <1>2, <2>1
        <3> HIDE DEF q
        <3> QED
            BY <1>0, <2>1, <3>1 DEF NoRow, None, Counted
    <2>2. CASE kept # None
        <3>1. q = [r EXCEPT !.level = kept, !.days = 0, !.base = base]
            BY <1>2, <2>2
        <3> HIDE DEF q
        <3> QED
            BY <1>0, <1>4, <1>6, <2>2, <3>1 DEF Counted
    <2> QED
        BY <2>1, <2>2
<1>8. kept["manual"] # 0 \/ kept["legacy"] # 0 => kept # None
    BY DEF None, Source
<1> HIDE DEF q
<1>9. protection_levels(q) \in [Source -> Level] /\ protection_levels(q)["daily"] = 0
    BY <1>4, <1>7, LevelsTyped DEF Source
<1>10. protection_levels(q)["manual"] = worth["manual"]
    <2>1. CASE r.level["manual"] = 0
        BY <1>0, <1>4, <1>7, <2>1, LevelsTyped DEF Source
    <2>2. CASE r.level["manual"] # 0
        <3>1. q.level["manual"] = r.level["manual"] /\ q.base["manual"] = r.base["manual"]
              /\ q.hits = r.hits
            BY <1>4, <1>5, <1>6, <1>7, <1>8, <2>2 DEF Source
        <3> QED
            BY <1>0, <3>1 DEF protection_levels, Source
    <2> QED
        BY <2>1, <2>2
<1>11. protection_levels(q)["legacy"]
          = IF global = 0 THEN 0 ELSE IF historical(r) \/ global > worth["legacy"] THEN global
            ELSE worth["legacy"]
    <2>1. CASE global = 0
        BY <1>4, <1>7, <2>1, LevelsTyped DEF Source
    <2>2. CASE global # 0 /\ raised
        <3>1. q.level["legacy"] = global /\ q.base["legacy"] = r.hits /\ q.hits = r.hits
            BY <1>4, <1>5, <1>6, <1>7, <1>8, <2>2 DEF Source
        <3>2. protection_levels(q)["legacy"] = Least(MaxLevel, q.level["legacy"] + (q.hits - q.base["legacy"]))
            BY <1>7, <2>2, <3>1, LevelsTyped DEF Source
        <3>3. protection_levels(q)["legacy"] = global
            BY <1>0, <3>1, <3>2 DEF Least
        <3>4. historical(r) \/ global > worth["legacy"]
            BY <1>0, <2>2
        <3> QED
            BY <2>2, <3>3, <3>4
    <2>3. CASE global # 0 /\ ~raised
        <3>1. ~historical(r) /\ own = worth["legacy"] /\ ~(global > worth["legacy"])
            BY <1>0, <2>3
        <3>2. worth["legacy"] # 0
            BY <1>0, <2>3, <3>1 DEF Source
        <3>3. r.level["legacy"] # 0
            BY <1>0, <3>2, LevelsTyped DEF Source
        <3>4. q.level["legacy"] = r.level["legacy"] /\ q.base["legacy"] = r.base["legacy"]
              /\ q.hits = r.hits
            BY <1>4, <1>5, <1>6, <1>7, <1>8, <2>3, <3>3 DEF Source
        <3>5. protection_levels(q)["legacy"] = protection_levels(r)["legacy"]
            BY <3>4 DEF protection_levels, Source
        <3> QED
            BY <1>0, <2>3, <3>1, <3>5
    <2> QED
        BY <2>1, <2>2, <2>3
<1>12. protection_levels(q) = worth'
    BY <1>0, <1>1, <1>9, <1>10, <1>11 DEF Source
<1> QED
    BY <1>0, <1>1, <1>7, <1>12, BecomesStep

(* The row of group __all__ is nobody's threshold until a group copies it. *)
LEMMA ListGlobalStep ==
    ASSUME IInv, NEW l \in Granted \cup {0}, ListGlobal(l)
    PROVE  IInv'
<1>1. /\ global' \in Level
      /\ UNCHANGED <<shield, yesterday, rolled, wait, replying, client, worth, late, mine, shown>>
    BY ProtectionAssumption DEF ListGlobal, Level
<1>2. LeaseSound' /\ ShownOnce'
    BY <1>1, WaitUnchanged DEF IInv
<1> QED
    BY <1>1, <1>2 DEF IInv, Types, NeedFollowsLevel, Threshold

-----------------------------------------------------------------------------
(* The reservation *)

(* A step that copies the global row, or not. *)
LEMMA CopyRowSound ==
    ASSUME IInv, CopyRow
    PROVE  /\ Counted(shield') /\ protection_levels(shield') = worth' /\ worth' \in [Source -> Level]
           /\ late' \in BOOLEAN /\ (late => late')
           /\ wait.st = "pending" /\ ~late' => shield' = shield
<1>1. Counted(Copied) /\ protection_levels(Copied) = CopiedWorth
    BY Copying
<1>2. protection_levels(Copied) \in [Source -> Level]
    BY <1>1, LevelsTyped
<1> QED
    BY <1>1, <1>2 DEF CopyRow, IInv, Types

(* What is left to show of a step that changes the reservation. *)
LEMMA WaitStep ==
    ASSUME IInv, Counted(shield'), protection_levels(shield') = worth', worth' \in [Source -> Level],
           late' \in BOOLEAN, wait' \in Wait, rolled' \in BOOLEAN, replying' \in BOOLEAN,
           UNCHANGED <<global, yesterday, client>>, UNCHANGED <<mine, shown>> \/ Count,
           NeedFollowsLevel', LeaseSound', ShownOnce'
    PROVE  IInv'
BY DEF IInv, Types, Count

LEMMA PrepareRefusedStep ==
    ASSUME IInv, PrepareRefused
    PROVE  IInv'
<1>1. CopyRow /\ UNCHANGED <<global, yesterday, rolled, wait, replying, client, mine, shown>>
    BY DEF PrepareRefused
<1>2. LeaseSound' /\ ShownOnce'
    BY <1>1, WaitUnchanged DEF IInv
<1>3. NeedFollowsLevel'
    BY <1>1, CopyRowSound DEF NeedFollowsLevel, IInv
<1> QED
    BY <1>1, <1>2, <1>3, CopyRowSound, WaitStep DEF IInv, Types

(* a is what w becomes when the user is found to be there, which the answer  *)
(* tells: there is no new notice.                                            *)
Meets(w, a) == a = Activated(w, FALSE)

LEMMA Meeting ==
    ASSUME NEW w \in Wait, NEW a, Meets(w, a), w.st = "pending"
    PROVE  /\ a \in Wait /\ a.need = w.need /\ a.fire = w.fire /\ a.arrived
           /\ a.st = IF w.fire >= w.need THEN "ready" ELSE "pending"
           /\ a.st = "pending" => a.fire < a.need
           /\ a.notice \in {w.notice, Silent}
<1>1. Activates(w, a)
    BY DEF Meets, Activates
<1>2. a.notice \in {w.notice, Silent}
    BY DEF Meets, Activated, Wait
<1>3. /\ a \in Wait /\ a.need = w.need /\ a.fire = w.fire /\ a.arrived
      /\ a.st = IF w.fire >= w.need THEN "ready" ELSE "pending"
    BY <1>1, Activation
<1> QED
    BY <1>2, <1>3 DEF Wait

LEMMA PrepareNewStep ==
    ASSUME IInv, PrepareNew
    PROVE  IInv'
<1> DEFINE w == [Closed EXCEPT !.st = "pending", !.need = Threshold(Copied), !.fire = 1]
<1>0. CopyRow /\ UNCHANGED <<global, yesterday, rolled, client, mine, shown>>
      /\ shield' = Copied
    BY DEF PrepareNew, CopyRow
<1>1. Threshold(Copied) \in 0 .. MaxLevel + 1
    BY Copying, ThresholdTyped
<1>2. /\ w \in Wait /\ w.st = "pending" /\ w.need = Threshold(Copied) /\ w.notice = Silent
      /\ ~w.arrived
    <2>1. PICK n : n = Threshold(Copied)
        OBVIOUS
    <2>2. w = [Closed EXCEPT !.st = "pending", !.need = n, !.fire = 1]
        BY <2>1
    <2> HIDE DEF w
    <2>3. 1 \in 0 .. MaxFire
        BY ProtectionAssumption
    <2> QED
        BY <1>1, <2>1, <2>2, <2>3, NoticesTyped DEF Wait, Closed
<1>3. Closed \in Wait /\ Closed.st = "none" /\ Closed.notice = Silent
    BY NoticesTyped, ProtectionAssumption DEF Closed, Wait
<1>4. wait' \in {w, Closed} \/ wait' = Activated(w, FALSE)
    BY DEF PrepareNew
<1>5. replying' \in BOOLEAN
    BY DEF PrepareNew, IInv, Types
<1> HIDE DEF w
<1>6. /\ wait' \in Wait /\ wait'.notice = Silent
      /\ wait'.st = "pending" => wait'.need = Threshold(Copied)
      /\ wait'.st = "pending" /\ wait'.arrived => wait'.fire < wait'.need
    <2>1. CASE wait' = Activated(w, FALSE)
        <3>1. Meets(w, wait')
            BY <2>1 DEF Meets
        <3> QED
            BY <1>2, <3>1, Meeting
    <2>2. CASE wait' \in {w, Closed}
        BY <1>2, <1>3, <2>2
    <2> QED
        BY <1>4, <2>1, <2>2
<1>7. LeaseSound' /\ ShownOnce'
    BY <1>0, <1>6, NoticeStep DEF IInv
<1>8. NeedFollowsLevel'
    BY <1>0, <1>6 DEF NeedFollowsLevel
<1> QED
    BY <1>0, <1>5, <1>6, <1>7, <1>8, CopyRowSound, WaitStep DEF IInv, Types

LEMMA JoinStep ==
    ASSUME IInv, NEW fire \in {1, 2}, Join(fire)
    PROVE  IInv'
<1> DEFINE w == [wait EXCEPT !.fire = @ + fire, !.notice = Silent]
<1>0. /\ wait.st = "pending" /\ CopyRow /\ wait.fire + fire <= MaxFire /\ replying' = TRUE
      /\ UNCHANGED <<global, yesterday, rolled, client, mine, shown>>
      /\ wait \in Wait
    BY DEF Join, IInv, Types
<1>1. /\ w \in Wait /\ w.st = "pending" /\ w.need = wait.need /\ w.notice = Silent
      /\ w.arrived = wait.arrived
    <2>1. PICK f \in 0 .. MaxFire : f = wait.fire + fire
        BY <1>0, ProtectionAssumption DEF Wait
    <2>2. w = [wait EXCEPT !.fire = f, !.notice = Silent]
        BY <2>1
    <2> HIDE DEF w
    <2> QED
        BY <1>0, <2>2, NoticesTyped DEF Wait
<1>2. wait' = IF w.arrived \/ rolled THEN Activated(w, FALSE) ELSE w
    BY DEF Join
<1> HIDE DEF w
<1>3. /\ wait' \in Wait /\ wait'.need = wait.need /\ wait'.notice = Silent
      /\ wait'.st = "pending" /\ wait'.arrived => wait'.fire < wait'.need
    <2>1. CASE w.arrived \/ rolled
        <3>1. Meets(w, wait')
            BY <1>2, <2>1 DEF Meets
        <3> QED
            BY <1>1, <3>1, Meeting
    <2>2. CASE ~(w.arrived \/ rolled)
        BY <1>1, <1>2, <2>2
    <2> QED
        BY <2>1, <2>2
<1>5. LeaseSound' /\ ShownOnce'
    BY <1>0, <1>3, NoticeStep DEF IInv
<1>6. NeedFollowsLevel'
    BY <1>0, <1>3, CopyRowSound DEF NeedFollowsLevel, IInv
<1> QED
    BY <1>0, <1>3, <1>5, <1>6, CopyRowSound, WaitStep DEF IInv, Types

LEMMA ReconcileStep ==
    ASSUME IInv, Reconcile
    PROVE  IInv'
<1>0. /\ wait \in Wait /\ replying' \in BOOLEAN
      /\ UNCHANGED <<shield, global, yesterday, rolled, client, worth, late, mine, shown>>
    BY DEF Reconcile, IInv, Types
<1>1. CASE wait' = wait
    <2>1. LeaseSound' /\ ShownOnce'
        BY <1>0, <1>1, WaitUnchanged DEF IInv
    <2> QED
        BY <1>0, <1>1, <2>1, WaitStep DEF IInv, Types, NeedFollowsLevel, Threshold
<1>2. CASE wait.st = "pending" /\ wait' = [Activated(wait, FALSE) EXCEPT !.notice = Silent]
    <2> DEFINE a == Activated(wait, FALSE)
    <2>1. Meets(wait, a)
        BY DEF Meets
    <2>2. wait' = [a EXCEPT !.notice = Silent]
        BY <1>2
    <2> HIDE DEF a
    <2>3. /\ a \in Wait /\ a.need = wait.need /\ a.arrived /\ (a.st = "pending" => a.fire < a.need)
        BY <1>0, <1>2, <2>1, Meeting
    <2>4. /\ wait' \in Wait /\ wait'.need = wait.need /\ wait'.notice = Silent
          /\ wait'.st = "pending" /\ wait'.arrived => wait'.fire < wait'.need
        BY <2>2, <2>3, NoticesTyped DEF Wait
    <2>5. LeaseSound' /\ ShownOnce'
        BY <1>0, <2>4, NoticeStep DEF IInv
    <2>6. NeedFollowsLevel'
        BY <1>0, <1>2, <2>4 DEF NeedFollowsLevel, Threshold, IInv
    <2> QED
        BY <1>0, <2>4, <2>5, <2>6, WaitStep DEF IInv, Types
<1> QED
    BY <1>1, <1>2 DEF Reconcile

LEMMA RollStep ==
    ASSUME IInv, Roll
    PROVE  IInv'
<1>0. /\ wait \in Wait /\ rolled' = TRUE /\ Count
      /\ UNCHANGED <<shield, global, yesterday, replying, client, worth, late>>
    BY DEF Roll, IInv, Types
<1>1. CASE wait' = wait
    <2>1. LeaseSound' /\ ShownOnce'
        BY <1>0, <1>1, NoticeStep DEF IInv, LeaseSound
    <2> QED
        BY <1>0, <1>1, <2>1, WaitStep DEF IInv, Types, NeedFollowsLevel, Threshold
<1>2. CASE wait.st = "pending" /\ wait' = Activated(wait, TRUE)
    <2>1. Activates(wait, wait')
        BY <1>2 DEF Activates
    <2>2. /\ wait' \in Wait /\ wait'.need = wait.need /\ wait'.fire = wait.fire /\ wait'.arrived
          /\ wait'.st = IF wait.fire >= wait.need THEN "ready" ELSE "pending"
          /\ wait'.notice \in {wait.notice, Silent, Register}
        BY <1>0, <1>2, <2>1, Activation
    <2>3. wait'.st = "pending" => wait'.fire < wait'.need
        BY <2>2 DEF Wait
    <2>4. wait.notice.holder # Nobody => wait'.arrived = wait.arrived
        BY <1>0, <1>2, <2>2 DEF IInv, LeaseSound, Wait
    <2>5. LeaseSound' /\ ShownOnce'
        BY <1>0, <1>2, <2>2, <2>3, <2>4, NoticeStep DEF IInv
    <2>6. NeedFollowsLevel'
        BY <1>0, <1>2, <2>2 DEF NeedFollowsLevel, Threshold, IInv
    <2> QED
        BY <1>0, <2>2, <2>5, <2>6, WaitStep DEF IInv, Types
<1> QED
    BY <1>1, <1>2 DEF Roll

LEMMA SettleStep ==
    ASSUME IInv, NEW success \in BOOLEAN, Settle(success)
    PROVE  IInv'
<1>0. wait' = Closed /\ UNCHANGED <<global, yesterday, rolled, replying, client, late, mine, shown>>
    BY DEF Settle
<1>1. Closed \in Wait /\ Closed.st = "none" /\ Closed.notice = Silent
    BY NoticesTyped, ProtectionAssumption DEF Closed, Wait
<1>2. Counted(shield') /\ protection_levels(shield') = worth' /\ worth' \in [Source -> Level]
    <2>1. CASE UNCHANGED <<shield, worth>>
        BY <2>1 DEF IInv, Types
    <2>2. CASE /\ shield.hits < MaxHits /\ shield' = Broken(shield)
               /\ worth' = [s \in Source |-> IF worth[s] = 0 THEN 0 ELSE Least(MaxLevel, worth[s] + 1)]
        <3>1. Counted(shield') /\ protection_levels(shield') = worth'
            BY <2>2, BreakRaises DEF IInv
        <3> QED
            BY <3>1, LevelsTyped
    <2> QED
        BY <2>1, <2>2 DEF Settle, Broken
<1>3. LeaseSound' /\ ShownOnce'
    BY <1>0, <1>1, NoticeStep DEF IInv
<1> QED
    BY <1>0, <1>1, <1>2, <1>3, WaitStep DEF IInv, Types, NeedFollowsLevel

-----------------------------------------------------------------------------
(* Clients and their leases *)

(* What is left to show of a step that changes the notice or a client. *)
LEMMA LeaseStep ==
    ASSUME IInv, NEW n \in Notice, wait' = [wait EXCEPT !.notice = n],
           UNCHANGED <<shield, global, yesterday, rolled, replying, worth, late>>,
           mine' \subseteq Client,
           client' \in [Client -> [phase : {"away", "holds", "told", "posted"}, need : 0 .. MaxLevel + 1]],
           wait.st = "pending" /\ n.holder # Nobody =>
               /\ wait.arrived
               /\ client'[n.holder].phase # "away" => client'[n.holder].need = wait.need,
           ShownOnce'
    PROVE  IInv'
<1>1. /\ wait' \in Wait /\ wait'.notice = n /\ wait'.st = wait.st /\ wait'.need = wait.need
      /\ wait'.fire = wait.fire /\ wait'.arrived = wait.arrived
    BY DEF IInv, Types, Wait
<1>2. LeaseSound'
    BY <1>1 DEF LeaseSound, IInv
<1>3. NeedFollowsLevel'
    BY <1>1 DEF NeedFollowsLevel, Threshold, IInv
<1> QED
    BY <1>1, <1>2, <1>3 DEF IInv, Types

LEMMA LapseStep ==
    ASSUME IInv, Lapse
    PROVE  IInv'
<1> DEFINE n == [wait.notice EXCEPT !.stale = TRUE]
<1>0. wait \in Wait /\ wait.notice \in Notice
    BY DEF IInv, Types, Wait
<1>1. /\ n \in Notice /\ n.holder = wait.notice.holder /\ n.status = wait.notice.status
      /\ wait' = [wait EXCEPT !.notice = n]
      /\ UNCHANGED <<shield, global, yesterday, rolled, replying, client, worth, late, mine, shown>>
    BY <1>0 DEF Lapse, Notice
<1> HIDE DEF n
<1>2. wait'.notice = n
    BY <1>0, <1>1 DEF Wait
<1>3. ShownOnce'
    <2>1. Tellers' = Tellers /\ (Unsent' <=> Unsent)
        BY <1>1, <1>2 DEF Tellers, Unsent
    <2> QED
        BY <1>1, <2>1 DEF ShownOnce, IInv
<1> QED
    BY <1>1, <1>3, LeaseStep DEF IInv, Types, LeaseSound

(* The state of a client that holds a lease. *)
ClientState == [phase : {"away", "holds", "told", "posted"}, need : 0 .. MaxLevel + 1]

LEMMA Leasing ==
    ASSUME wait \in Wait, NEW m \in Notice, NEW s, Lease(m, s)
    PROVE  wait' = [wait EXCEPT !.notice = [m EXCEPT !.status = s]]
BY DEF Lease, Wait

LEMMA TakeNoticeStep ==
    ASSUME IInv, NEW c \in Client, TakeNotice(c)
    PROVE  IInv'
<1>0. /\ wait \in Wait /\ wait.notice \in Notice /\ wait.st = "pending" /\ wait.arrived /\ Free
      /\ client[c].phase = "away" /\ client \in [Client -> ClientState] /\ mine \subseteq Client
      /\ UNCHANGED <<shield, global, yesterday, rolled, replying, worth, late, shown>>
    BY DEF TakeNotice, IInv, Types, Wait, ClientState
<1>1. Tellers = {} /\ shown = 0
    BY <1>0 DEF Free, Unsent, IInv, ShownOnce
<1>2. CASE /\ Lease([Silent EXCEPT !.holder = c], "processing")
           /\ Holder(c, [phase |-> "holds", need |-> wait.need])
           /\ mine' = mine \cup {c}
    <2> DEFINE m == [Silent EXCEPT !.holder = c]
               n == [m EXCEPT !.status = "processing"]
               k == [phase |-> "holds", need |-> wait.need]
    <2>0. m \in Notice /\ m.holder = c /\ Lease(m, "processing")
        BY <1>2, NoticesTyped DEF Notice
    <2> HIDE DEF m
    <2>1. n \in Notice /\ n.holder = c /\ wait' = [wait EXCEPT !.notice = n]
        BY <1>0, <2>0, Leasing DEF Notice
    <2>2. k \in ClientState /\ client' = [client EXCEPT ![c] = k] /\ k.phase = "holds"
          /\ k.need = wait.need
        BY <1>0, <1>2 DEF Holder, ClientState, Wait
    <2> HIDE DEF n, k
    <2>3. client' \in [Client -> ClientState] /\ client'[c] = k /\ mine' \subseteq Client
        BY <1>0, <1>2, <2>2
    <2>4. Tellers' = {}
        BY <1>0, <1>1, <1>2, <2>2 DEF Tellers
    <2>5. ShownOnce'
        BY <1>0, <1>1, <2>4 DEF ShownOnce
    <2> QED
        BY <1>0, <2>1, <2>2, <2>3, <2>5, LeaseStep DEF ClientState
<1>3. CASE Lease(Silent, "processing") /\ UNCHANGED <<client, mine>>
    <2> DEFINE n == [Silent EXCEPT !.status = "processing"]
    <2>1. n \in Notice /\ n.holder = Nobody /\ wait' = [wait EXCEPT !.notice = n]
        BY <1>0, <1>3, NoticesTyped, Leasing DEF Notice
    <2> HIDE DEF n
    <2>2. Tellers' = {}
        BY <1>1, <1>3 DEF Tellers
    <2>3. ShownOnce'
        BY <1>0, <1>1, <2>2 DEF ShownOnce
    <2> QED
        BY <1>0, <1>3, <2>1, <2>3, LeaseStep DEF ClientState
<1> QED
    BY <1>2, <1>3 DEF TakeNotice

(* A client that lets its lease go, or finds that it has lost it. *)
LEMMA AwayStep ==
    ASSUME IInv, NEW c \in Client, client' = [client EXCEPT ![c] = Away],
           UNCHANGED <<shield, global, yesterday, rolled, replying, worth, late, mine, shown>>,
           \/ wait' = wait
           \/ /\ wait' = [wait EXCEPT !.notice = Register] /\ Owns(c)
              /\ client[c].phase = "holds" /\ wait.notice.status = "processing"
           \/ /\ wait' = [wait EXCEPT !.notice = [wait.notice EXCEPT !.status = "sent"]]
              /\ Owns(c)
    PROVE  IInv'
<1>0. /\ wait \in Wait /\ wait.notice \in Notice
      /\ client \in [Client -> ClientState] /\ mine \subseteq Client /\ Nobody \notin Client
    BY ProtectionAssumption DEF IInv, Types, Wait, ClientState
<1>1. Away \in ClientState /\ Away.phase = "away"
    BY ProtectionAssumption DEF Away, ClientState
<1>2. /\ client' \in [Client -> ClientState] /\ client'[c].phase = "away"
      /\ \A d \in Client \ {c} : client'[d] = client[d]
    BY <1>0, <1>1
<1>3. Tellers' \subseteq Tellers
    BY <1>0, <1>2 DEF Tellers
<1>4. CASE wait' = wait
    <2>1. wait' = [wait EXCEPT !.notice = wait.notice]
        BY <1>0, <1>4 DEF Wait
    <2>2. Unsent' => Unsent
        BY <1>0, <1>2, <1>4 DEF Unsent, Notice
    <2>3. ShownOnce'
        BY <1>3, <2>2 DEF ShownOnce, IInv
    <2>4. wait.st = "pending" /\ wait.notice.holder # Nobody =>
               /\ wait.arrived
               /\ client'[wait.notice.holder].phase # "away" => client'[wait.notice.holder].need = wait.need
        BY <1>0, <1>2 DEF LeaseSound, IInv, Notice
    <2> QED
        BY <1>0, <1>2, <2>1, <2>3, <2>4, LeaseStep DEF ClientState
<1>5. CASE /\ wait' = [wait EXCEPT !.notice = Register] /\ Owns(c)
           /\ client[c].phase = "holds" /\ wait.notice.status = "processing"
    <2>1. Tellers = {} /\ shown = 0
        BY <1>5 DEF ShownOnce, Unsent, IInv
    <2>2. ShownOnce'
        BY <1>3, <2>1 DEF ShownOnce
    <2> QED
        BY <1>0, <1>2, <1>5, <2>2, NoticesTyped, LeaseStep DEF ClientState
<1>6. CASE /\ wait' = [wait EXCEPT !.notice = [wait.notice EXCEPT !.status = "sent"]] /\ Owns(c)
    <2> DEFINE n == [wait.notice EXCEPT !.status = "sent"]
    <2>1. n \in Notice /\ n.holder = c /\ n.status = "sent" /\ wait' = [wait EXCEPT !.notice = n]
        BY <1>0, <1>6 DEF Notice, Owns
    <2> HIDE DEF n
    <2>2. wait'.notice = n
        BY <1>0, <2>1 DEF Wait
    <2>3. ~Unsent'
        BY <2>1, <2>2 DEF Unsent
    <2>4. ShownOnce'
        BY <1>3, <2>3 DEF ShownOnce, IInv
    <2>5. wait.st = "pending" => wait.arrived
        BY <1>0, <1>6 DEF Owns, LeaseSound, IInv
    <2> QED
        BY <1>0, <1>2, <2>1, <2>4, <2>5, LeaseStep DEF ClientState
<1> QED
    BY <1>4, <1>5, <1>6

LEMMA GoneStep ==
    ASSUME IInv, NEW c \in Client, Sent(c) \/ Release(c) \/ Forget(c)
    PROVE  IInv'
<1>0. wait \in Wait /\ wait.notice \in Notice
    BY DEF IInv, Types, Wait
<1>1. client' = [client EXCEPT ![c] = Away]
      /\ UNCHANGED <<shield, global, yesterday, rolled, replying, worth, late, mine, shown>>
    BY DEF Sent, Release, Forget, Holder
<1>2. \/ wait' = wait
      \/ /\ wait' = [wait EXCEPT !.notice = Register] /\ Owns(c)
         /\ client[c].phase = "holds" /\ wait.notice.status = "processing"
      \/ /\ wait' = [wait EXCEPT !.notice = [wait.notice EXCEPT !.status = "sent"]]
         /\ Owns(c)
    <2>1. CASE Forget(c)
        BY <2>1 DEF Forget
    <2>2. CASE Release(c)
        BY <2>2 DEF Release
    <2>3. CASE Sent(c)
        <3>1. CASE wait' = wait
            BY <3>1
        <3>2. CASE Owns(c) /\ Lease(wait.notice, "sent")
            BY <1>0, <3>2 DEF Lease, Wait
        <3> QED
            BY <2>3, <3>1, <3>2 DEF Sent
    <2> QED
        BY <2>1, <2>2, <2>3
<1> QED
    BY <1>1, <1>2, AwayStep

(* The service agrees to the sending: only the client that took the notice   *)
(* goes on to show it.                                                       *)
LEMMA SendingStep ==
    ASSUME IInv, NEW c \in Client, Sending(c)
    PROVE  IInv'
<1> DEFINE ok == Owns(c) /\ wait.notice.status \in {"processing", "sending"}
<1>0. /\ wait \in Wait /\ wait.notice \in Notice /\ client[c].phase = "holds"
      /\ client \in [Client -> ClientState] /\ mine \subseteq Client /\ Nobody \notin Client
      /\ UNCHANGED <<shield, global, yesterday, rolled, replying, worth, late, mine, shown>>
    BY ProtectionAssumption DEF Sending, IInv, Types, Wait, ClientState
<1>1. CASE ~ok /\ wait' = wait /\ Holder(c, Away)
    BY <1>0, <1>1, AwayStep DEF Holder
<1>2. CASE wait' = wait /\ client' = client
    <2>1. LeaseSound' /\ ShownOnce'
        BY <1>0, <1>2, WaitUnchanged DEF IInv
    <2> QED
        BY <1>0, <1>2, <2>1, WaitStep DEF IInv, Types, NeedFollowsLevel, Threshold
<1>3. CASE ok /\ Lease(wait.notice, "sending")
    <2> DEFINE n == [wait.notice EXCEPT !.status = "sending"]
    <2>1. n \in Notice /\ n.holder = c /\ n.status = "sending" /\ wait' = [wait EXCEPT !.notice = n]
          /\ wait.notice.holder = c /\ wait.st = "pending"
        BY <1>0, <1>3 DEF Notice, Owns, Lease, Wait
    <2> HIDE DEF n
    <2>2. Tellers = {} /\ shown = 0
        BY <1>0, <1>3, <2>1 DEF Unsent, ShownOnce, IInv
    <2>3. wait'.notice = n
        BY <1>0, <2>1 DEF Wait
    <2>4. wait.arrived /\ client[c].need = wait.need
        BY <1>0, <2>1 DEF LeaseSound, IInv
    <2>5. PICK k \in ClientState : client' = [client EXCEPT ![c] = k] /\ k.need = wait.need
                                   /\ k.phase \in {"holds", "told"}
        <3>1. CASE client' = client
            BY <1>0, <2>4, <3>1
        <3>2. CASE Holder(c, [client[c] EXCEPT !.phase = "told"])
            <4> DEFINE k == [client[c] EXCEPT !.phase = "told"]
            <4>1. k \in ClientState /\ k.need = wait.need /\ k.phase = "told"
                BY <1>0, <2>4 DEF ClientState
            <4>2. client' = [client EXCEPT ![c] = k]
                BY <3>2 DEF Holder
            <4> HIDE DEF k
            <4> QED
                BY <4>1, <4>2
        <3> QED
            BY <1>3, <3>1, <3>2 DEF Sending
    <2>6. client' \in [Client -> ClientState] /\ client'[c] = k
          /\ \A d \in Client \ {c} : client'[d] = client[d]
        BY <1>0, <2>5
    <2>7. Tellers' \subseteq {c} /\ (k.phase = "holds" => Tellers' = {})
        BY <1>0, <2>2, <2>6 DEF Tellers
    <2>8. Unsent' => k.phase = "holds"
        BY <2>1, <2>3, <2>6, <1>0 DEF Unsent
    <2>9. ShownOnce'
        BY <1>0, <2>2, <2>7, <2>8 DEF ShownOnce
    <2> QED
        BY <1>0, <2>1, <2>4, <2>5, <2>6, <2>9, LeaseStep DEF ClientState
<1> QED
    BY <1>1, <1>2, <1>3 DEF Sending

LEMMA ShowStep ==
    ASSUME IInv, NEW c \in Client, Show(c)
    PROVE  IInv'
<1>0. /\ wait \in Wait /\ wait.notice \in Notice /\ client[c].phase = "told"
      /\ client \in [Client -> ClientState] /\ mine \subseteq Client /\ Nobody \notin Client
      /\ UNCHANGED <<shield, global, yesterday, rolled, replying, wait, worth, late, mine>>
      /\ shown' = IF c \in mine THEN shown + 1 ELSE shown
    BY ProtectionAssumption DEF Show, IInv, Types, Wait, ClientState
<1> DEFINE k == [client[c] EXCEPT !.phase = "posted"]
<1>1. k \in ClientState /\ k.phase = "posted" /\ k.need = client[c].need
      /\ client' = [client EXCEPT ![c] = k]
    BY <1>0 DEF Show, Holder, ClientState
<1> HIDE DEF k
<1>2. client' \in [Client -> ClientState] /\ client'[c] = k /\ \A d \in Client \ {c} : client'[d] = client[d]
    BY <1>0, <1>1
<1>3. Unsent' => Unsent
    BY <1>0, <1>1, <1>2 DEF Unsent, Notice
<1>4. ShownOnce'
    <2>1. CASE c \in mine
        <3>1. c \in Tellers
            BY <1>0, <2>1 DEF Tellers
        <3>2. Tellers' = {}
            BY <1>0, <1>1, <1>2, <3>1 DEF Tellers, ShownOnce, IInv
        <3>3. shown' = 1 /\ ~Unsent
            BY <1>0, <2>1, <3>1 DEF ShownOnce, IInv
        <3> QED
            BY <1>3, <3>2, <3>3 DEF ShownOnce
    <2>2. CASE c \notin mine
        <3>1. Tellers' = Tellers /\ shown' = shown
            BY <1>0, <1>2, <2>2 DEF Tellers
        <3> QED
            BY <1>3, <3>1 DEF ShownOnce, IInv
    <2> QED
        BY <2>1, <2>2
<1>5. wait.st = "pending" /\ wait.notice.holder # Nobody =>
           /\ wait.arrived
           /\ client'[wait.notice.holder].phase # "away" => client'[wait.notice.holder].need = wait.need
    BY <1>0, <1>1, <1>2 DEF LeaseSound, IInv, Notice
<1>6. wait' = [wait EXCEPT !.notice = wait.notice]
    BY <1>0 DEF Wait
<1> QED
    BY <1>0, <1>2, <1>4, <1>5, <1>6, LeaseStep DEF ClientState

-----------------------------------------------------------------------------
(* The invariant *)

LEMMA InitInv ==
    ASSUME Init
    PROVE  IInv
<1>0. /\ wait = Closed /\ client = [c \in Client |-> Away] /\ mine = {} /\ shown = 0
      /\ rolled = FALSE /\ replying = FALSE /\ late = FALSE /\ yesterday \in Streak
      /\ global \in {0} \cup Granted
    BY DEF Init
<1>1. /\ MaxLevel \in Nat /\ MaxHits \in Nat /\ Level = 0 .. MaxLevel /\ Granted \subseteq 1 .. MaxLevel
    BY ProtectionAssumption DEF Level
<1>2. PICK l \in {0} \cup Granted :
         /\ worth = [None EXCEPT !["legacy"] = l]
         /\ shield = [NoRow EXCEPT !.level = worth, !.days = IF l = 0 THEN 0 ELSE 1]
    BY DEF Init
<1>3. worth \in [Source -> Level] /\ \A s \in Source : worth[s] = IF s = "legacy" THEN l ELSE 0
    BY <1>1, <1>2 DEF None, Source
<1>4. Counted(shield) /\ shield.level = worth /\ shield.hits = 0 /\ \A s \in Source : shield.base[s] = 0
    <2>1. PICK d \in {0, 1} : shield = [NoRow EXCEPT !.level = worth, !.days = d]
        BY <1>2
    <2>2. None \in [Source -> 0 .. MaxHits] /\ \A s \in Source : None[s] = 0
        BY <1>1 DEF None
    <2>3. shield = [level |-> worth, base |-> None, days |-> d, hits |-> 0]
        BY <2>1 DEF NoRow
    <2> QED
        BY <1>1, <1>3, <2>2, <2>3 DEF Counted
<1>5. protection_levels(shield) = worth
    <2>1. ASSUME NEW s \in Source PROVE protection_levels(shield)[s] = worth[s]
        <3>1. CASE worth[s] = 0
            BY <1>4, <3>1, LevelsTyped
        <3>2. CASE worth[s] # 0
            <4>1. protection_levels(shield)[s] = Least(MaxLevel, worth[s] + (0 - 0))
                BY <1>4, <3>2, LevelsTyped
            <4> QED
                BY <1>1, <1>3, <4>1 DEF Least
        <3> QED
            BY <3>1, <3>2
    <2> QED
        BY <1>3, <1>4, <2>1, LevelsTyped
<1>6. Closed \in Wait /\ Closed.st = "none" /\ Closed.notice = Silent
    BY NoticesTyped, ProtectionAssumption DEF Closed, Wait
<1>7. Away \in ClientState
    BY <1>1 DEF Away, ClientState
<1>8. Types
    <2>1. client \in [Client -> ClientState]
        BY <1>0, <1>7
    <2>2. global \in Level /\ wait \in Wait /\ mine \subseteq Client
        BY <1>0, <1>1, <1>6
    <2> QED
        BY <1>0, <1>3, <1>4, <2>1, <2>2 DEF Types, ClientState
<1>9. Tellers = {} /\ ~Unsent
    BY <1>0, <1>6, NoticesTyped DEF Tellers, Unsent
<1> QED
    BY <1>0, <1>5, <1>6, <1>8, <1>9 DEF IInv, NeedFollowsLevel, LeaseSound, ShownOnce

LEMMA NextInv ==
    ASSUME IInv, [Next]_vars
    PROVE  IInv'
<1>1. CASE UNCHANGED vars
    <2>1. UNCHANGED <<shield, global, yesterday, rolled, wait, replying, client, worth, late, mine, shown>>
        BY <1>1 DEF vars
    <2>2. LeaseSound' /\ ShownOnce'
        BY <2>1, WaitUnchanged DEF IInv
    <2> QED
        BY <2>1, <2>2, WaitStep DEF IInv, Types, NeedFollowsLevel, Threshold
<1>2. ASSUME NEW l \in Granted, List(l) \/ Grant(l) \/ ListGlobal(l)
      PROVE  IInv'
    BY <1>2, ListStep, GrantStep, ListGlobalStep
<1>3. CASE Unlist \/ ListGlobal(0)
    BY <1>3, UnlistStep, ListGlobalStep
<1>4. CASE PrepareNew \/ PrepareRefused \/ Reconcile \/ Roll
    BY <1>4, PrepareNewStep, PrepareRefusedStep, ReconcileStep, RollStep
<1>5. ASSUME NEW fire \in {1, 2}, Join(fire)
      PROVE  IInv'
    BY <1>5, JoinStep
<1>6. ASSUME NEW success \in BOOLEAN, Settle(success)
      PROVE  IInv'
    BY <1>6, SettleStep
<1>7. CASE Lapse
    BY <1>7, LapseStep
<1>8. ASSUME NEW c \in Client,
             TakeNotice(c) \/ Sending(c) \/ Show(c) \/ Sent(c) \/ Release(c) \/ Forget(c)
      PROVE  IInv'
    BY <1>8, TakeNoticeStep, SendingStep, ShowStep, GoneStep
<1> QED
    BY <1>1, <1>2, <1>3, <1>4, <1>5, <1>6, <1>7, <1>8 DEF Next

(* The inductive invariant, of every reachable state. *)
THEOREM InvariantHolds == Spec => []IInv
BY InitInv, NextInv, PTL DEF Spec

-----------------------------------------------------------------------------
(* The properties *)

(* Whatever is granted, listed, copied, withdrawn and broken in between, the *)
(* baselines of the row give each source the level that counting its own     *)
(* breaks one by one gives.  The state has its types.                        *)
THEOREM LevelsTellHistoryHolds == Spec => []LevelsTellHistory
<1>1. IInv => LevelsTellHistory
    <2> SUFFICES ASSUME IInv PROVE TypeOK
        BY DEF IInv, LevelsTellHistory
    <2>1. shown \in Nat
        BY DEF IInv, ShownOnce
    <2>2. wait \in Wait /\ wait.notice \in Notice
        BY DEF IInv, Types, Wait
    <2> QED
        BY <2>1, <2>2 DEF IInv, Types, Counted, TypeOK, Wait, Notice
<1> QED
    BY <1>1, InvariantHolds, PTL

(* The fire that a waiting reservation needs follows the protection of its   *)
(* group, unless the global row was copied while it waited.                  *)
THEOREM NeedFollowsLevelHolds == Spec => []NeedFollowsLevel
<1>1. IInv => NeedFollowsLevel
    BY DEF IInv
<1> QED
    BY <1>1, InvariantHolds, PTL

(* A waiting notice is shown once, through lapsed leases, lost answers and   *)
(* repeated requests, and a client that may show it tells the threshold that *)
(* the reservation, which waits for fire, has.                               *)
THEOREM NoticesAreTimelyHolds == Spec => []NoticesAreTimely
<1>1. IInv => NoticesAreTimely
    <2> SUFFICES ASSUME IInv PROVE NoticesAreTimely
        OBVIOUS
    <2>1. shown <= 1
        BY DEF IInv, ShownOnce
    <2>2. ASSUME NEW c \in Client, client[c].phase = "told", Owns(c)
          PROVE  client[c].need = wait.need /\ wait.arrived /\ wait.fire < wait.need
        BY <2>2, ProtectionAssumption DEF IInv, LeaseSound, Owns
    <2> QED
        BY <2>1, <2>2 DEF NoticesAreTimely
<1> QED
    BY <1>1, InvariantHolds, PTL
=============================================================================
