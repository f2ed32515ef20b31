---------------------------- MODULE SerialGrowth ----------------------------
(***************************************************************************)
(* What rolls and feeds do to a user's growth when one happens after the   *)
(* other: no transactions, and a pig that only its collection row tells of *)
(* is a pig drawn once.  Source: services/progress.py.                     *)
(***************************************************************************)
EXTENDS Integers

CONSTANTS Pig, Look, MaxLevel, NoPig, NoLook

Day == {"yesterday", "today"}

VARIABLES
    roll, feed,   \* what was drawn and fed on each day, and what came of it
    copies,       \* how often each pig was drawn
    bonus,        \* on how many days each pig was fed
    duplicates    \* how many rolls there were since the last new pig

vars == <<roll, feed, copies, bonus, duplicates>>

(* Of the time before, only whether a pig was drawn is known, and which one  *)
(* yesterday.                                                                *)
Init ==
    /\ copies \in [Pig -> {0, 1}]
    /\ bonus = [g \in Pig |-> 0]
    /\ duplicates = 0
    /\ \E first \in {g \in Pig : copies[g] = 1} \cup {NoPig} :
          roll = [d \in Day |->
                    [pig |-> IF d = "yesterday" THEN first ELSE NoPig, makeup |-> FALSE,
                     kept |-> FALSE, look |-> NoLook, before |-> 0, after |-> 0,
                     new |-> FALSE, from |-> 0, to |-> 0]]
    /\ feed = [d \in Day |-> [pig |-> NoPig, before |-> 0, after |-> 0]]

(* A repeated request, or a refused one. *)
Answer == UNCHANGED vars

Streak(g) == IF copies[g] = 0 THEN 0 ELSE duplicates + 1

Draw(d, g, makeup) ==
    /\ roll[d].pig = NoPig
    /\ makeup => d = "yesterday"
    /\ copies' = [copies EXCEPT ![g] = @ + 1]
    /\ duplicates' = Streak(g)
    /\ roll' = [roll EXCEPT ![d] =
                  [pig |-> g, makeup |-> makeup, kept |-> TRUE, look |-> NoLook,
                   before |-> copies[g], after |-> copies[g] + 1, new |-> copies[g] = 0,
                   from |-> duplicates, to |-> Streak(g)]]
    /\ UNCHANGED <<feed, bonus>>

Level(g) == LET l == copies[g] - 1 + bonus[g] IN IF l > MaxLevel THEN MaxLevel ELSE l

FeedPig(d, g) ==
    /\ roll[d].pig = g /\ ~roll[d].makeup
    /\ feed[d].pig = NoPig
    /\ Level(g) < MaxLevel
    /\ bonus' = [bonus EXCEPT ![g] = @ + 1]
    /\ feed' = [feed EXCEPT ![d] = [pig |-> g, before |-> Level(g), after |-> Level(g) + 1]]
    /\ UNCHANGED <<roll, copies, duplicates>>

(* The first client's resources. *)
Dress(d, look) ==
    /\ roll[d].kept /\ roll[d].look = NoLook
    /\ roll' = [roll EXCEPT ![d].look = look]
    /\ UNCHANGED <<feed, copies, bonus, duplicates>>

Next ==
    \/ Answer
    \/ \E d \in Day, g \in Pig :
          FeedPig(d, g) \/ \E makeup \in BOOLEAN : Draw(d, g, makeup)
    \/ \E d \in Day, look \in Look : Dress(d, look)

Spec == Init /\ [][Next]_vars
=============================================================================
