----------------------------- MODULE OneSender -----------------------------
(***************************************************************************)
(* What the lease protocol of the daily report promises to the group: one  *)
(* go-ahead at a time, which may be given back as long as nothing was      *)
(* shown, and no message without it or after the first.                    *)
(***************************************************************************)
EXTENDS Naturals

CONSTANTS Token, NoToken

VARIABLES permit,   \* the lease that has the go-ahead, or NoToken
          shown     \* how many messages of a lease the group saw

vars == <<permit, shown>>

Unseen == \A t \in Token : shown[t] = 0

Init ==
    /\ permit = NoToken
    /\ shown = [t \in Token |-> 0]

Grant(t) ==
    /\ permit = NoToken /\ Unseen
    /\ permit' = t
    /\ UNCHANGED shown

GiveBack ==
    /\ permit # NoToken /\ Unseen
    /\ permit' = NoToken
    /\ UNCHANGED shown

Show ==
    /\ permit # NoToken /\ Unseen
    /\ shown' = [shown EXCEPT ![permit] = 1]
    /\ UNCHANGED permit

Next == GiveBack \/ Show \/ \E t \in Token : Grant(t)

Spec == Init /\ [][Next]_vars
=============================================================================
