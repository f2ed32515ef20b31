---------------------------- MODULE OnceDelivery ----------------------------
(***************************************************************************)
(* What the delivery protocols of Rollpig Cloud promise to a group chat:   *)
(* every item gets at most one result, the result never changes, and the   *)
(* group sees at most one message, which carries exactly that result.      *)
(***************************************************************************)
CONSTANTS Item, Result, NoResult

VARIABLES decided,   \* the result fixed for an item, NoResult before that
          posted     \* the result the group was shown, NoResult before that

vars == <<decided, posted>>

(* Each item has a result or none, decided and posted. *)
TypeOK ==
    /\ decided \in [Item -> Result \cup {NoResult}]
    /\ posted \in [Item -> Result \cup {NoResult}]

Init ==
    /\ decided = [i \in Item |-> NoResult]
    /\ posted = [i \in Item |-> NoResult]

Decide(i, x) ==
    /\ decided[i] = NoResult
    /\ decided' = [decided EXCEPT ![i] = x]
    /\ UNCHANGED posted

Post(i) ==
    /\ decided[i] # NoResult
    /\ posted[i] = NoResult
    /\ posted' = [posted EXCEPT ![i] = decided[i]]
    /\ UNCHANGED decided

Next ==
    \E i \in Item :
        \/ \E x \in Result : Decide(i, x)
        \/ Post(i)

Spec == Init /\ [][Next]_vars
=============================================================================
