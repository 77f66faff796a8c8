------------------------------ MODULE BodyCopy ------------------------------
(***************************************************************************)
(* What a download promises: the body of the response is stored from its   *)
(* first byte on, without gaps or repetitions; storing may end before the  *)
(* body does, and nothing is stored afterwards.  The k-th byte of the body *)
(* stands for itself as the number k.                                      *)
(***************************************************************************)
EXTENDS Integers

CONSTANT Address   \* the places behind one another that bytes are stored at, from 0 on

VARIABLES stored,  \* what each place holds, 0 if nothing yet
          count,   \* bytes stored
          ended    \* nothing more will be stored

Init == count = 0 /\ ended = FALSE /\ stored = [a \in Address |-> 0]

\* The next bytes, in their order, behind the ones already stored.
Store ==
    /\ ~ended
    /\ count' > count
    /\ stored' = [a \in Address |-> IF a < count THEN stored[a]
                                    ELSE IF a < count' THEN a + 1 ELSE 0]
    /\ UNCHANGED ended

End == ~ended /\ ended' = TRUE /\ UNCHANGED <<stored, count>>

Next == Store \/ End

Spec == Init /\ [][Next]_<<stored, count, ended>>
=============================================================================
