------------------------- MODULE ApplicationUpdate -------------------------
(***************************************************************************)
(* What an update promises, whatever is requested, fails or is reset: the  *)
(* device has an application, or a verified image to make one from.  A new *)
(* image is staged and discarded only beside an application that is whole, *)
(* replacing it puts the staged image and nothing else in its place, and   *)
(* the staged image stays until that is done.                              *)
(***************************************************************************)
CONSTANTS
    Firmware,  \* the binaries
    Broken,    \* an application that is partly replaced
    Empty      \* no image is staged

VARIABLES
    app,     \* the application in the device
    staged   \* the image an update would install

vars == <<app, staged>>

Init == app \in Firmware /\ staged = Empty

Stage(f) ==
    /\ app # Broken /\ staged = Empty
    /\ staged' = f /\ UNCHANGED app

Discard ==
    /\ app # Broken /\ staged # Empty
    /\ staged' = Empty /\ UNCHANGED app

BeginReplace ==
    /\ app # Broken /\ staged # Empty
    /\ app' = Broken /\ UNCHANGED staged

EndReplace ==
    /\ app = Broken /\ staged # Empty
    /\ app' = staged /\ UNCHANGED staged

Next == Discard \/ BeginReplace \/ EndReplace \/ \E f \in Firmware : Stage(f)

Spec == Init /\ [][Next]_vars
=============================================================================
