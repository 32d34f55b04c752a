----------------------------- MODULE Acquisition -----------------------------
(***************************************************************************)
(* What the facade promises its caller (C++/Gocator.h, README.md "Usage"): *)
(* a sensor connection that is opened and closed, and, while it is open,   *)
(* acquisitions that never overlap.  Data sets reach the grab callbacks    *)
(* only inside an acquisition, numbered 0, 1, 2, ... from its start, and   *)
(* the connection is not given up before the acquisition has finished.     *)
(* GocatorFacade, the detailed model, implements this specification.       *)
(***************************************************************************)
EXTENDS Naturals

VARIABLES
    open,     \* the connection is usable
    live,     \* an acquisition is under way
    frames    \* data sets delivered in the current or the last acquisition

vars == <<open, live, frames>>

Init ==
    /\ open = FALSE
    /\ live = FALSE
    /\ frames = 0

Open ==
    /\ ~open
    /\ open' = TRUE
    /\ UNCHANGED <<live, frames>>

Close ==
    /\ open
    /\ ~live
    /\ open' = FALSE
    /\ UNCHANGED <<live, frames>>

Start ==
    /\ open
    /\ ~live
    /\ live' = TRUE
    /\ frames' = 0
    /\ UNCHANGED open

Deliver ==
    /\ live
    /\ frames' = frames + 1
    /\ UNCHANGED <<open, live>>

Finish ==
    /\ live
    /\ live' = FALSE
    /\ UNCHANGED <<open, frames>>

Next == Open \/ Close \/ Start \/ Deliver \/ Finish

Spec == Init /\ [][Next]_vars
=============================================================================
