------------------------------ MODULE GraceWindow ------------------------------
(***************************************************************************)
(* The life of a grace window, as its two halves agree on it: the half     *)
(* that gathers messages and owner replies (module OwnerReplyGrace) and    *)
(* the half that decides, queues and sends (module ReplyDelivery).         *)
(*                                                                         *)
(* An open window is released or canceled.  A released one is late while   *)
(* its reply may be on the way, or was sent; it is canceled only when it   *)
(* is not late, and a canceled window is canceled for good.                *)
(***************************************************************************)
CONSTANT Windows

VARIABLE phase  \* what each window has come to

Phases == {"NONE", "OPEN", "RELEASED", "LATE", "CANCELED"}

Init == phase = [w \in Windows |-> "NONE"]

Moves ==
    {<<"NONE", "OPEN">>, <<"OPEN", "RELEASED">>, <<"OPEN", "CANCELED">>,
     <<"RELEASED", "LATE">>, <<"LATE", "RELEASED">>, <<"RELEASED", "CANCELED">>}

\* A transaction of the worker moves several windows at once.
Next ==
    /\ phase' \in [Windows -> Phases]
    /\ \A w \in Windows :
         phase'[w] = phase[w] \/ <<phase[w], phase'[w]>> \in Moves

Spec == Init /\ [][Next]_phase
================================================================================
