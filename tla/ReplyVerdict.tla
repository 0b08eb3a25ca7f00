----------------------------- MODULE ReplyVerdict -----------------------------
(***************************************************************************)
(* What the reply pipeline promises about one reply, without its windows,  *)
(* queues, leases and workers: a reply is open until it is either          *)
(* delivered to the contact or withheld because the owner took the         *)
(* conversation over, and either verdict is final.                         *)
(***************************************************************************)
CONSTANT Replies

VARIABLE verdict  \* what became of each reply

Verdicts == {"OPEN", "DELIVERED", "WITHHELD"}

Init == verdict = [r \in Replies |-> "OPEN"]

\* The provider call of an open reply takes effect.
Deliver(r) ==
    /\ verdict[r] = "OPEN"
    /\ verdict' = [verdict EXCEPT ![r] = "DELIVERED"]

\* The owner's own answer withholds an open reply.
Withhold(r) ==
    /\ verdict[r] = "OPEN"
    /\ verdict' = [verdict EXCEPT ![r] = "WITHHELD"]

Next == \E r \in Replies : Deliver(r) \/ Withhold(r)

Spec == Init /\ [][Next]_verdict
=============================================================================
