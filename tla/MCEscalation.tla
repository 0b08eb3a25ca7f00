---------------------------- MODULE MCEscalation ----------------------------
(* Escalation for TLC: the ladders the runs publish, and the requests'      *)
(* symmetry.                                                               *)
EXTENDS Escalation, TLC

FourSteps == {<<"cell_phone", "tv_overlay", "speaker_alert", "soft_ping">>}
Extended == {<<"cell_phone">>, <<"cell_phone", "soft_ping">>}

Interchangeable == Permutations(Callers)
=============================================================================
