----------------------------- MODULE MCDocSync -----------------------------
(* Instances of DocSync for TLC. *)
EXTENDS DocSync

SmallInserts == {<<>>, <<"x", "nl">>, <<"emoji">>}
=============================================================================
