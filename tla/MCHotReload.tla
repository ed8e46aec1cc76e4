---------------------------- MODULE MCHotReload ----------------------------
(* Instances of HotReload for TLC: two files in the schema directory, or one *)
(* there and one in a subdirectory.                                          *)
EXTENDS HotReload, TLC

CONSTANTS users, orders, root, sub, notes, main, callback1, callback2

TwoFiles == {users, orders}
OneCallback == {callback1}
TwoCallbacks == {callback1, callback2}
Flat == users :> root @@ orders :> root
Nested == users :> root @@ orders :> sub
=============================================================================
