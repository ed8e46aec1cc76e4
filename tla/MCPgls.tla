------------------------------- MODULE MCPgls -------------------------------
(* An instance of Pgls for TLC: a query, and a schema directory with a file to *)
(* which a subdirectory may be added.                                          *)
EXTENDS Pgls, TLC

CONSTANTS query, users, root, sub, notes, main, timer1, handler1, callback1, callback2

OneUri == {query}
OneFile == {users}
OneHandler == {handler1}
TwoCallbacks == {callback1, callback2}
OneTimer == {timer1}
InRoot == users :> root
=============================================================================
