---------------------------- MODULE MCPublisher ----------------------------
(* Instances of Publisher for TLC. *)
EXTENDS Publisher, TLC

CONSTANTS users, orders, handler1, handler2, callback1, callback2

OneUri == {users}
TwoUris == {users, orders}
OneHandler == {handler1}
TwoHandlers == {handler1, handler2}
OneCallback == {callback1}
TwoCallbacks == {callback1, callback2}

\* Threads of a kind are interchangeable, the two documents are not when one
\* of them is a schema file.
Symmetry == Permutations(TwoHandlers) \cup Permutations(TwoCallbacks)
=============================================================================
