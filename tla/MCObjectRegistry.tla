-------------------------- MODULE MCObjectRegistry --------------------------
(* Small instances of ObjectRegistry for TLC: one whose states vary in the *)
(* heap, one whose states vary in frames, scopes and automatic objects.    *)
EXTENDS ObjectRegistry

HeapStatics == {<<5, 1>>}
ScopeStatics == {}
=============================================================================
