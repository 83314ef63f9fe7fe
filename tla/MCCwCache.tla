----------------------------- MODULE MCCwCache -----------------------------
(***************************************************************************)
(* Two handlers, three ECMs of which two share a slot, and three accounts: *)
(* one with fakecw, one whose key opens every ECM, one that has no key.    *)
(* Two slots, each with a mutex of its own.                                *)
(***************************************************************************)
EXTENDS CwCache, TLC

CONSTANTS s1, s2, e1, e2, e3, faking, keyed, keyless

TwoSessions == {s1, s2}
ThreeEcms == {e1, e2, e3}
ThreeAccounts == {faking, keyed, keyless}
FakingOnly == {faking}
Collisions == e1 :> 0 @@ e2 :> 2 @@ e3 :> 3
KeyedOpensAll ==
  [a \in ThreeAccounts |-> IF a = keyed THEN ThreeEcms ELSE {}]
=============================================================================
