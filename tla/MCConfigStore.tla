--------------------------- MODULE MCConfigStore ---------------------------
(***************************************************************************)
(* Two web threads, so that two saves can meet in the temporary file and   *)
(* in the configuration file, three saves in all, so that one can follow   *)
(* them, and as many reloads as are asked for.  A file that a thread has   *)
(* open or that has the name is never more than one of two.  One of the    *)
(* two settings holds a '#' and is read as the other, the value cut there. *)
(***************************************************************************)
EXTENDS ConfigStore, TLC

CONSTANTS w1, w2, f1, f2, cut, hash, u1

TwoThreads == {w1, w2}
TwoFiles == {f1, f2}
TwoSettings == {cut, hash}
OneUser == {u1}
CutAtHash == [c \in Config |-> [c EXCEPT !.opt = cut]]

Symmetry ==
  Permutations(TwoThreads) \cup Permutations(TwoFiles)
=============================================================================
