------------------------------- MODULE MCLog -------------------------------
(***************************************************************************)
(* Two threads that log three lines between them and main() one, a queue    *)
(* that holds two, a ring of two and one reader whose polls are shorter     *)
(* than the ring, as the 200 lines of the pages and of the app are.        *)
(***************************************************************************)
EXTENDS Log

CONSTANTS t1, t2, page

TwoThreads == {t1, t2}
OneReader == {page}
=============================================================================
