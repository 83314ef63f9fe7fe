----------------------------- MODULE MCAccounts -----------------------------
(***************************************************************************)
(* Instances of Accounts: two newcamd sessions and a cccam session.        *)
(***************************************************************************)
EXTENDS Accounts, TLC

CONSTANTS n1, n2, c1, u1, u2

TwoNewcamd == {n1, n2}
ThreeSessions == {n1, n2, c1}
MixedSessions == {n1, c1}
OneCccam == {c1}
OneUser == {u1}
TwoUsers == {u1, u2}

OneEach == [u \in Users |-> 1]
TwoEach == [u \in Users |-> 2]
NoLimit == [u \in Users |-> 0]

(* Without limits nothing depends on `active', which writes through        *)
(* dangling pointers would make unbounded; and nothing ever depends on the *)
(* flag of an object that has been freed.  The memberships always hold:    *)
(* they make TLC evaluate the values it would otherwise keep as ever       *)
(* longer expressions.                                                     *)
WithoutActive ==
  <<active \in [Objects -> Int], enabled \in [Objects -> BOOLEAN],
    {o \in live : enabled[o]}, listed, gen, live, deleted, toKill, reloadVars,
    pc, clientVars, crashed>>

(* Bound of the reload run: the sessions come one after the other.  They   *)
(* share only `active'.                                                    *)
OneBusy == Cardinality({s \in Sessions : pc[s] # "idle"}) <= 1

Newcamds == Permutations(TwoNewcamd)
=============================================================================
