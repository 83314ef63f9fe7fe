------------------------------ MODULE EcmMemo ------------------------------
(***************************************************************************)
(* What the two ECM handlers promise their sessions, with no slots, no     *)
(* hash and no locks: a memo that keeps for each ECM the last control word *)
(* (CW) made for it, answers from it only while that word is younger than  *)
(* TTL, and may forget anything at any time.  A word enters the memo only  *)
(* from the session that has just made it, so an answer never renews it.   *)
(***************************************************************************)
EXTENDS Naturals

CONSTANTS Sessions, Accounts, Ecms, TTL, None, Emulate(_, _)

VARIABLES
  phase, \* per session: idle, asking, made, answered or refused
  acc,   \* per session: the account of the request, or None
  ecm,   \* per session: the ECM of the request
  word,  \* per session: the CW it holds, or None
  memo   \* per ECM: [cw, age], or None

memoVars == <<phase, acc, ecm, word, memo>>

Init ==
  /\ phase = [s \in Sessions |-> "idle"]
  /\ acc = [s \in Sessions |-> None]
  /\ ecm = [s \in Sessions |-> None]
  /\ word = [s \in Sessions |-> None]
  /\ memo = [e \in Ecms |-> None]

Ask(s, a, e) ==
  /\ phase[s] = "idle"
  /\ phase' = [phase EXCEPT ![s] = "asking"]
  /\ acc' = [acc EXCEPT ![s] = a]
  /\ ecm' = [ecm EXCEPT ![s] = e]
  /\ UNCHANGED <<word, memo>>

FromMemo(s) ==
  /\ phase[s] = "asking"
  /\ memo[ecm[s]] # None
  /\ memo[ecm[s]].age < TTL
  /\ phase' = [phase EXCEPT ![s] = "answered"]
  /\ word' = [word EXCEPT ![s] = memo[ecm[s]].cw]
  /\ UNCHANGED <<acc, ecm, memo>>

Make(s) ==
  /\ phase[s] = "asking"
  /\ LET cw == Emulate(acc[s], ecm[s]) IN
       /\ phase' = [phase EXCEPT ![s] = IF cw = None THEN "refused" ELSE "made"]
       /\ word' = [word EXCEPT ![s] = cw]
  /\ UNCHANGED <<acc, ecm, memo>>

Keep(s) ==
  /\ phase[s] = "made"
  /\ phase' = [phase EXCEPT ![s] = "answered"]
  /\ memo' = [memo EXCEPT ![ecm[s]] = [cw |-> word[s], age |-> 0]]
  /\ UNCHANGED <<acc, ecm, word>>

Finish(s) ==
  /\ phase[s] \in {"answered", "refused"}
  /\ phase' = [phase EXCEPT ![s] = "idle"]
  /\ acc' = [acc EXCEPT ![s] = None]
  /\ ecm' = [ecm EXCEPT ![s] = None]
  /\ word' = [word EXCEPT ![s] = None]
  /\ UNCHANGED memo

Forget(gone) ==
  /\ memo' = [e \in Ecms |-> IF e \in gone THEN None ELSE memo[e]]
  /\ UNCHANGED <<phase, acc, ecm, word>>

Older(m) == IF m = None \/ m.age = TTL THEN m ELSE [m EXCEPT !.age = @ + 1]

Tick ==
  /\ memo' = [e \in Ecms |-> Older(memo[e])]
  /\ UNCHANGED <<phase, acc, ecm, word>>

Next ==
  \/ \E s \in Sessions :
       \/ \E a \in Accounts \cup {None}, e \in Ecms : Ask(s, a, e)
       \/ FromMemo(s)
       \/ Make(s)
       \/ Keep(s)
       \/ Finish(s)
  \/ \E e \in Ecms : Forget({e})
  \/ Tick

Spec == Init /\ [][Next]_memoVars
=============================================================================
