---------------------------- MODULE LoginProofs -----------------------------
(***************************************************************************)
(* Proofs about the logins: the account a session is linked to and the     *)
(* places it takes (Accounts), and the ban of an address that guesses      *)
(* (FailBan).  The two parts are independent.                              *)
(*                                                                         *)
(* Accounts.  A login holds a pointer it read earlier, so the question is  *)
(* which pointers can dangle.  Unless a swap or a deletion came in between *)
(* (straddled), the pointer of a login is the listed object (LoginInv).    *)
(* The list that is built and the one that is about to be freed are apart  *)
(* from the listed one because generations only grow (ListInv).  Thus the  *)
(* links that the walk has redone, and those made since, keep away from    *)
(* what is freed (LinkInv); and nobody registers or leaves during the walk *)
(* (WalkInv).                                                              *)
(***************************************************************************)
EXTENDS Accounts, FailBan, FiniteSetTheorems, TLAPS

-----------------------------------------------------------------------------
(* Accounts: links.                                                        *)

(* Where a session is and what its handler holds there.                    *)
PlaceInv ==
  \A s \in Sessions :
    /\ pc[s] = "idle" =>
         acc[s] = None /\ account[s] = None /\ user[s] = None /\ ~straddled[s]
    /\ pc[s] \in LoginPcs => acc[s] # None

(* What is listed is not freed; the list that is being built, and the one  *)
(* that is about to be freed, have nothing in common with it.              *)
ListInv ==
  /\ Listed \subseteq live
  /\ \A u \in Users : listed[u] # None => listed[u] <= gen
  /\ \A o \in old : o[2] <= gen /\ o \notin Listed
  /\ rpc \in {"idle", "copy"} => old = {}
  /\ rpc = "copy" =>
       \A u \in Users : fresh[u] # None =>
         /\ fresh[u] <= gen /\ fresh[u] # listed[u]
         /\ <<u, fresh[u]>> \in live

(* A login that no swap and no deletion came across has the listed object. *)
LoginInv ==
  \A s \in Sessions :
    ~straddled[s] =>
      /\ pc[s] \in LoginPcs => acc[s] \in Listed
      /\ pc[s] = "linked" => user[s] = acc[s][1]

(* The clients that the walk of a reload has yet to reach, and the one it  *)
(* is about to kill, stay registered.                                      *)
WalkInv ==
  /\ unvisited \cup unlinked \subseteq Registered
  /\ \A s, t \in unlinked : s = t
  /\ LocksFree => unvisited \cup unlinked = {}

(* Only a client the walk has not reached points into the replaced list.   *)
LinkInv ==
  \A s \in Registered :
    ~straddled[s] /\ account[s] # None =>
      /\ account[s] \in live \cup deleted
      /\ account[s] \in old => s \in unvisited
      /\ pc[s] # "linked" => account[s][1] = user[s]

-----------------------------------------------------------------------------
LEMMA Constants ==
  /\ IsFiniteSet(Sessions) /\ Cccam \subseteq Sessions
  /\ MaxConnections \in [Users -> Nat] /\ MaxGen \in Nat
  /\ None \notin Users /\ None \notin Nat /\ None \notin Objects
  BY AccountsAssumption DEF Objects, Gens

(* A pair is an object, and an object a pair.                              *)
LEMMA ObjectFacts ==
  ASSUME NEW u \in Users
  PROVE  /\ \A g \in Gens : <<u, g>> \in Objects /\ <<u, g>> # None
         /\ listed[u] \in Gens => Object(u) = <<u, listed[u]>>
         /\ listed[u] = None => Object(u) = None
<1>1. None \notin Objects /\ None \notin Gens
  BY Constants DEF Gens
<1> QED
  BY <1>1 DEF Objects, Object

(* The listed objects, without mention of Object.                          *)
LEMMA ListedFacts ==
  ASSUME listed \in [Users -> Gens \cup {None}]
  PROVE  /\ Listed \subseteq Objects
         /\ \A o \in Objects : o \in Listed <=> listed[o[1]] = o[2]
         /\ \A u \in Users : listed[u] # None =>
              Object(u) = <<u, listed[u]>> /\ Object(u) \in Listed
<1>1. None \notin Objects /\ None \notin Gens
  BY Constants DEF Gens
<1>2. \A u \in Users :
        /\ listed[u] # None => /\ Object(u) = <<u, listed[u]>>
                               /\ Object(u) \in Objects
        /\ listed[u] = None => Object(u) = None
  BY <1>1 DEF Object, Objects
<1>3. \A u \in Users : listed[u] # None => Object(u) \in Listed
  BY <1>1, <1>2 DEF Listed
<1>4. \A o \in Listed : \E u \in Users : listed[u] # None /\ o = Object(u)
  BY <1>2 DEF Listed
<1>5. ASSUME NEW o \in Objects
      PROVE  o \in Listed <=> listed[o[1]] = o[2]
  <2>1. o = <<o[1], o[2]>> /\ o[1] \in Users /\ o[2] \in Gens
    BY DEF Objects
  <2>2. ASSUME o \in Listed
        PROVE  listed[o[1]] = o[2]
    BY <1>2, <1>4, <2>1, <2>2
  <2>3. ASSUME listed[o[1]] = o[2]
        PROVE  o \in Listed
    BY <1>1, <1>2, <1>3, <2>1, <2>3
  <2> QED
    BY <2>2, <2>3
<1> QED
  BY <1>2, <1>3, <1>4, <1>5

LEMMA AddToTyped ==
  ASSUME active \in [Objects -> Int], live \subseteq Objects,
         NEW p, NEW n \in Int, AddTo(p, n)
  PROVE  active' \in [Objects -> Int]
<1>1. CASE p \in live
  BY <1>1 DEF AddTo
<1>2. CASE p \notin live
  BY <1>2 DEF AddTo
<1> QED
  BY <1>1, <1>2

(* The steps of a handler.                                                 *)
LEMMA HandleSplits ==
  ASSUME NEW s \in Sessions, Handle(s)
  PROVE  \/ Connect(s) \/ GiveUp(s) \/ (\E u \in Users : Find(s, u))
         \/ Checks(s) \/ Admit(s) \/ LinkUser(s) \/ LinkAccount(s)
         \/ LoopTop(s) \/ Receive(s) \/ EcmBegin(s) \/ EcmEnd(s)
         \/ Unregister(s) \/ Release(s)
  BY DEF Handle

(* What all of them leave alone, and that each moves one session.          *)
LEMMA HandleKeeps ==
  ASSUME NEW s \in Sessions, Handle(s)
  PROVE  /\ UNCHANGED <<configVars, toKill, reloadVars>>
         /\ \/ UNCHANGED pc
            \/ \E p \in Pcs : pc' = [pc EXCEPT ![s] = p]
<1> USE DEF Goto, Pcs, LoginPcs
<1>1. CASE Connect(s) \/ GiveUp(s)
  BY <1>1 DEF Connect, GiveUp
<1>2. ASSUME NEW u \in Users, Find(s, u)
      PROVE  /\ UNCHANGED <<configVars, toKill, reloadVars>>
             /\ \E p \in Pcs : pc' = [pc EXCEPT ![s] = p]
  BY <1>2 DEF Find
<1>3. CASE Checks(s) \/ Admit(s)
  BY <1>3 DEF Checks, Admit
<1>4. CASE LinkUser(s) \/ LinkAccount(s)
  BY <1>4 DEF LinkUser, LinkAccount
<1>5. CASE LoopTop(s) \/ Receive(s) \/ EcmBegin(s)
  BY <1>5 DEF LoopTop, Receive, EcmBegin, LeavePc
<1>6. CASE EcmEnd(s)
  BY <1>6 DEF EcmEnd, Crash
<1>7. CASE Unregister(s) \/ Release(s)
  BY <1>7 DEF Unregister, Release, Return
<1> QED
  BY <1>1, <1>2, <1>3, <1>4, <1>5, <1>6, <1>7, HandleSplits

(* What they do to the session's own record.                               *)
LEMMA HandleClient ==
  ASSUME TypeOK, PlaceInv, NEW s \in Sessions, Handle(s)
  PROVE  /\ \E p \in Pointers : acc' = [acc EXCEPT ![s] = p]
         /\ \E p \in Pointers : account' = [account EXCEPT ![s] = p]
         /\ \E u \in Users \cup {None} : user' = [user EXCEPT ![s] = u]
         /\ \E b \in BOOLEAN : kill' = [kill EXCEPT ![s] = b]
         /\ \E b \in BOOLEAN : straddled' = [straddled EXCEPT ![s] = b]
<1> DEFINE G == /\ \E p \in Pointers : acc' = [acc EXCEPT ![s] = p]
                /\ \E p \in Pointers : account' = [account EXCEPT ![s] = p]
                /\ \E u \in Users \cup {None} : user' = [user EXCEPT ![s] = u]
                /\ \E b \in BOOLEAN : kill' = [kill EXCEPT ![s] = b]
                /\ \E b \in BOOLEAN :
                     straddled' = [straddled EXCEPT ![s] = b]
<1> SUFFICES G
  OBVIOUS
<1>1. /\ acc \in [Sessions -> Pointers] /\ account \in [Sessions -> Pointers]
      /\ user \in [Sessions -> Users \cup {None}]
      /\ kill \in [Sessions -> BOOLEAN] /\ straddled \in [Sessions -> BOOLEAN]
      /\ None \in Pointers
  BY DEF TypeOK, Pointers
<1>2. /\ acc = [acc EXCEPT ![s] = acc[s]] /\ acc[s] \in Pointers
      /\ account = [account EXCEPT ![s] = account[s]]
      /\ account[s] \in Pointers
      /\ user = [user EXCEPT ![s] = user[s]] /\ user[s] \in Users \cup {None}
  BY <1>1
<1>3. /\ kill = [kill EXCEPT ![s] = kill[s]] /\ kill[s] \in BOOLEAN
      /\ straddled = [straddled EXCEPT ![s] = straddled[s]]
      /\ straddled[s] \in BOOLEAN
  BY <1>1
<1>4. CASE UNCHANGED clientVars
  <2>1. acc' = acc /\ account' = account /\ user' = user
    BY <1>4 DEF clientVars
  <2>2. kill' = kill /\ straddled' = straddled
    BY <1>4 DEF clientVars
  <2>3. /\ \E p \in Pointers : acc' = [acc EXCEPT ![s] = p]
        /\ \E p \in Pointers : account' = [account EXCEPT ![s] = p]
        /\ \E u \in Users \cup {None} : user' = [user EXCEPT ![s] = u]
    BY <1>2, <2>1
  <2>4. \E b \in BOOLEAN : kill' = [kill EXCEPT ![s] = b]
    BY <1>3, <2>2, Zenon
  <2>5. \E b \in BOOLEAN : straddled' = [straddled EXCEPT ![s] = b]
    BY <1>3, <2>2, Zenon
  <2> QED
    BY <2>3, <2>4, <2>5
<1>5. ASSUME NEW u \in Users, Find(s, u)
      PROVE  G
  <2>1. Object(u) \in Pointers
    BY ObjectFacts DEF TypeOK, Pointers
  <2>2. /\ acc' = [acc EXCEPT ![s] = Object(u)]
        /\ UNCHANGED <<account, user, kill, straddled>>
    BY <1>5 DEF Find
  <2> QED
    BY <1>2, <1>3, <2>1, <2>2
<1>6. CASE LinkUser(s)
  <2>1. acc[s] \in Objects
    BY <1>1, <1>6 DEF LinkUser, PlaceInv, LoginPcs, Pointers
  <2>2. acc[s][1] \in Users
    BY <2>1 DEF Objects
  <2>3. \E u \in Users \cup {None} : user' = [user EXCEPT ![s] = u]
    BY <1>6, <2>2 DEF LinkUser
  <2>4. UNCHANGED <<acc, account, kill, straddled>>
    BY <1>6 DEF LinkUser
  <2> QED
    BY <1>2, <1>3, <2>3, <2>4
<1>7. CASE LinkAccount(s)
  <2>1. /\ account' = [account EXCEPT ![s] = acc[s]]
        /\ UNCHANGED <<acc, user, kill, straddled>>
    BY <1>7 DEF LinkAccount
  <2> QED
    BY <1>2, <1>3, <2>1
<1>8. CASE Return(s)
  BY <1>1, <1>8 DEF Return
<1>9. CASE Unregister(s) \/ Release(s)
  BY <1>4, <1>8, <1>9 DEF Unregister, Release
<1>10. CASE Connect(s) \/ GiveUp(s) \/ Checks(s) \/ Admit(s) \/ LoopTop(s)
            \/ Receive(s) \/ EcmBegin(s) \/ EcmEnd(s)
  BY <1>4, <1>10 DEF Connect, GiveUp, Checks, Admit, LoopTop, Receive,
                     EcmBegin, EcmEnd, Crash
<1> HIDE DEF G
<1> QED
  BY <1>5, <1>6, <1>7, <1>9, <1>10, HandleSplits

LEMMA HandleTyped ==
  ASSUME TypeOK, PlaceInv, NEW s \in Sessions, Handle(s)
  PROVE  TypeOK'
<1>1. active' \in [Objects -> Int]
  <2>1. active \in [Objects -> Int] /\ live \subseteq Objects
    BY DEF TypeOK
  <2>2. CASE UNCHANGED active
    BY <2>1, <2>2
  <2>3. CASE \E p \in Pointers, n \in {1, -1} : AddTo(p, n)
    BY <2>1, <2>3, AddToTyped
  <2>4. CASE Admit(s) \/ Release(s)
    BY <2>2, <2>3, <2>4 DEF Admit, Release, PlacePointer, TypeOK
  <2>5. CASE ~(Admit(s) \/ Release(s))
    <3>1. UNCHANGED active
      BY <2>5, HandleSplits
         DEF Connect, GiveUp, Find, Checks, LinkUser, LinkAccount, LoopTop,
             Receive, EcmBegin, EcmEnd, Crash, Unregister
    <3> QED
      BY <2>1, <3>1
  <2> QED
    BY <2>4, <2>5
<1>2. crashed' \in BOOLEAN
  BY HandleSplits
     DEF Connect, GiveUp, Find, Checks, Admit, LinkUser, LinkAccount, LoopTop,
         Receive, EcmBegin, EcmEnd, Crash, Unregister, Release, TypeOK
<1>3. pc' \in [Sessions -> Pcs]
  BY HandleKeeps DEF TypeOK
<1>4. acc' \in [Sessions -> Pointers] /\ account' \in [Sessions -> Pointers]
  BY HandleClient DEF TypeOK
<1>5. user' \in [Sessions -> Users \cup {None}]
  BY HandleClient DEF TypeOK
<1>6. kill' \in [Sessions -> BOOLEAN] /\ straddled' \in [Sessions -> BOOLEAN]
  BY HandleClient DEF TypeOK
<1>7. UNCHANGED <<configVars, toKill, reloadVars>>
  BY HandleKeeps
<1> QED
  BY <1>1, <1>2, <1>3, <1>4, <1>5, <1>6, <1>7
     DEF TypeOK, configVars, reloadVars

LEMMA WebTyped ==
  ASSUME TypeOK, Web
  PROVE  TypeOK'
<1> USE DEF TypeOK
<1>1. ASSUME NEW u \in Users, KillByUser(u)
      PROVE  TypeOK'
  <2>1. kill' \in [Sessions -> BOOLEAN]
    BY <1>1 DEF KillByUser
  <2> QED
    BY <1>1, <2>1 DEF KillByUser, configVars, reloadVars
<1>2. ASSUME NEW u \in Users, Add(u)
      PROVE  TypeOK'
  <2>1. gen + 1 \in Gens
    BY <1>2, Constants DEF Add, Gens
  <2>2. gen' \in Gens /\ listed' \in [Users -> Gens \cup {None}]
    BY <1>2, <2>1 DEF Add
  <2>3. live' \subseteq Objects
    BY <1>2, <2>1 DEF Add, Objects
  <2>4. enabled' \in [Objects -> BOOLEAN]
    BY <1>2 DEF Add
  <2> QED
    BY <1>2, <2>2, <2>3, <2>4 DEF Add, reloadVars, clientVars
<1>3. ASSUME NEW u \in Users, Delete(u)
      PROVE  TypeOK'
  <2>1. Object(u) \in Objects
    BY <1>3, ListedFacts DEF Delete
  <2>2. listed' \in [Users -> Gens \cup {None}]
    BY <1>3 DEF Delete
  <2>3. straddled' \in [Sessions -> BOOLEAN]
    BY <1>3 DEF Delete
  <2>4. live' \subseteq Objects /\ deleted' \subseteq Objects
    BY <1>3, <2>1 DEF Delete
  <2> QED
    BY <1>3, <2>2, <2>3, <2>4 DEF Delete, reloadVars
<1>4. ASSUME NEW u \in Users, NEW on \in BOOLEAN, SetEnabled(u, on)
      PROVE  TypeOK'
  <2>1. enabled' \in [Objects -> BOOLEAN]
    BY <1>4 DEF SetEnabled
  <2>2. toKill' \subseteq Users
    BY <1>4 DEF SetEnabled
  <2> QED
    BY <1>4, <2>1, <2>2 DEF SetEnabled, reloadVars, clientVars
<1>5. ASSUME NEW s \in Sessions, KillByTid(s)
      PROVE  TypeOK'
  BY <1>5 DEF KillByTid, configVars, reloadVars
<1> QED
  BY <1>1, <1>2, <1>3, <1>4, <1>5 DEF Web

LEMMA ReloadTyped ==
  ASSUME TypeOK, Reload
  PROVE  TypeOK'
<1> USE DEF TypeOK
<1>1. CASE ReloadLoad
  <2>1. gen + 1 \in Gens
    BY <1>1, Constants DEF ReloadLoad, Gens
  <2>2. PICK names \in SUBSET Users, off \in SUBSET Users :
          /\ fresh' = [u \in Users |-> IF u \in names THEN gen + 1 ELSE None]
          /\ uncopied' = names
          /\ live' = live \cup {<<u, gen + 1>> : u \in names}
          /\ enabled' = [o \in Objects |->
               IF o[2] = gen + 1 THEN o[1] \notin off ELSE enabled[o]]
    BY <1>1 DEF ReloadLoad
  <2>3. fresh' \in [Users -> Gens \cup {None}] /\ uncopied' \subseteq Users
    BY <2>1, <2>2
  <2>4. live' \subseteq Objects
    BY <2>1, <2>2 DEF Objects
  <2>5. enabled' \in [Objects -> BOOLEAN]
    BY <2>2
  <2>6. gen' \in Gens /\ rpc' = "copy"
    BY <1>1, <2>1 DEF ReloadLoad
  <2> QED
    BY <1>1, <2>3, <2>4, <2>5, <2>6 DEF ReloadLoad, clientVars
<1>2. ASSUME NEW u \in Users, ReloadCopy(u)
      PROVE  TypeOK'
  <2>1. active' \in [Objects -> Int]
    <3>1. CASE listed[u] = None
      BY <1>2, <3>1 DEF ReloadCopy
    <3>2. CASE listed[u] # None
      <4>1. Object(u) \in Objects
        BY <3>2, ListedFacts
      <4>2. active[Object(u)] \in Int
        BY <4>1
      <4> QED
        BY <1>2, <3>2, <4>2 DEF ReloadCopy
    <3> QED
      BY <3>1, <3>2
  <2> QED
    BY <1>2, <2>1 DEF ReloadCopy, configVars, clientVars
<1>3. CASE ReloadSwap
  <2>1. Listed \subseteq Objects /\ Registered \subseteq Sessions
    BY ListedFacts DEF Registered
  <2>2. straddled' \in [Sessions -> BOOLEAN]
    BY <1>3 DEF ReloadSwap
  <2> QED
    BY <1>3, <2>1, <2>2 DEF ReloadSwap
<1>4. ASSUME NEW s \in Sessions, Relink(s)
      PROVE  TypeOK'
  <2>1. user[s] \in Users => Object(user[s]) \in Pointers
    BY ObjectFacts DEF Pointers
  <2>2. account' \in [Sessions -> Pointers]
    BY <1>4, <2>1 DEF Relink, HasName
  <2>3. unvisited' \subseteq Sessions /\ unlinked' \subseteq Sessions
    BY <1>4 DEF Relink
  <2> QED
    BY <1>4, <2>2, <2>3 DEF Relink, configVars
<1>5. ASSUME NEW s \in Sessions, RelinkKill(s)
      PROVE  TypeOK'
  <2>1. kill' \in [Sessions -> BOOLEAN]
    BY <1>5 DEF RelinkKill
  <2> QED
    BY <1>5, <2>1 DEF RelinkKill, configVars
<1>6. CASE RelinkDone
  BY <1>6 DEF RelinkDone, configVars, clientVars
<1>7. CASE ReloadFree
  BY <1>7 DEF ReloadFree, clientVars
<1> QED
  BY <1>1, <1>2, <1>3, <1>4, <1>5, <1>6, <1>7 DEF Reload

LEMMA TypeStep ==
  ASSUME TypeOK, PlaceInv, [Next]_vars
  PROVE  TypeOK'
<1>1. CASE UNCHANGED vars
  BY <1>1 DEF vars, configVars, reloadVars, clientVars, TypeOK
<1> QED
  BY <1>1, HandleTyped, WebTyped, ReloadTyped DEF Next

-----------------------------------------------------------------------------
(* The steps of a handler as the invariants see them: those that leave the *)
(* record of the session alone, and four that do not.                      *)
Serving == {"loop", "recv", "ecm"}

Quiet(s) ==
  /\ /\ acc'[s] = acc[s] /\ account'[s] = account[s] /\ user'[s] = user[s]
     /\ kill'[s] = kill[s] /\ straddled'[s] = straddled[s]
  /\ pc'[s] \notin {"idle", "linked"} /\ pc[s] # "linked"
  /\ pc'[s] \in LoginPcs => pc[s] \in LoginPcs
  /\ pc'[s] \in Serving => pc[s] \in Serving
  /\ s \in Registered' => s \in Registered \/ pc[s] = "idle"

Finds(s) ==
  /\ account'[s] = account[s] /\ user'[s] = user[s]
  /\ kill'[s] = kill[s] /\ straddled'[s] = straddled[s]
  /\ pc[s] \in {"wait", "recv"} /\ pc'[s] \in {"checks", "cleanup"}
  /\ acc'[s] # None => acc'[s] \in Listed
  /\ pc'[s] = "checks" => acc'[s] # None

Names(s) ==
  /\ pc[s] = "link" /\ pc'[s] = "linked"
  /\ user'[s] \in {acc[s][1], None}
  /\ acc[s] \in live => user'[s] = acc[s][1]
  /\ acc'[s] = acc[s] /\ account'[s] = account[s]
  /\ kill'[s] = kill[s] /\ straddled'[s] = straddled[s]

Links(s) ==
  /\ pc[s] = "linked" /\ pc'[s] = "loop"
  /\ account'[s] = acc[s]
  /\ acc'[s] = acc[s] /\ user'[s] = user[s]
  /\ kill'[s] = kill[s] /\ straddled'[s] = straddled[s]

Returns(s) ==
  /\ pc'[s] = "idle"
  /\ acc'[s] = None /\ account'[s] = None /\ user'[s] = None
  /\ kill'[s] = FALSE /\ straddled'[s] = FALSE

LEMMA HandleForms ==
  ASSUME TypeOK, NEW s \in Sessions, Handle(s)
  PROVE  Quiet(s) \/ Finds(s) \/ Names(s) \/ Links(s) \/ Returns(s)
<1>1. /\ acc \in [Sessions -> Pointers] /\ account \in [Sessions -> Pointers]
      /\ user \in [Sessions -> Users \cup {None}]
      /\ kill \in [Sessions -> BOOLEAN] /\ straddled \in [Sessions -> BOOLEAN]
      /\ pc \in [Sessions -> Pcs]
  BY DEF TypeOK
<1>2. ASSUME UNCHANGED clientVars
      PROVE  /\ acc'[s] = acc[s] /\ account'[s] = account[s]
             /\ user'[s] = user[s]
             /\ kill'[s] = kill[s] /\ straddled'[s] = straddled[s]
  BY <1>2 DEF clientVars
<1>3. ASSUME NEW p, Goto(s, p)
      PROVE  pc'[s] = p
  BY <1>1, <1>3 DEF Goto
<1>4. CASE Connect(s) \/ GiveUp(s)
  BY <1>2, <1>3, <1>4
     DEF Connect, GiveUp, Quiet, Serving, LoginPcs, Registered
<1>5. CASE Checks(s) \/ Admit(s)
  BY <1>2, <1>3, <1>5
     DEF Checks, Admit, Quiet, Serving, LoginPcs, Registered
<1>6. CASE LoopTop(s) \/ Receive(s) \/ EcmBegin(s)
  BY <1>2, <1>3, <1>6
     DEF LoopTop, Receive, EcmBegin, LeavePc, Quiet, Serving, LoginPcs,
         Registered
<1>7. CASE EcmEnd(s)
  <2>1. CASE Crash
    BY <1>2, <1>7, <2>1
       DEF Crash, EcmEnd, Quiet, Serving, LoginPcs, Registered
  <2>2. CASE Goto(s, "loop") /\ UNCHANGED clientVars
    BY <1>2, <1>3, <1>7, <2>2
       DEF EcmEnd, Quiet, Serving, LoginPcs, Registered
  <2> QED
    BY <1>7, <2>1, <2>2 DEF EcmEnd
<1>8. CASE Return(s)
  BY <1>1, <1>3, <1>8 DEF Return, Returns
<1>9. CASE Unregister(s)
  BY <1>2, <1>3, <1>8, <1>9
     DEF Unregister, Quiet, Serving, LoginPcs, Registered
<1>10. CASE Release(s)
  BY <1>2, <1>3, <1>8, <1>10
     DEF Release, Quiet, Serving, LoginPcs, Registered
<1>11. ASSUME NEW u \in Users, Find(s, u)
       PROVE  Finds(s)
  <2>1. acc'[s] = Object(u) /\ UNCHANGED <<account, user, kill, straddled>>
    BY <1>1, <1>11 DEF Find
  <2>2. pc'[s] = IF Object(u) = None THEN "cleanup" ELSE "checks"
    BY <1>3, <1>11 DEF Find
  <2>3. Object(u) # None => Object(u) \in Listed
    BY DEF Listed
  <2> QED
    BY <1>11, <2>1, <2>2, <2>3 DEF Find, Finds
<1>12. CASE LinkUser(s)
  <2>1. /\ acc[s] \in live => user' = [user EXCEPT ![s] = acc[s][1]]
        /\ \E u \in {acc[s][1], None} : user' = [user EXCEPT ![s] = u]
    BY <1>12 DEF LinkUser
  <2> QED
    BY <1>1, <1>3, <1>12, <2>1 DEF LinkUser, Names
<1>13. CASE LinkAccount(s)
  BY <1>1, <1>3, <1>13 DEF LinkAccount, Links
<1> QED
  BY <1>4, <1>5, <1>6, <1>7, <1>9, <1>10, <1>11, <1>12, <1>13, HandleSplits

LEMMA HandleOthers ==
  ASSUME TypeOK, PlaceInv, NEW s \in Sessions, Handle(s),
         NEW t \in Sessions, t # s
  PROVE  /\ pc'[t] = pc[t] /\ acc'[t] = acc[t] /\ account'[t] = account[t]
         /\ user'[t] = user[t]
         /\ kill'[t] = kill[t] /\ straddled'[t] = straddled[t]
         /\ t \in Registered' <=> t \in Registered
<1>1. /\ acc \in [Sessions -> Pointers] /\ account \in [Sessions -> Pointers]
      /\ user \in [Sessions -> Users \cup {None}]
      /\ pc \in [Sessions -> Pcs]
  BY DEF TypeOK
<1>2. kill \in [Sessions -> BOOLEAN] /\ straddled \in [Sessions -> BOOLEAN]
  BY DEF TypeOK
<1>3. pc'[t] = pc[t]
  BY <1>1, HandleKeeps
<1>4. acc'[t] = acc[t] /\ account'[t] = account[t] /\ user'[t] = user[t]
  BY <1>1, HandleClient
<1>5. kill'[t] = kill[t] /\ straddled'[t] = straddled[t]
  BY <1>2, HandleClient
<1>6. t \in Registered' <=> t \in Registered
  BY <1>3 DEF Registered
<1> QED
  BY <1>3, <1>4, <1>5, <1>6

-----------------------------------------------------------------------------
(* A handler keeps the invariants.                                         *)
LEMMA HandlePlace ==
  ASSUME TypeOK, PlaceInv, NEW s \in Sessions, Handle(s)
  PROVE  PlaceInv'
<1> DEFINE P(t) ==
      /\ pc[t] = "idle" =>
           acc[t] = None /\ account[t] = None /\ user[t] = None
             /\ ~straddled[t]
      /\ pc[t] \in LoginPcs => acc[t] # None
<1>1. \A t \in Sessions : P(t)
  BY DEF PlaceInv
<1>2. ASSUME NEW t \in Sessions, t # s
      PROVE  P(t)'
  BY <1>1, <1>2, HandleOthers
<1>3. P(s)'
  <2>1. CASE Quiet(s)
    BY <1>1, <2>1 DEF Quiet
  <2>2. CASE Finds(s)
    BY <2>2 DEF Finds, LoginPcs
  <2>3. CASE Names(s) \/ Links(s)
    BY <1>1, <2>3 DEF Names, Links, LoginPcs
  <2>4. CASE Returns(s)
    BY <2>4 DEF Returns, LoginPcs
  <2> QED
    BY <2>1, <2>2, <2>3, <2>4, HandleForms
<1>4. \A t \in Sessions : P(t)'
  BY <1>2, <1>3
<1> QED
  BY <1>4 DEF PlaceInv

LEMMA HandleList ==
  ASSUME ListInv, NEW s \in Sessions, Handle(s)
  PROVE  ListInv' /\ Listed' = Listed
<1>1. UNCHANGED <<listed, gen, live, rpc, fresh, old>>
  BY HandleKeeps DEF configVars, reloadVars
<1>2. Listed' = Listed
  BY <1>1 DEF Listed, Object
<1> QED
  BY <1>1, <1>2 DEF ListInv

LEMMA HandleLogin ==
  ASSUME TypeOK, PlaceInv, ListInv, LoginInv, NEW s \in Sessions, Handle(s)
  PROVE  LoginInv'
<1> DEFINE P(t) ==
      ~straddled[t] =>
        /\ pc[t] \in LoginPcs => acc[t] \in Listed
        /\ pc[t] = "linked" => user[t] = acc[t][1]
<1>1. \A t \in Sessions : P(t)
  BY DEF LoginInv
<1>2. Listed' = Listed /\ Listed \subseteq live
  BY HandleList DEF ListInv
<1>3. ASSUME NEW t \in Sessions, t # s
      PROVE  P(t)'
  BY <1>1, <1>2, <1>3, HandleOthers
<1>4. P(s)'
  <2>1. CASE Quiet(s)
    BY <1>1, <1>2, <2>1 DEF Quiet
  <2>2. CASE Finds(s)
    BY <1>2, <2>2 DEF Finds, LoginPcs
  <2>3. CASE Names(s)
    BY <1>1, <1>2, <2>3 DEF Names, LoginPcs
  <2>4. CASE Links(s) \/ Returns(s)
    BY <2>4 DEF Links, Returns, LoginPcs
  <2> QED
    BY <2>1, <2>2, <2>3, <2>4, HandleForms
<1>5. \A t \in Sessions : P(t)'
  BY <1>3, <1>4
<1> QED
  BY <1>5 DEF LoginInv

LEMMA HandleLink ==
  ASSUME TypeOK, PlaceInv, ListInv, LoginInv, LinkInv,
         NEW s \in Sessions, Handle(s)
  PROVE  LinkInv'
<1> DEFINE P(t) ==
      t \in Registered /\ ~straddled[t] /\ account[t] # None =>
        /\ account[t] \in live \cup deleted
        /\ account[t] \in old => t \in unvisited
        /\ pc[t] # "linked" => account[t][1] = user[t]
<1>1. \A t \in Sessions : P(t)
  BY DEF LinkInv
<1>2. /\ live' = live /\ old' = old /\ deleted' = deleted
      /\ unvisited' = unvisited
  BY HandleKeeps DEF configVars, reloadVars
<1>3. ASSUME NEW t \in Sessions, t # s
      PROVE  P(t)'
  BY <1>1, <1>2, <1>3, HandleOthers
<1>4. P(s)'
  <2>1. CASE Quiet(s)
    <3>1. CASE pc[s] = "idle"
      BY <2>1, <3>1 DEF Quiet, PlaceInv
    <3>2. CASE pc[s] # "idle"
      BY <1>1, <1>2, <2>1, <3>2 DEF Quiet
    <3> QED
      BY <3>1, <3>2
  <2>2. CASE Finds(s)
    <3>1. s \in Registered /\ pc[s] # "linked"
      BY <2>2 DEF Finds, Registered
    <3> QED
      BY <1>1, <1>2, <2>2, <3>1 DEF Finds
  <2>3. CASE Names(s)
    <3>1. s \in Registered /\ pc[s] # "linked"
      BY <2>3 DEF Names, Registered
    <3> QED
      BY <1>1, <1>2, <2>3, <3>1 DEF Names
  <2>4. CASE Links(s)
    <3>1. ~straddled[s] => acc[s] \in Listed /\ acc[s][1] = user[s]
      BY <2>4 DEF Links, LoginInv, LoginPcs
    <3>2. \A o \in Listed : o \in live \ old
      BY DEF ListInv
    <3> QED
      BY <1>2, <2>4, <3>1, <3>2 DEF Links
  <2>5. CASE Returns(s)
    BY <2>5 DEF Returns
  <2> QED
    BY <2>1, <2>2, <2>3, <2>4, <2>5, HandleForms
<1>5. \A t \in Sessions : P(t)'
  BY <1>3, <1>4
<1> QED
  BY <1>5 DEF LinkInv, Registered

LEMMA HandleUnlinked ==
  ASSUME TypeOK, PlaceInv, UnlinkedIsKilled, NEW s \in Sessions, Handle(s)
  PROVE  UnlinkedIsKilled'
<1> DEFINE P(t) ==
      t \in Registered \ unlinked /\ user[t] # None /\ account[t] = None
        /\ pc[t] # "linked" => kill[t]
<1>1. (\A t \in Sessions : P(t)) /\ unlinked' = unlinked
  BY HandleKeeps DEF UnlinkedIsKilled, reloadVars
<1>2. ASSUME NEW t \in Sessions, t # s
      PROVE  P(t)'
  BY <1>1, <1>2, HandleOthers
<1>3. P(s)'
  <2>1. CASE Quiet(s)
    BY <1>1, <2>1 DEF Quiet, PlaceInv
  <2>2. CASE Finds(s)
    <3>1. s \in Registered /\ pc[s] # "linked"
      BY <2>2 DEF Finds, Registered
    <3> QED
      BY <1>1, <2>2, <3>1 DEF Finds
  <2>3. CASE Names(s)
    BY <2>3 DEF Names
  <2>4. CASE Links(s)
    BY <2>4 DEF Links, PlaceInv, LoginPcs
  <2>5. CASE Returns(s)
    BY <2>5 DEF Returns
  <2> QED
    BY <2>1, <2>2, <2>3, <2>4, <2>5, HandleForms
<1>4. \A t \in Sessions : P(t)'
  BY <1>2, <1>3
<1> QED
  BY <1>4 DEF UnlinkedIsKilled, Registered

(* While the walk holds the lock, nobody registers or leaves.              *)
LEMMA HandleWalk ==
  ASSUME TypeOK, PlaceInv, WalkInv, NEW s \in Sessions, Handle(s)
  PROVE  WalkInv'
<1>1. UNCHANGED <<unvisited, unlinked, rpc>>
  BY HandleKeeps DEF reloadVars
<1>2. CASE LocksFree
  BY <1>1, <1>2 DEF WalkInv, LocksFree
<1>3. CASE ~LocksFree
  <2>1. \A t \in Sessions \ {s} : t \in Registered => t \in Registered'
    BY HandleOthers
  <2>2. pc \in [Sessions -> Pcs]
    BY DEF TypeOK
  <2>3. ~Connect(s) /\ ~Unregister(s) /\ ~(\E u \in Users : Find(s, u))
    BY <1>3 DEF Connect, Unregister, Find
  <2>4. s \in Registered => s \in Registered'
    BY <2>2, <2>3, HandleSplits
       DEF GiveUp, Checks, Admit, LinkUser, LinkAccount, LoopTop, LeavePc,
           Receive, EcmBegin, EcmEnd, Crash, Release, Goto, Registered
  <2> QED
    BY <1>1, <1>3, <2>1, <2>4 DEF WalkInv, LocksFree, Registered
<1> QED
  BY <1>2, <1>3

-----------------------------------------------------------------------------
(* The web pages keep them.                                                *)
LEMMA KillKeeps ==
  ASSUME TypeOK, PlaceInv, ListInv, LoginInv, LinkInv, UnlinkedIsKilled,
         WalkInv,
         UNCHANGED <<listed, gen, live, deleted, reloadVars, pc, acc, account,
                     user, straddled>>,
         \A s \in Sessions : kill[s] => kill'[s]
  PROVE  /\ PlaceInv' /\ ListInv' /\ LoginInv' /\ LinkInv'
         /\ UnlinkedIsKilled' /\ WalkInv'
<1>1. /\ UNCHANGED <<rpc, fresh, old, unvisited, unlinked>>
      /\ Listed' = Listed
  BY DEF reloadVars, Listed, Object
<1>2. Registered' = Registered /\ Registered \subseteq Sessions
  BY DEF Registered
<1>3. PlaceInv'
  BY DEF PlaceInv
<1>4. ListInv'
  BY <1>1 DEF ListInv
<1>5. LoginInv'
  BY <1>1 DEF LoginInv
<1>6. LinkInv'
  BY <1>1, <1>2 DEF LinkInv
<1>7. UnlinkedIsKilled'
  BY <1>1, <1>2 DEF UnlinkedIsKilled
<1>8. WalkInv'
  BY <1>1, <1>2 DEF WalkInv, LocksFree
<1> QED
  BY <1>3, <1>4, <1>5, <1>6, <1>7, <1>8

LEMMA AddKeeps ==
  ASSUME TypeOK, PlaceInv, ListInv, LoginInv, LinkInv, UnlinkedIsKilled,
         WalkInv, NEW u \in Users, Add(u)
  PROVE  /\ PlaceInv' /\ ListInv' /\ LoginInv' /\ LinkInv'
         /\ UnlinkedIsKilled' /\ WalkInv'
<1>1. /\ UNCHANGED <<rpc, fresh, old, pc, acc, account, user, kill, straddled,
                     deleted, unvisited, unlinked>>
      /\ gen' = gen + 1 /\ live' = live \cup {<<u, gen + 1>>}
  BY DEF Add, reloadVars, clientVars
<1>2. /\ gen \in Nat /\ gen + 1 \in Nat /\ gen + 1 # None
      /\ listed \in [Users -> Gens \cup {None}]
      /\ fresh \in [Users -> Gens \cup {None}] /\ old \subseteq Objects
  BY Constants DEF TypeOK, Gens
<1>3. listed[u] = None /\ listed' = [listed EXCEPT ![u] = gen + 1]
  BY DEF Add
<1>4. /\ listed'[u] = gen + 1
      /\ \A v \in Users : v # u => listed'[v] = listed[v]
  BY <1>2, <1>3
<1>5. /\ Object(u)' = <<u, gen + 1>> /\ Object(u) = None
      /\ \A v \in Users : v # u => Object(v)' = Object(v)
  BY <1>2, <1>3, <1>4 DEF Object
<1>6. /\ Listed \subseteq Listed'
      /\ \A o \in Listed' : o \in Listed \/ o = <<u, gen + 1>>
  BY <1>5 DEF Listed
<1>7. Registered' = Registered /\ Registered \subseteq Sessions
  BY <1>1 DEF Registered
<1>8. PlaceInv' /\ WalkInv' /\ UnlinkedIsKilled'
  BY <1>1, <1>7 DEF PlaceInv, WalkInv, LocksFree, UnlinkedIsKilled
<1>9. LoginInv'
  BY <1>1, <1>6 DEF LoginInv
<1>10. LinkInv'
  BY <1>1, <1>7 DEF LinkInv
<1>11. ListInv'
  <2>1. Listed' \subseteq live'
    BY <1>1, <1>6 DEF ListInv
  <2>2. \A v \in Users : listed[v] # None => listed[v] \in Nat
    BY <1>2, Constants DEF Gens
  <2>3. \A v \in Users : fresh[v] # None => fresh[v] \in Nat
    BY <1>2, Constants DEF Gens
  <2>4. \A v \in Users : listed'[v] # None => listed'[v] <= gen'
    BY <1>1, <1>2, <1>4, <2>2 DEF ListInv
  <2>5. ASSUME NEW o \in old
        PROVE  o[2] <= gen' /\ o \notin Listed'
    <3>1. o[2] \in Nat /\ o[2] <= gen /\ o \notin Listed
      BY <1>2 DEF ListInv, Objects, Gens
    <3>2. o # <<u, gen + 1>>
      BY <1>2, <3>1
    <3> QED
      BY <1>1, <1>2, <1>6, <3>1, <3>2
  <2>6. ASSUME rpc = "copy", NEW v \in Users, fresh[v] # None
        PROVE  /\ fresh[v] <= gen' /\ fresh[v] # listed'[v]
               /\ <<v, fresh[v]>> \in live'
    <3>1. /\ fresh[v] <= gen /\ fresh[v] # listed[v]
          /\ <<v, fresh[v]>> \in live
      BY <2>6 DEF ListInv
    <3>2. fresh[v] # gen + 1 /\ fresh[v] <= gen + 1
      BY <1>2, <2>3, <2>6, <3>1
    <3> QED
      BY <1>1, <1>4, <3>1, <3>2
  <2> QED
    BY <1>1, <2>1, <2>4, <2>5, <2>6 DEF ListInv
<1> QED
  BY <1>8, <1>9, <1>10, <1>11

LEMMA DeleteKeeps ==
  ASSUME TypeOK, PlaceInv, ListInv, LoginInv, LinkInv, UnlinkedIsKilled,
         WalkInv, NEW u \in Users, Delete(u)
  PROVE  /\ PlaceInv' /\ ListInv' /\ LoginInv' /\ LinkInv'
         /\ UnlinkedIsKilled' /\ WalkInv'
<1>1. /\ UNCHANGED <<gen, rpc, fresh, old, pc, acc, account, user, kill,
                     unvisited, unlinked>>
      /\ live' = live \ {Object(u)} /\ deleted' = deleted \cup {Object(u)}
  BY DEF Delete, reloadVars
<1>2. /\ listed \in [Users -> Gens \cup {None}]
      /\ listed' = [listed EXCEPT ![u] = None] /\ listed[u] # None
  BY DEF Delete, TypeOK
<1>3. \A s \in Sessions :
        straddled'[s] <=>
          straddled[s] \/ (pc[s] \in LoginPcs /\ acc[s] = Object(u))
  BY DEF Delete
<1>4. /\ listed'[u] = None
      /\ \A v \in Users : v # u => listed'[v] = listed[v]
  BY <1>2
<1>5. /\ Object(u)' = None
      /\ \A v \in Users : v # u => Object(v)' = Object(v)
  BY <1>4 DEF Object
<1>6. \A v \in Users : v # u /\ Object(v) # None => Object(v) # Object(u)
  BY <1>2 DEF Object
<1>7. Listed' = Listed \ {Object(u)}
  BY <1>5, <1>6 DEF Listed
<1>8. Registered' = Registered /\ Registered \subseteq Sessions
  BY <1>1 DEF Registered
<1>9. PlaceInv'
  BY <1>1, <1>3 DEF PlaceInv, LoginPcs
<1>10. WalkInv' /\ UnlinkedIsKilled'
  BY <1>1, <1>8 DEF WalkInv, LocksFree, UnlinkedIsKilled
<1>11. LoginInv'
  BY <1>1, <1>3, <1>7 DEF LoginInv
<1>12. LinkInv'
  BY <1>1, <1>3, <1>8 DEF LinkInv
<1>13. ListInv'
  <2>1. Object(u) = <<u, listed[u]>>
    BY <1>2 DEF Object
  <2>2. ASSUME rpc = "copy", NEW v \in Users, fresh[v] # None
        PROVE  fresh[v] # listed'[v] /\ <<v, fresh[v]>> \in live'
    <3>1. fresh[v] # listed[v] /\ <<v, fresh[v]>> \in live
      BY <2>2 DEF ListInv
    <3>2. <<v, fresh[v]>> # Object(u)
      BY <2>1, <3>1
    <3> QED
      BY <1>1, <1>4, <2>2, <3>1, <3>2
  <2>3. \A v \in Users : listed'[v] # None => listed'[v] <= gen
    BY <1>4 DEF ListInv
  <2>4. Listed' \subseteq live'
    BY <1>1, <1>7 DEF ListInv
  <2> QED
    BY <1>1, <1>7, <2>2, <2>3, <2>4 DEF ListInv
<1> QED
  BY <1>9, <1>10, <1>11, <1>12, <1>13

LEMMA WebKeeps ==
  ASSUME TypeOK, PlaceInv, ListInv, LoginInv, LinkInv, UnlinkedIsKilled,
         WalkInv, Web
  PROVE  /\ PlaceInv' /\ ListInv' /\ LoginInv' /\ LinkInv'
         /\ UnlinkedIsKilled' /\ WalkInv'
<1>1. kill \in [Sessions -> BOOLEAN]
  BY DEF TypeOK
<1>2. ASSUME NEW u \in Users, KillByUser(u)
      PROVE  \A s \in Sessions : kill[s] => kill'[s]
  BY <1>2 DEF KillByUser
<1>3. ASSUME NEW s \in Sessions, KillByTid(s)
      PROVE  \A t \in Sessions : kill[t] => kill'[t]
  BY <1>1, <1>3 DEF KillByTid
<1>4. ASSUME NEW u \in Users, NEW on \in BOOLEAN, SetEnabled(u, on)
      PROVE  \A t \in Sessions : kill[t] => kill'[t]
  BY <1>4 DEF SetEnabled, clientVars
<1>5. CASE \E u \in Users : KillByUser(u)
  BY <1>2, <1>5, KillKeeps DEF KillByUser, configVars
<1>6. CASE \E s \in Sessions : KillByTid(s)
  BY <1>3, <1>6, KillKeeps DEF KillByTid, configVars
<1>7. CASE \E u \in Users, on \in BOOLEAN : SetEnabled(u, on)
  BY <1>4, <1>7, KillKeeps DEF SetEnabled, clientVars
<1> QED
  BY <1>5, <1>6, <1>7, AddKeeps, DeleteKeeps DEF Web

-----------------------------------------------------------------------------
(* The reload keeps them.                                                  *)
LEMMA LoadKeeps ==
  ASSUME TypeOK, PlaceInv, ListInv, LoginInv, LinkInv, UnlinkedIsKilled,
         WalkInv, ReloadLoad
  PROVE  /\ PlaceInv' /\ ListInv' /\ LoginInv' /\ LinkInv'
         /\ UnlinkedIsKilled' /\ WalkInv'
<1>1. /\ UNCHANGED <<listed, deleted, old, pc, acc, account, user, kill,
                     straddled, unvisited, unlinked>>
      /\ rpc = "idle" /\ rpc' = "copy" /\ gen' = gen + 1
  BY DEF ReloadLoad, clientVars
<1>2. PICK names \in SUBSET Users :
        /\ fresh' = [u \in Users |-> IF u \in names THEN gen + 1 ELSE None]
        /\ live' = live \cup {<<u, gen + 1>> : u \in names}
  BY DEF ReloadLoad
<1>3. /\ gen \in Nat /\ listed \in [Users -> Gens \cup {None}]
      /\ old \subseteq Objects /\ None \notin Nat
  BY Constants DEF TypeOK, Gens
<1>4. Listed' = Listed /\ Registered' = Registered
  BY <1>1 DEF Listed, Object, Registered
<1>5. PlaceInv' /\ WalkInv' /\ UnlinkedIsKilled'
  BY <1>1, <1>4 DEF PlaceInv, WalkInv, LocksFree, UnlinkedIsKilled
<1>6. LoginInv'
  BY <1>1, <1>4 DEF LoginInv
<1>7. LinkInv'
  BY <1>1, <1>2, <1>4 DEF LinkInv
<1>8. ListInv'
  <2>1. \A u \in Users : listed[u] # None => listed[u] \in Nat
    BY <1>3 DEF Gens
  <2>2. \A u \in Users : listed[u] # None =>
          listed[u] <= gen + 1 /\ listed[u] # gen + 1
    BY <1>3, <2>1 DEF ListInv
  <2>3. old = {}
    BY <1>1 DEF ListInv
  <2>4. ASSUME NEW u \in Users, fresh'[u] # None
        PROVE  /\ fresh'[u] <= gen' /\ fresh'[u] # listed[u]
               /\ <<u, fresh'[u]>> \in live'
    <3>1. u \in names /\ fresh'[u] = gen + 1
      BY <1>2, <2>4
    <3>2. gen + 1 <= gen' /\ listed[u] # gen + 1
      BY <1>1, <1>3, <2>2
    <3>3. <<u, gen + 1>> \in live'
      BY <1>2, <3>1
    <3> QED
      BY <3>1, <3>2, <3>3
  <2>5. Listed' \subseteq live'
    BY <1>2, <1>4 DEF ListInv
  <2>6. \A u \in Users : listed'[u] # None => listed'[u] <= gen'
    BY <1>1, <2>2
  <2> QED
    BY <1>1, <2>3, <2>4, <2>5, <2>6 DEF ListInv
<1> QED
  BY <1>5, <1>6, <1>7, <1>8

LEMMA SwapKeeps ==
  ASSUME TypeOK, PlaceInv, ListInv, LoginInv, LinkInv, UnlinkedIsKilled,
         WalkInv, ReloadSwap
  PROVE  /\ PlaceInv' /\ ListInv' /\ LoginInv' /\ LinkInv'
         /\ UnlinkedIsKilled' /\ WalkInv'
<1>1. /\ UNCHANGED <<gen, live, deleted, fresh, unlinked>>
      /\ UNCHANGED <<pc, acc, account, user, kill>>
      /\ rpc = "copy" /\ rpc' = "relink" /\ old' = Listed /\ listed' = fresh
      /\ unvisited' = Registered
  BY DEF ReloadSwap
<1>2. /\ listed \in [Users -> Gens \cup {None}]
      /\ fresh \in [Users -> Gens \cup {None}]
  BY DEF TypeOK
<1>3. \A s \in Sessions :
        straddled'[s] <=> straddled[s] \/ pc[s] \in LoginPcs
  BY DEF ReloadSwap
<1>4. Registered' = Registered /\ Registered \subseteq Sessions
  BY <1>1 DEF Registered
<1>5. PlaceInv' /\ UnlinkedIsKilled'
  BY <1>1, <1>3, <1>4 DEF PlaceInv, UnlinkedIsKilled, LoginPcs
<1>6. WalkInv'
  BY <1>1, <1>4 DEF WalkInv, LocksFree
<1>7. Listed' \subseteq
         {<<u, fresh[u]>> : u \in {v \in Users : fresh[v] # None}}
  BY <1>1 DEF Listed, Object
<1>8. Listed' \cap Listed = {}
  <2>1. \A o \in Listed : o[2] = listed[o[1]]
    BY <1>2, ListedFacts
  <2>2. \A u \in Users : fresh[u] # None => <<u, fresh[u]>> \notin Listed
    BY <1>1, <2>1 DEF ListInv
  <2> QED
    BY <1>7, <2>2
<1>9. ListInv'
  <2>1. Listed' \subseteq live'
    BY <1>1, <1>7 DEF ListInv
  <2>2. \A u \in Users : listed'[u] # None => listed'[u] <= gen'
    BY <1>1 DEF ListInv
  <2>3. \A o \in old' : o[2] <= gen'
    <3>1. \A o \in Listed : o[1] \in Users /\ o[2] = listed[o[1]]
                              /\ o[2] \in Gens
      BY <1>2, ListedFacts DEF Objects
    <3>2. \A o \in Listed : listed[o[1]] # None
      BY <3>1, Constants DEF Gens
    <3> QED
      BY <1>1, <3>1, <3>2 DEF ListInv
  <2> QED
    BY <1>1, <1>8, <2>1, <2>2, <2>3 DEF ListInv
<1>10. LoginInv'
  BY <1>1, <1>3 DEF LoginInv, LoginPcs
<1>11. LinkInv'
  BY <1>1, <1>3, <1>4 DEF LinkInv
<1> QED
  BY <1>5, <1>6, <1>9, <1>10, <1>11

LEMMA RelinkKeeps ==
  ASSUME TypeOK, PlaceInv, ListInv, LoginInv, LinkInv, UnlinkedIsKilled,
         WalkInv, NEW s \in Sessions, Relink(s)
  PROVE  /\ PlaceInv' /\ ListInv' /\ LoginInv' /\ LinkInv'
         /\ UnlinkedIsKilled' /\ WalkInv'
<1>1. /\ UNCHANGED <<listed, gen, live, deleted, rpc, fresh, old>>
      /\ UNCHANGED <<pc, acc, user, kill, straddled>>
      /\ unvisited' = unvisited \ {s} /\ unlinked = {}
      /\ s \in unvisited /\ rpc = "relink"
  BY DEF Relink, configVars
<1>2. Listed' = Listed /\ Registered' = Registered
  BY <1>1 DEF Listed, Object, Registered
<1>3. s \in Registered /\ Registered \subseteq Sessions /\ pc[s] # "idle"
  BY <1>1 DEF WalkInv, Registered
<1>4. \A t \in Sessions : t # s => account'[t] = account[t]
  BY DEF Relink, TypeOK
<1>5. CASE HasName(s)
  <2>1. /\ account'[s] = Object(user[s])
        /\ unlinked' = IF Object(user[s]) = None THEN {s} ELSE {}
    BY <1>5 DEF Relink, Kills, TypeOK
  <2>2. user[s] \in Users
    BY <1>5 DEF HasName, TypeOK
  <2>3. account'[s] # None =>
          account'[s] \in Listed /\ account'[s][1] = user[s]
    <3>1. listed[user[s]] # None =>
            /\ Object(user[s]) = <<user[s], listed[user[s]]>>
            /\ Object(user[s]) \in Listed
      BY <2>2, ListedFacts DEF TypeOK
    <3> QED
      BY <2>1, <3>1 DEF Object
  <2>4. PlaceInv' /\ ListInv' /\ LoginInv'
    BY <1>1, <1>2, <1>3, <1>4 DEF PlaceInv, ListInv, LoginInv
  <2>5. \A o \in Listed : o \in live /\ o \notin old
    BY DEF ListInv
  <2>6. LinkInv'
    BY <1>1, <1>2, <1>3, <1>4, <2>3, <2>5 DEF LinkInv
  <2>7. UnlinkedIsKilled'
    BY <1>1, <1>2, <1>3, <1>4, <2>1 DEF UnlinkedIsKilled
  <2>8. WalkInv'
    BY <1>1, <1>2, <1>3, <2>1 DEF WalkInv, LocksFree
  <2> QED
    BY <2>4, <2>6, <2>7, <2>8
<1>6. CASE ~HasName(s)
  <2>1. UNCHANGED <<account, unlinked>> /\ user[s] = None
    BY <1>6 DEF Relink, HasName
  <2>2. PlaceInv' /\ ListInv' /\ LoginInv' /\ UnlinkedIsKilled'
    BY <1>1, <1>2, <2>1 DEF PlaceInv, ListInv, LoginInv, UnlinkedIsKilled
  <2>3. ~straddled[s] => account[s] = None
    <3>1. \A o \in Listed : o[1] # None
      BY ListedFacts, Constants DEF TypeOK, Objects
    <3>2. ~straddled[s] => pc[s] # "linked"
      BY <2>1, <3>1 DEF LoginInv, LoginPcs
    <3> QED
      BY <1>3, <2>1, <3>2, Constants DEF LinkInv, TypeOK, Pointers, Objects
  <2>4. LinkInv'
    BY <1>1, <1>2, <2>1, <2>3 DEF LinkInv
  <2>5. WalkInv'
    BY <1>1, <1>2, <2>1 DEF WalkInv, LocksFree
  <2> QED
    BY <2>2, <2>4, <2>5
<1> QED
  BY <1>5, <1>6

LEMMA RelinkKillKeeps ==
  ASSUME TypeOK, PlaceInv, ListInv, LoginInv, LinkInv, UnlinkedIsKilled,
         WalkInv, NEW s \in Sessions, RelinkKill(s)
  PROVE  /\ PlaceInv' /\ ListInv' /\ LoginInv' /\ LinkInv'
         /\ UnlinkedIsKilled' /\ WalkInv'
<1>1. /\ UNCHANGED <<listed, gen, live, deleted, rpc, fresh, old, unvisited>>
      /\ UNCHANGED <<pc, acc, account, user, straddled>>
      /\ unlinked' = {}
  BY DEF RelinkKill, configVars
<1>2. Listed' = Listed /\ Registered' = Registered
  BY <1>1 DEF Listed, Object, Registered
<1>3. PlaceInv' /\ ListInv' /\ LoginInv' /\ LinkInv'
  BY <1>1, <1>2 DEF PlaceInv, ListInv, LoginInv, LinkInv
<1>4. WalkInv'
  BY <1>1, <1>2 DEF WalkInv, LocksFree
<1>5. UnlinkedIsKilled'
  <2>1. kill'[s] /\ \A t \in Sessions : kill[t] => kill'[t]
    BY DEF RelinkKill, TypeOK
  <2>2. unlinked \subseteq {s}
    BY DEF RelinkKill, WalkInv
  <2> QED
    BY <1>1, <1>2, <2>1, <2>2 DEF UnlinkedIsKilled, Registered
<1> QED
  BY <1>3, <1>4, <1>5

LEMMA FreeKeeps ==
  ASSUME TypeOK, PlaceInv, ListInv, LoginInv, LinkInv, UnlinkedIsKilled,
         WalkInv, ReloadFree
  PROVE  /\ PlaceInv' /\ ListInv' /\ LoginInv' /\ LinkInv'
         /\ UnlinkedIsKilled' /\ WalkInv'
<1>1. /\ UNCHANGED <<listed, gen, deleted, pc, acc, account, user, kill,
                     straddled, unvisited, unlinked>>
      /\ rpc = "free" /\ rpc' = "idle" /\ live' = live \ old /\ old' = {}
  BY DEF ReloadFree, clientVars
<1>2. Listed' = Listed /\ Registered' = Registered
  BY <1>1 DEF Listed, Object, Registered
<1>3. PlaceInv' /\ WalkInv' /\ UnlinkedIsKilled'
  BY <1>1, <1>2 DEF PlaceInv, WalkInv, LocksFree, UnlinkedIsKilled
<1>4. LoginInv'
  BY <1>1, <1>2 DEF LoginInv
<1>5. LinkInv'
  BY <1>1, <1>2 DEF LinkInv, WalkInv, LocksFree
<1>6. ListInv'
  BY <1>1, <1>2 DEF ListInv
<1> QED
  BY <1>3, <1>4, <1>5, <1>6

LEMMA ReloadKeeps ==
  ASSUME TypeOK, PlaceInv, ListInv, LoginInv, LinkInv, UnlinkedIsKilled,
         WalkInv, Reload
  PROVE  /\ PlaceInv' /\ ListInv' /\ LoginInv' /\ LinkInv'
         /\ UnlinkedIsKilled' /\ WalkInv'
<1>1. ASSUME UNCHANGED <<listed, gen, live, deleted, fresh, old, pc>>,
             UNCHANGED <<acc, account, user, kill, straddled>>,
             UNCHANGED <<unvisited, unlinked>>,
             \/ UNCHANGED rpc
             \/ unvisited \cup unlinked = {} /\ rpc' = "free"
      PROVE  /\ PlaceInv' /\ ListInv' /\ LoginInv' /\ LinkInv'
             /\ UnlinkedIsKilled' /\ WalkInv'
  <2>1. Listed' = Listed /\ Registered' = Registered
    BY <1>1 DEF Listed, Object, Registered
  <2>2. PlaceInv' /\ WalkInv' /\ UnlinkedIsKilled'
    BY <1>1, <2>1 DEF PlaceInv, WalkInv, LocksFree, UnlinkedIsKilled
  <2>3. LoginInv' /\ LinkInv' /\ ListInv'
    BY <1>1, <2>1 DEF LoginInv, LinkInv, ListInv
  <2> QED
    BY <2>2, <2>3
<1>2. CASE \E u \in Users : ReloadCopy(u)
  BY <1>1, <1>2 DEF ReloadCopy, configVars, clientVars
<1>3. CASE RelinkDone
  BY <1>1, <1>3 DEF RelinkDone, configVars, clientVars
<1> QED
  BY <1>2, <1>3, LoadKeeps, SwapKeeps, RelinkKeeps, RelinkKillKeeps, FreeKeeps
     DEF Reload

-----------------------------------------------------------------------------
(* The inductive invariant.                                                *)
LinkIInv ==
  /\ TypeOK /\ PlaceInv /\ ListInv /\ LoginInv /\ LinkInv
  /\ UnlinkedIsKilled /\ WalkInv

LEMMA LinkInit ==
  ASSUME Init
  PROVE  LinkIInv
<1>1. 0 \in Gens /\ 0 # None /\ None \notin Users
  BY Constants DEF Gens
<1>2. PICK names \in SUBSET Users :
        /\ listed = [u \in Users |-> IF u \in names THEN 0 ELSE None]
        /\ live = {<<u, 0>> : u \in names}
  BY DEF Init
<1>3. TypeOK
  <2>1. /\ listed \in [Users -> Gens \cup {None}] /\ gen \in Gens
        /\ active \in [Objects -> Int] /\ enabled \in [Objects -> BOOLEAN]
        /\ live \subseteq Objects /\ deleted \subseteq Objects
        /\ toKill \subseteq Users
    BY <1>1, <1>2 DEF Init, Objects
  <2>2. /\ rpc \in {"idle", "copy", "relink", "free"}
        /\ fresh \in [Users -> Gens \cup {None}]
        /\ uncopied \subseteq Users /\ old \subseteq Objects
        /\ unvisited \subseteq Sessions /\ unlinked \subseteq Sessions
    BY DEF Init
  <2>3. /\ pc \in [Sessions -> Pcs] /\ acc \in [Sessions -> Pointers]
        /\ account \in [Sessions -> Pointers]
        /\ user \in [Sessions -> Users \cup {None}]
    BY DEF Init, Pcs, Pointers
  <2>4. /\ kill \in [Sessions -> BOOLEAN]
        /\ straddled \in [Sessions -> BOOLEAN] /\ crashed \in BOOLEAN
    BY DEF Init
  <2> QED
    BY <2>1, <2>2, <2>3, <2>4 DEF TypeOK
<1>4. PlaceInv
  BY DEF Init, PlaceInv, LoginPcs
<1>5. ListInv
  <2>1. listed \in [Users -> Gens \cup {None}]
    BY <1>3 DEF TypeOK
  <2>2. ASSUME NEW o \in Listed
        PROVE  o \in live
    <3>1. o \in Objects /\ listed[o[1]] = o[2]
      BY <2>1, <2>2, ListedFacts
    <3>2. o = <<o[1], o[2]>> /\ o[1] \in Users /\ o[2] \in Gens
      BY <3>1 DEF Objects
    <3>3. o[1] \in names /\ o[2] = 0
      BY <1>2, <3>1, <3>2, Constants DEF Gens
    <3> QED
      BY <1>2, <3>2, <3>3
  <2>3. \A u \in Users : listed[u] # None => listed[u] <= gen
    BY <1>2 DEF Init
  <2> QED
    BY <2>2, <2>3 DEF Init, ListInv
<1>6. LoginInv /\ LinkInv /\ UnlinkedIsKilled /\ WalkInv
  BY DEF Init, LoginInv, LinkInv, UnlinkedIsKilled, WalkInv, LocksFree,
         LoginPcs, Registered
<1> QED
  BY <1>3, <1>4, <1>5, <1>6 DEF LinkIInv

LEMMA LinkStep ==
  ASSUME LinkIInv, [Next]_vars
  PROVE  LinkIInv'
<1> USE DEF LinkIInv
<1>1. CASE UNCHANGED vars
  <2>1. /\ UNCHANGED <<listed, gen, live, deleted, rpc, fresh, old, pc>>
        /\ UNCHANGED <<acc, account, user, kill, straddled>>
        /\ UNCHANGED <<unvisited, unlinked>>
    BY <1>1 DEF vars, configVars, reloadVars, clientVars
  <2>2. Listed' = Listed /\ Registered' = Registered
    BY <2>1 DEF Listed, Object, Registered
  <2>3. PlaceInv' /\ WalkInv' /\ UnlinkedIsKilled'
    BY <2>1, <2>2 DEF PlaceInv, WalkInv, LocksFree, UnlinkedIsKilled
  <2>4. LoginInv' /\ LinkInv' /\ ListInv'
    BY <2>1, <2>2 DEF LoginInv, LinkInv, ListInv
  <2>5. TypeOK'
    BY TypeStep
  <2> QED
    BY <2>3, <2>4, <2>5
<1>2. ASSUME NEW s \in Sessions, Handle(s)
      PROVE  LinkIInv'
  BY <1>2, HandleTyped, HandlePlace, HandleList, HandleLogin, HandleLink,
     HandleUnlinked, HandleWalk
<1>3. CASE Web
  BY <1>3, WebTyped, WebKeeps
<1>4. CASE Reload
  BY <1>4, ReloadTyped, ReloadKeeps
<1> QED
  BY <1>1, <1>2, <1>3, <1>4 DEF Next

LEMMA LinkInvariant == Spec => []LinkIInv
<1>1. Init => LinkIInv
  BY LinkInit
<1>2. LinkIInv /\ [Next]_vars => LinkIInv'
  BY LinkStep
<1> QED
  BY <1>1, <1>2, PTL DEF Spec

-----------------------------------------------------------------------------
(* Accounts: places.  Without reload and deletion an account that is       *)
(* listed stays listed and no pointer dangles; accounts may be added.      *)
StaticInv ==
  /\ rpc = "idle" /\ unlinked = {}
  /\ Listed = live
  /\ \A o \in Objects \ live : active[o] = 0
  /\ \A s \in Sessions : {acc[s], account[s]} \subseteq live \cup {None}

(* A newcamd session that logs in only once has no account before it.      *)
OnceInv ==
  \A s \in Sessions \ Cccam :
    account[s] # None => pc[s] \in Serving \cup {"cleanup", "release"}

(* The pointer through which a session will give its place back.           *)
Holds(s) ==
  IF \/ pc[s] \in {"link", "linked"}
     \/ s \in Cccam /\ pc[s] \in Serving \cup {"release"}
  THEN acc[s]
  ELSE IF s \in Cccam THEN None ELSE account[s]

Holders(o) == {s \in Sessions : Holds(s) = o}

CountInv == \A o \in live : active[o] = Cardinality(Holders(o))

LimitInv ==
  \A o \in live :
    MaxConnections[o[1]] > 0 => active[o] <= MaxConnections[o[1]]

LEMMA HandlePlaces ==
  ASSUME TypeOK, PlaceInv, StaticInv, OnceInv,
         ReloginOn => Sessions \subseteq Cccam, NEW s \in Sessions, Handle(s)
  PROVE  /\ s \notin Cccam /\ account'[s] # None =>
              pc'[s] \in Serving \cup {"cleanup", "release"}
         /\ {acc'[s], account'[s]} \subseteq live \cup {None}
         /\ \/ Holds(s)' = Holds(s) /\ UNCHANGED active
            \/ \E o \in live :
                 /\ Holds(s) = None /\ Holds(s)' = o /\ ~Full(o)
                 /\ active' = [active EXCEPT ![o] = @ + 1]
            \/ \E o \in live :
                 /\ Holds(s) = o /\ Holds(s)' = None
                 /\ active' = [active EXCEPT ![o] = @ - 1]
<1> DEFINE Once == s \notin Cccam /\ account'[s] # None =>
                     pc'[s] \in Serving \cup {"cleanup", "release"}
           Static == {acc'[s], account'[s]} \subseteq live \cup {None}
           Same == Holds(s)' = Holds(s) /\ UNCHANGED active
           Taken == \E o \in live :
                      /\ Holds(s) = None /\ Holds(s)' = o /\ ~Full(o)
                      /\ active' = [active EXCEPT ![o] = @ + 1]
           Given == \E o \in live :
                      /\ Holds(s) = o /\ Holds(s)' = None
                      /\ active' = [active EXCEPT ![o] = @ - 1]
           G == Once /\ Static /\ (Same \/ Taken \/ Given)
<1> SUFFICES G
  OBVIOUS
<1>1. /\ acc \in [Sessions -> Pointers] /\ account \in [Sessions -> Pointers]
      /\ user \in [Sessions -> Users \cup {None}]
      /\ pc \in [Sessions -> Pcs]
  BY DEF TypeOK
<1>2. /\ {acc[s], account[s]} \subseteq live \cup {None}
      /\ None \notin live /\ live \subseteq Objects
  BY Constants DEF StaticInv, TypeOK
<1>3. s \notin Cccam /\ account[s] # None =>
        pc[s] \in Serving \cup {"cleanup", "release"}
  BY DEF OnceInv
<1>4. ASSUME UNCHANGED clientVars
      PROVE  acc'[s] = acc[s] /\ account'[s] = account[s]
  BY <1>4 DEF clientVars
<1>5. ASSUME NEW p, Goto(s, p)
      PROVE  pc'[s] = p
  BY <1>1, <1>5 DEF Goto
<1>6. CASE Connect(s) \/ GiveUp(s)
  <2>1. UNCHANGED <<active, clientVars>>
    BY <1>6 DEF Connect, GiveUp
  <2> QED
    BY <1>2, <1>3, <1>4, <1>5, <1>6, <2>1
       DEF Connect, GiveUp, Holds, Serving
<1>7. CASE Checks(s)
  BY <1>2, <1>3, <1>4, <1>5, <1>7 DEF Checks, Holds, Serving
<1>8. CASE LoopTop(s) \/ Receive(s) \/ EcmBegin(s)
  <2>1. UNCHANGED <<active, clientVars>>
    BY <1>8 DEF LoopTop, Receive, EcmBegin
  <2> QED
    BY <1>2, <1>3, <1>4, <1>5, <1>8, <2>1
       DEF LoopTop, Receive, EcmBegin, LeavePc, Holds, Serving
<1>9. CASE EcmEnd(s)
  <2>1. UNCHANGED <<active, clientVars>> /\ pc[s] = "ecm"
    BY <1>9 DEF EcmEnd, Crash
  <2>2. pc'[s] \in {"ecm", "loop"}
    BY <1>5, <1>9, <2>1 DEF EcmEnd, Crash
  <2> QED
    BY <1>2, <1>3, <1>4, <2>1, <2>2 DEF Holds, Serving
<1>10. ASSUME NEW u \in Users, Find(s, u)
       PROVE  G
  <2>1. /\ pc[s] = "wait" \/ (pc[s] = "recv" /\ s \notin Cccam /\ ReloginOn)
        /\ UNCHANGED <<active, account>>
    BY <1>10 DEF Find
  <2>2. pc[s] = "wait"
    BY <2>1
  <2>3. acc' = [acc EXCEPT ![s] = Object(u)]
    BY <1>10 DEF Find
  <2>4. pc'[s] = IF Object(u) = None THEN "cleanup" ELSE "checks"
    BY <1>5, <1>10 DEF Find
  <2>5. Object(u) \in live \cup {None}
    BY DEF Listed, StaticInv
  <2>6. acc'[s] = Object(u) /\ account'[s] = account[s]
    BY <1>1, <2>1, <2>3
  <2> QED
    BY <1>2, <1>3, <2>1, <2>2, <2>4, <2>5, <2>6 DEF Holds, Serving
<1>11. CASE Admit(s)
  <2>1. /\ pc[s] = "admit" /\ acc'[s] = acc[s] /\ account'[s] = account[s]
        /\ s \notin Cccam => account[s] = None
    BY <1>3, <1>4, <1>11 DEF Admit, Serving
  <2>2. acc[s] \in live
    BY <1>2, <2>1 DEF PlaceInv, LoginPcs
  <2>3. Holds(s) = None
    BY <2>1 DEF Holds, Serving
  <2>4. CASE Goto(s, "cleanup") /\ UNCHANGED active
    BY <1>2, <1>5, <2>1, <2>3, <2>4 DEF Holds, Serving
  <2>5. CASE ~Full(acc[s]) /\ Goto(s, "link") /\ AddTo(acc[s], 1)
    <3>1. Holds(s)' = acc[s]
      BY <1>5, <2>1, <2>5 DEF Holds
    <3>2. active' = [active EXCEPT ![acc[s]] = @ + 1]
      BY <2>2, <2>5 DEF AddTo
    <3> QED
      BY <1>2, <2>1, <2>2, <2>3, <2>5, <3>1, <3>2
  <2> QED
    BY <1>11, <2>2, <2>4, <2>5 DEF Admit
<1>12. CASE LinkUser(s) \/ LinkAccount(s)
  <2>1. /\ acc'[s] = acc[s] /\ account'[s] \in {acc[s], account[s]}
        /\ pc[s] \in {"link", "linked"} /\ UNCHANGED active
    BY <1>1, <1>12 DEF LinkUser, LinkAccount
  <2>2. \/ pc'[s] = "linked" /\ account'[s] = account[s]
        \/ pc'[s] = "loop" /\ account'[s] = acc[s]
    BY <1>1, <1>5, <1>12 DEF LinkUser, LinkAccount
  <2> QED
    BY <1>2, <1>3, <2>1, <2>2 DEF Holds, Serving
<1>13. ASSUME Return(s)
       PROVE  pc'[s] = "idle" /\ acc'[s] = None /\ account'[s] = None
  BY <1>1, <1>5, <1>13 DEF Return
<1>14. CASE Unregister(s)
  BY <1>2, <1>3, <1>4, <1>5, <1>13, <1>14 DEF Unregister, Holds, Serving
<1>15. CASE Release(s)
  <2>1. pc[s] = "release" /\ Holds(s) = PlacePointer(s)
    BY <1>15 DEF Release, Holds, PlacePointer
  <2>2. Once /\ Static /\ Holds(s)' = None
    BY <1>2, <1>4, <1>5, <1>13, <1>15 DEF Release, Holds, Serving
  <2>3. CASE PlacePointer(s) = None
    BY <1>15, <2>1, <2>2, <2>3 DEF Release
  <2>4. CASE PlacePointer(s) # None
    <3>1. PlacePointer(s) \in live
      BY <1>2, <2>4 DEF PlacePointer
    <3>2. active' = [active EXCEPT ![PlacePointer(s)] = @ + (-1)]
      BY <1>15, <2>4, <3>1 DEF Release, AddTo
    <3>3. active \in [Objects -> Int] /\ PlacePointer(s) \in Objects
      BY <1>2, <3>1 DEF TypeOK
    <3>4. active' = [active EXCEPT ![PlacePointer(s)] = @ - 1]
      BY <3>2, <3>3
    <3> QED
      BY <2>1, <2>2, <3>1, <3>4
  <2> QED
    BY <2>3, <2>4
<1> QED
  BY <1>6, <1>7, <1>8, <1>9, <1>10, <1>11, <1>12, <1>14, <1>15, HandleSplits

(* Counting the holders when one session changes.                          *)
LEMMA HoldersFinite ==
  ASSUME NEW o
  PROVE  IsFiniteSet(Holders(o)) /\ Cardinality(Holders(o)) \in Nat
<1>1. Holders(o) \subseteq Sessions
  BY DEF Holders
<1>2. IsFiniteSet(Holders(o))
  BY <1>1, Constants, FS_Subset
<1> QED
  BY <1>2, FS_CardinalityType

LEMMA HandleCounts ==
  ASSUME TypeOK, PlaceInv, StaticInv, OnceInv, CountInv, LimitInv,
         ReloginOn => Sessions \subseteq Cccam, NEW s \in Sessions, Handle(s)
  PROVE  /\ CountInv' /\ LimitInv'
         /\ \A o \in Objects \ live : active'[o] = active[o]
<1> DEFINE G == /\ CountInv' /\ LimitInv'
                /\ \A o \in Objects \ live : active'[o] = active[o]
<1>1. \A t \in Sessions \ {s} : Holds(t)' = Holds(t)
  BY HandleOthers DEF Holds
<1>2. /\ active \in [Objects -> Int] /\ None \notin live
      /\ live \subseteq Objects /\ live' = live
      /\ MaxConnections \in [Users -> Nat]
  BY HandleKeeps, Constants DEF TypeOK, configVars
<1>3. \A o \in live : active[o] \in Int /\ MaxConnections[o[1]] \in Nat
  BY <1>2 DEF Objects
<1>4. CASE Holds(s)' = Holds(s) /\ UNCHANGED active
  <2>1. \A o \in live : Holders(o)' = Holders(o)
    BY <1>1, <1>4 DEF Holders
  <2> QED
    BY <1>2, <1>4, <2>1 DEF CountInv, LimitInv
<1>5. ASSUME NEW o \in live, Holds(s) = None, Holds(s)' = o, ~Full(o),
             active' = [active EXCEPT ![o] = @ + 1]
      PROVE  G
  <2>1. /\ active'[o] = active[o] + 1
        /\ active'[o] = Cardinality(Holders(o)')
        /\ MaxConnections[o[1]] > 0 => active'[o] <= MaxConnections[o[1]]
    <3>1. Holders(o)' = Holders(o) \cup {s} /\ s \notin Holders(o)
      BY <1>1, <1>2, <1>5 DEF Holders
    <3>2. Cardinality(Holders(o)') = Cardinality(Holders(o)) + 1
      BY <3>1, HoldersFinite, FS_AddElement
    <3>3. active'[o] = active[o] + 1
      BY <1>2, <1>5
    <3>4. MaxConnections[o[1]] > 0 => active[o] + 1 <= MaxConnections[o[1]]
      <4>1. MaxConnections[o[1]] > 0 => ~(active[o] >= MaxConnections[o[1]])
        BY <1>5 DEF Full
      <4> QED
        BY <1>3, <4>1
    <3> QED
      BY <3>2, <3>3, <3>4 DEF CountInv
  <2>2. ASSUME NEW p \in Objects, p # o
        PROVE  active'[p] = active[p] /\ Holders(p)' = Holders(p)
    <3>1. None \notin Objects
      BY Constants
    <3> QED
      BY <1>1, <1>2, <1>5, <2>2, <3>1 DEF Holders
  <2> QED
    BY <1>2, <2>1, <2>2 DEF CountInv, LimitInv
<1>6. ASSUME NEW o \in live, Holds(s) = o, Holds(s)' = None,
             active' = [active EXCEPT ![o] = @ - 1]
      PROVE  G
  <2>1. /\ active'[o] = active[o] - 1
        /\ active'[o] = Cardinality(Holders(o)')
    <3>1. Holders(o)' = Holders(o) \ {s} /\ s \in Holders(o)
      BY <1>1, <1>2, <1>6 DEF Holders
    <3>2. Cardinality(Holders(o)') = Cardinality(Holders(o)) - 1
      BY <3>1, HoldersFinite, FS_RemoveElement
    <3>3. active'[o] = active[o] - 1
      BY <1>2, <1>6
    <3> QED
      BY <3>2, <3>3 DEF CountInv
  <2>2. ASSUME NEW p \in Objects, p # o
        PROVE  active'[p] = active[p] /\ Holders(p)' = Holders(p)
    <3>1. None \notin Objects
      BY Constants
    <3> QED
      BY <1>1, <1>2, <1>6, <2>2, <3>1 DEF Holders
  <2>3. MaxConnections[o[1]] > 0 => active'[o] <= MaxConnections[o[1]]
    BY <1>3, <2>1 DEF LimitInv
  <2> QED
    BY <1>2, <2>1, <2>2, <2>3 DEF CountInv, LimitInv
<1> HIDE DEF G
<1>7. G
  BY <1>4, <1>5, <1>6, HandlePlaces DEF G
<1> QED
  BY <1>7 DEF G

PlacesIInv ==
  TypeOK /\ PlaceInv /\ StaticInv /\ OnceInv /\ CountInv /\ LimitInv

LEMMA PlacesInit ==
  ASSUME Init
  PROVE  PlacesIInv
<1>1. TypeOK /\ PlaceInv /\ ListInv
  BY LinkInit DEF LinkIInv
<1>2. StaticInv /\ OnceInv
  <2>1. PICK names \in SUBSET Users :
          /\ listed = [u \in Users |-> IF u \in names THEN 0 ELSE None]
          /\ live = {<<u, 0>> : u \in names}
    BY DEF Init
  <2>2. \A u \in names : <<u, 0>> \in Listed
    <3>1. 0 # None
      BY Constants
    <3>2. \A u \in names : listed[u] # None /\ listed[u] = 0
      BY <2>1, <3>1
    <3>3. \A u \in names : Object(u) = <<u, 0>> /\ Object(u) \in Listed
      BY <1>1, <3>2, ListedFacts DEF TypeOK
    <3> QED
      BY <3>3
  <2> QED
    BY <1>1, <2>1, <2>2 DEF Init, StaticInv, OnceInv, ListInv
<1>3. ASSUME NEW o \in live
      PROVE  Holders(o) = {} /\ active[o] = 0
  <2>1. \A s \in Sessions : Holds(s) = None
    BY DEF Init, Holds, Serving
  <2>2. o \in Objects /\ o # None
    BY <1>1, Constants DEF TypeOK
  <2> QED
    BY <2>1, <2>2 DEF Init, Holders
<1>4. CountInv
  BY <1>3, FS_EmptySet DEF CountInv
<1>5. LimitInv
  BY <1>1, <1>3, Constants DEF LimitInv, TypeOK, Objects
<1> QED
  BY <1>1, <1>2, <1>4, <1>5 DEF PlacesIInv

(* A new account has no sessions.                                          *)
LEMMA AddPlaces ==
  ASSUME PlacesIInv, ListInv, NEW u \in Users, Add(u)
  PROVE  StaticInv' /\ OnceInv' /\ CountInv' /\ LimitInv'
<1> USE DEF PlacesIInv
<1> DEFINE new == <<u, gen + 1>>
<1>1. /\ UNCHANGED <<rpc, unlinked, pc, acc, account, active>>
      /\ live' = live \cup {new}
      /\ listed[u] = None /\ listed' = [listed EXCEPT ![u] = gen + 1]
  BY DEF Add, reloadVars, clientVars
<1>2. /\ gen \in Nat /\ gen + 1 \in Gens /\ new \in Objects
      /\ live \subseteq Objects /\ listed \in [Users -> Gens \cup {None}]
  BY Constants DEF Add, TypeOK, Gens, Objects
<1>3. new \notin live
  <2>1. \A o \in live : o[2] \in Nat /\ o[2] <= gen
    <3>1. \A o \in live : o \in Objects /\ listed[o[1]] = o[2]
      BY <1>2, ListedFacts DEF StaticInv
    <3> QED
      BY <3>1, Constants DEF Objects, Gens, ListInv
  <2> QED
    BY <1>2, <2>1
<1>4. /\ Object(u)' = new /\ Object(u) = None
      /\ \A v \in Users : v # u => Object(v)' = Object(v)
  BY <1>1, <1>2, Constants DEF Object, Gens
<1>5. Listed' = live'
  <2>1. new # None
    BY <1>2, Constants
  <2>2. Listed' = Listed \cup {new}
    BY <1>4, <2>1 DEF Listed
  <2> QED
    BY <1>1, <2>2 DEF StaticInv
<1>6. \A s \in Sessions : {acc[s], account[s]} \subseteq live \cup {None}
  BY DEF StaticInv
<1> HIDE DEF new
<1>7. StaticInv'
  BY <1>1, <1>5, <1>6 DEF StaticInv
<1>8. OnceInv'
  BY <1>1 DEF OnceInv
<1>9. \A o \in Objects : Holders(o)' = Holders(o)
  BY <1>1 DEF Holders, Holds
<1>10. Holders(new) = {} /\ active[new] = 0
  <2>1. \A s \in Sessions : Holds(s) \in live \cup {None}
    BY <1>6 DEF Holds
  <2>2. new # None
    BY <1>2, Constants
  <2> QED
    BY <1>2, <1>3, <2>1, <2>2 DEF Holders, StaticInv
<1>11. CountInv'
  BY <1>1, <1>2, <1>9, <1>10, FS_EmptySet DEF CountInv
<1>12. LimitInv'
  BY <1>1, <1>2, <1>10, Constants DEF LimitInv, Objects
<1> QED
  BY <1>7, <1>8, <1>11, <1>12

LEMMA PlacesStep ==
  ASSUME ~ReloadOn, ~DeleteOn, ReloginOn => Sessions \subseteq Cccam,
         PlacesIInv, ListInv, [Next]_vars
  PROVE  PlacesIInv'
<1> USE DEF PlacesIInv
<1>1. ASSUME UNCHANGED <<listed, live, rpc, pc, acc, account, user, straddled>>,
             UNCHANGED <<active, unlinked>>
      PROVE  PlacesIInv'
  <2>1. TypeOK'
    BY TypeStep
  <2>2. Listed' = Listed
    BY <1>1 DEF Listed, Object
  <2>3. PlaceInv' /\ StaticInv' /\ OnceInv'
    BY <1>1, <2>2 DEF PlaceInv, StaticInv, OnceInv
  <2>4. \A o \in live : Holders(o)' = Holders(o)
    BY <1>1 DEF Holders, Holds
  <2>5. CountInv' /\ LimitInv'
    BY <1>1, <2>4 DEF CountInv, LimitInv
  <2> QED
    BY <2>1, <2>3, <2>5
<1>2. CASE UNCHANGED vars
  BY <1>1, <1>2 DEF vars, configVars, reloadVars, clientVars
<1>3. ASSUME NEW s \in Sessions, Handle(s)
      PROVE  PlacesIInv'
  <2>1. TypeOK' /\ PlaceInv' /\ CountInv' /\ LimitInv'
    BY <1>3, HandleTyped, HandlePlace, HandleCounts
  <2>2. UNCHANGED <<live, rpc, unlinked>> /\ Listed' = Listed
    BY <1>3, HandleKeeps, HandleList DEF configVars, reloadVars
  <2>3. StaticInv'
    <3>1. \A t \in Sessions : {acc'[t], account'[t]} \subseteq live \cup {None}
      BY <1>3, HandlePlaces, HandleOthers DEF StaticInv
    <3>2. \A o \in Objects \ live : active'[o] = 0
      BY <1>3, HandleCounts DEF StaticInv
    <3> QED
      BY <2>2, <3>1, <3>2 DEF StaticInv
  <2>4. OnceInv'
    <3>1. \A t \in Sessions \ Cccam :
            account'[t] # None => pc'[t] \in Serving \cup {"cleanup", "release"}
      BY <1>3, HandlePlaces, HandleOthers DEF OnceInv
    <3> QED
      BY <3>1 DEF OnceInv
  <2> QED
    BY <2>1, <2>3, <2>4
<1>4. CASE Web
  <2>1. \A u \in Users : ~Delete(u)
    BY DEF Delete
  <2>2. ASSUME NEW u \in Users, KillByUser(u)
        PROVE  PlacesIInv'
    BY <1>1, <2>2 DEF KillByUser, configVars, reloadVars
  <2>3. ASSUME NEW u \in Users, NEW on \in BOOLEAN, SetEnabled(u, on)
        PROVE  PlacesIInv'
    BY <1>1, <2>3 DEF SetEnabled, reloadVars, clientVars
  <2>4. ASSUME NEW s \in Sessions, KillByTid(s)
        PROVE  PlacesIInv'
    BY <1>1, <2>4 DEF KillByTid, configVars, reloadVars
  <2>5. ASSUME NEW u \in Users, Add(u)
        PROVE  PlacesIInv'
    <3>1. TypeOK'
      BY TypeStep
    <3>2. PlaceInv'
      BY <2>5 DEF Add, PlaceInv, clientVars
    <3> QED
      BY <2>5, <3>1, <3>2, AddPlaces
  <2> QED
    BY <1>4, <2>1, <2>2, <2>3, <2>4, <2>5 DEF Web
<1>5. ~Reload
  BY DEF Reload, ReloadLoad, ReloadCopy, ReloadSwap, Relink, RelinkKill,
         RelinkDone, ReloadFree, StaticInv, PlacesIInv
<1> QED
  BY <1>2, <1>3, <1>4, <1>5 DEF Next

(* Who holds a place is who is logged in.                                  *)
LEMMA HoldersLoggedIn ==
  ASSUME PlacesIInv, NEW u \in Users
  PROVE  /\ listed[u] # None => /\ LoggedIn(u) = Holders(Object(u))
                                /\ Object(u) \in live /\ Object(u)[1] = u
         /\ listed[u] = None => LoggedIn(u) = {}
<1>1. /\ live \subseteq Objects /\ Listed = live
      /\ listed \in [Users -> Gens \cup {None}]
      /\ None \notin live /\ None \notin Gens
  BY Constants DEF PlacesIInv, StaticInv, TypeOK, Gens
<1>2. listed[u] # None =>
        Object(u) = <<u, listed[u]>> /\ Object(u) \in live /\ Object(u) # None
  BY <1>1, ListedFacts
<1>3. listed[u] = None => Object(u) = None
  BY DEF Object
<1>4. ASSUME NEW p \in live \cup {None}
      PROVE  (p # None /\ p[1] = u) <=> (listed[u] # None /\ p = Object(u))
  <2>1. CASE p \in live
    <3>1. p \in Objects /\ listed[p[1]] = p[2]
      BY <1>1, <2>1, ListedFacts
    <3>2. p = <<p[1], p[2]>> /\ p[2] # None
      BY <1>1, <3>1 DEF Objects
    <3> QED
      BY <1>1, <1>2, <2>1, <3>1, <3>2
  <2>2. CASE p = None
    BY <1>2, <2>2
  <2> QED
    BY <2>1, <2>2
<1>5. ASSUME NEW s \in Sessions
      PROVE  s \in LoggedIn(u) <=>
               (listed[u] # None /\ s \in Holders(Object(u)))
  <2>1. /\ (acc[s] # None /\ acc[s][1] = u)
             <=> (listed[u] # None /\ acc[s] = Object(u))
        /\ (account[s] # None /\ account[s][1] = u)
             <=> (listed[u] # None /\ account[s] = Object(u))
    BY <1>4 DEF PlacesIInv, StaticInv
  <2>2. s \notin Cccam /\ account[s] # None =>
          pc[s] \in Serving \cup {"cleanup", "release"}
    BY DEF PlacesIInv, OnceInv
  <2>3. CASE s \in Cccam
    BY <1>2, <2>1, <2>3 DEF LoggedIn, Holders, Holds, Serving
  <2>4. CASE s \notin Cccam
    BY <1>2, <2>1, <2>2, <2>4 DEF LoggedIn, Holders, Holds, Serving
  <2> QED
    BY <2>3, <2>4
<1>6. LoggedIn(u) \subseteq Sessions /\ Holders(Object(u)) \subseteq Sessions
  BY DEF LoggedIn, Holders
<1>7. listed[u] # None => LoggedIn(u) = Holders(Object(u))
  BY <1>5, <1>6
<1>8. listed[u] = None => LoggedIn(u) = {}
  BY <1>5, <1>6
<1> QED
  BY <1>2, <1>7, <1>8

-----------------------------------------------------------------------------
(* What follows for Accounts.                                              *)

(* Type correctness, for any users, sessions and limits and whatever may   *)
(* be reloaded, deleted or sent again.                                     *)
THEOREM TypeCorrect == Spec => []TypeOK
<1>1. LinkIInv => TypeOK
  BY DEF LinkIInv
<1> QED
  BY <1>1, LinkInvariant, PTL

(* However reloads, deletions and logins of any number of clients          *)
(* interleave, the account a registered client points at is not freed by a *)
(* reload (the walk of cfg_reload), and it is its user's.                  *)
THEOREM LinksCorrect == Spec => []RegisteredLinksLive
<1>1. LinkIInv => RegisteredLinksLive
  BY DEF LinkIInv, LinkInv, RegisteredLinksLive
<1> QED
  BY <1>1, LinkInvariant, PTL

(* A registered client whose account a reload took away has its kill_flag  *)
(* set, but for the one between the two stores of the walk, for any number *)
(* of sessions, logins and reloads.                                        *)
THEOREM UnlinkedCorrect == Spec => []UnlinkedIsKilled
<1>1. LinkIInv => UnlinkedIsKilled
  BY DEF LinkIInv
<1> QED
  BY <1>1, LinkInvariant, PTL

(* The step that reads the statistics through NULL in cc_handle_ecm and    *)
(* its newcamd counterpart.                                                *)
LEMMA CrashSteps ==
  ASSUME [Next]_vars, crashed' # crashed
  PROVE  \E s \in Sessions : pc[s] = "ecm" /\ account[s] = None
<1>1. ASSUME NEW s \in Sessions, Handle(s)
      PROVE  pc[s] = "ecm" /\ account[s] = None
  <2>1. EcmEnd(s)
    BY <1>1, HandleSplits
       DEF Connect, GiveUp, Find, Checks, Admit, LinkUser, LinkAccount,
           LoopTop, Receive, EcmBegin, Unregister, Release
  <2> QED
    BY <2>1 DEF EcmEnd
<1>2. ~Web
  BY DEF Web, KillByUser, Add, Delete, SetEnabled, KillByTid
<1>3. ~Reload
  BY DEF Reload, ReloadLoad, ReloadCopy, ReloadSwap, Relink, RelinkKill,
         RelinkDone, ReloadFree
<1> QED
  BY <1>1, <1>2, <1>3 DEF Next, vars

(* No user disappears: what a session has looked up, and the name it has,  *)
(* stay listed, and a list being built has all who are listed.             *)
KeptInv ==
  IF ReloadOn
  THEN /\ \A s \in Sessions :
            /\ acc[s] # None => listed[acc[s][1]] # None
            /\ user[s] # None => listed[user[s]] # None
       /\ rpc = "copy" => \A u \in Users : listed[u] # None => fresh[u] # None
  ELSE rpc = "idle"

LinkedInv ==
  ~crashed /\ \A s \in Sessions : pc[s] \in Serving => account[s] # None

LEMMA KeptHandle ==
  ASSUME TypeOK, PlaceInv, KeptInv, LinkedInv, NEW s \in Sessions, Handle(s)
  PROVE  /\ KeptInv'
         /\ \A t \in Sessions : pc'[t] \in Serving => account'[t] # None
<1>1. UNCHANGED <<listed, rpc, fresh>>
  BY HandleKeeps DEF configVars, reloadVars
<1>2. ASSUME ReloadOn, NEW t \in Sessions
      PROVE  /\ acc'[t] # None => listed[acc'[t][1]] # None
             /\ user'[t] # None => listed[user'[t]] # None
  <2>1. /\ acc[t] # None => listed[acc[t][1]] # None
        /\ user[t] # None => listed[user[t]] # None
    BY <1>2 DEF KeptInv
  <2>2. CASE t # s
    BY <2>1, <2>2, HandleOthers
  <2>3. CASE t = s /\ Finds(s)
    <3>1. \A o \in Listed : listed[o[1]] # None
      <4>1. \A o \in Listed : o \in Objects /\ listed[o[1]] = o[2]
        BY ListedFacts DEF TypeOK
      <4> QED
        BY <4>1, Constants DEF Objects, Gens
    <3> QED
      BY <2>1, <2>3, <3>1 DEF Finds
  <2>4. CASE t = s /\ Names(s)
    BY <2>1, <2>4 DEF Names, PlaceInv, LoginPcs
  <2>5. CASE t = s /\ (Quiet(s) \/ Links(s) \/ Returns(s))
    BY <2>1, <2>5 DEF Quiet, Links, Returns
  <2> QED
    BY <2>2, <2>3, <2>4, <2>5, HandleForms
<1>3. KeptInv'
  BY <1>1, <1>2 DEF KeptInv
<1>4. \A t \in Sessions \ {s} : pc'[t] \in Serving => account'[t] # None
  BY HandleOthers DEF LinkedInv
<1>5. pc'[s] \in Serving => account'[s] # None
  BY HandleForms
     DEF Quiet, Finds, Names, Links, Returns, LinkedInv, PlaceInv,
         LoginPcs, Serving
<1> QED
  BY <1>3, <1>4, <1>5

LEMMA LinkedStep ==
  ASSUME ReloadOn => ~RemoveOn /\ ~DeleteOn /\ ~AddOn,
         TypeOK, PlaceInv, KeptInv, LinkedInv, [Next]_vars
  PROVE  KeptInv' /\ LinkedInv'
<1>1. ~crashed'
  BY CrashSteps DEF LinkedInv, Serving
<1>2. ASSUME UNCHANGED <<pc, account, rpc>>,
             ReloadOn => UNCHANGED <<listed, fresh, acc, user>>
      PROVE  KeptInv' /\ LinkedInv'
  BY <1>1, <1>2 DEF KeptInv, LinkedInv
<1>3. CASE UNCHANGED vars
  BY <1>2, <1>3 DEF vars, configVars, reloadVars, clientVars
<1>4. ASSUME NEW s \in Sessions, Handle(s)
      PROVE  KeptInv' /\ LinkedInv'
  BY <1>1, <1>4, KeptHandle DEF LinkedInv
<1>5. CASE Web
  <2>1. ASSUME NEW u \in Users, KillByUser(u)
        PROVE  KeptInv' /\ LinkedInv'
    BY <1>2, <2>1 DEF KillByUser, configVars, reloadVars
  <2>2. ASSUME NEW u \in Users, Add(u) \/ Delete(u)
        PROVE  KeptInv' /\ LinkedInv'
    BY <1>2, <2>2 DEF Add, Delete, reloadVars, clientVars
  <2>3. ASSUME NEW u \in Users, NEW on \in BOOLEAN, SetEnabled(u, on)
        PROVE  KeptInv' /\ LinkedInv'
    BY <1>2, <2>3 DEF SetEnabled, reloadVars, clientVars
  <2>4. ASSUME NEW s \in Sessions, KillByTid(s)
        PROVE  KeptInv' /\ LinkedInv'
    BY <1>2, <2>4 DEF KillByTid, configVars, reloadVars
  <2> QED
    BY <1>5, <2>1, <2>2, <2>3, <2>4 DEF Web
<1>6. CASE ReloadLoad
  <2>1. /\ ReloadOn /\ rpc' = "copy"
        /\ UNCHANGED <<listed, pc, account, acc, user>>
    BY <1>6 DEF ReloadLoad, clientVars
  <2>2. PICK names \in SUBSET Users :
          /\ \A u \in Users : listed[u] # None => u \in names
          /\ fresh' = [u \in Users |-> IF u \in names THEN gen + 1 ELSE None]
    BY <1>6, <2>1 DEF ReloadLoad
  <2>3. gen + 1 # None
    BY Constants DEF TypeOK, Gens
  <2>4. \A u \in Users : listed[u] # None => fresh'[u] # None
    BY <2>2, <2>3
  <2> QED
    BY <1>1, <2>1, <2>4 DEF KeptInv, LinkedInv
<1>7. CASE \E u \in Users : ReloadCopy(u)
  BY <1>2, <1>7 DEF ReloadCopy, configVars, clientVars
<1>8. CASE ReloadSwap
  <2>1. /\ ReloadOn /\ rpc' = "relink" /\ listed' = fresh
        /\ UNCHANGED <<pc, account, acc, user>>
        /\ \A u \in Users : listed[u] # None => fresh[u] # None
    BY <1>8 DEF ReloadSwap, KeptInv
  <2>2. /\ acc \in [Sessions -> Pointers]
        /\ user \in [Sessions -> Users \cup {None}]
    BY DEF TypeOK
  <2>3. \A s \in Sessions : acc[s] # None => acc[s][1] \in Users
    BY <2>2 DEF Pointers, Objects
  <2> QED
    BY <1>1, <2>1, <2>2, <2>3 DEF KeptInv, LinkedInv
<1>9. ASSUME NEW s \in Sessions, Relink(s)
      PROVE  KeptInv' /\ LinkedInv'
  <2>1. /\ ReloadOn /\ rpc = "relink"
        /\ UNCHANGED <<rpc, listed, fresh, pc, acc, user>>
    BY <1>9 DEF Relink, KeptInv, configVars
  <2>2. HasName(s) => account'[s] # None
    <3>1. HasName(s) => user[s] \in Users /\ listed[user[s]] # None
      BY <2>1 DEF HasName, KeptInv, TypeOK
    <3>2. \A u \in Users : listed[u] # None => Object(u) # None
      BY ObjectFacts DEF TypeOK
    <3> QED
      BY <1>9, <3>1, <3>2 DEF Relink, TypeOK
  <2>3. \A t \in Sessions : pc[t] \in Serving => account'[t] # None
    BY <1>9, <2>2 DEF Relink, LinkedInv, TypeOK
  <2> QED
    BY <1>1, <2>1, <2>3 DEF KeptInv, LinkedInv
<1>10. ASSUME NEW s \in Sessions, RelinkKill(s)
       PROVE  KeptInv' /\ LinkedInv'
  BY <1>2, <1>10 DEF RelinkKill, configVars
<1>11. CASE RelinkDone \/ ReloadFree
  BY <1>1, <1>11
     DEF RelinkDone, ReloadFree, KeptInv, LinkedInv, configVars, clientVars
<1> QED
  BY <1>3, <1>4, <1>5, <1>6, <1>7, <1>8, <1>9, <1>10, <1>11 DEF Next, Reload

(* A handler always finds an account behind cl->account if no reload can   *)
(* drop a user: the file keeps all who are listed, and neither a deletion  *)
(* nor an addition is made from a page.  An account added between cfg_load *)
(* and the swap is dropped by the reload like one missing from the file,   *)
(* and cfg_reload leaves NULL in the clients that have logged in to it.    *)
THEOREM NeverCrashes ==
  ASSUME ReloadOn => ~RemoveOn /\ ~DeleteOn /\ ~AddOn
  PROVE  Spec => []~crashed
<1>1. Init => KeptInv /\ LinkedInv
  BY Constants DEF Init, KeptInv, LinkedInv, Serving
<1>2. LinkIInv /\ KeptInv /\ LinkedInv /\ [Next]_vars => KeptInv' /\ LinkedInv'
  BY LinkedStep DEF LinkIInv
<1>3. LinkedInv => ~crashed
  BY DEF LinkedInv
<1> QED
  BY <1>1, <1>2, <1>3, LinkInvariant, PTL DEF Spec

LEMMA PlacesInvariant ==
  ASSUME ~ReloadOn, ~DeleteOn, ReloginOn => Sessions \subseteq Cccam
  PROVE  Spec => []PlacesIInv
<1>1. Init => PlacesIInv
  BY PlacesInit
<1>2. LinkIInv /\ PlacesIInv /\ [Next]_vars => PlacesIInv'
  BY PlacesStep DEF LinkIInv
<1> QED
  BY <1>1, <1>2, LinkInvariant, PTL DEF Spec

(* While no account goes and no newcamd client logs in twice, `active' is  *)
(* the number of sessions that hold a place, for any number of sessions of *)
(* both protocols at any point of their logins and logouts, whatever       *)
(* accounts are added.                                                     *)
THEOREM ActiveCorrect ==
  ASSUME ~ReloadOn, ~DeleteOn, ReloginOn => Sessions \subseteq Cccam
  PROVE  Spec => []ActiveExact
<1>1. PlacesIInv => ActiveExact
  BY HoldersLoggedIn DEF PlacesIInv, CountInv, ActiveExact
<1> QED
  BY <1>1, PlacesInvariant, PTL

(* And max_connections limits the sessions that are logged in.             *)
THEOREM MaxCorrect ==
  ASSUME ~ReloadOn, ~DeleteOn, ReloginOn => Sessions \subseteq Cccam
  PROVE  Spec => []MaxRespected
<1>1. PlacesIInv => MaxRespected
  <2>1. ASSUME PlacesIInv, NEW u \in Users, MaxConnections[u] > 0
        PROVE  Cardinality(LoggedIn(u)) <= MaxConnections[u]
    <3>1. CASE listed[u] = None
      <4>1. Cardinality(LoggedIn(u)) = 0
        BY <2>1, <3>1, HoldersLoggedIn, FS_EmptySet
      <4> QED
        BY <4>1, Constants
    <3>2. CASE listed[u] # None
      <4>1. /\ LoggedIn(u) = Holders(Object(u)) /\ Object(u) \in live
            /\ Object(u)[1] = u
        BY <2>1, <3>2, HoldersLoggedIn
      <4>2. active[Object(u)] = Cardinality(Holders(Object(u)))
        BY <2>1, <4>1 DEF PlacesIInv, CountInv
      <4>3. active[Object(u)] <= MaxConnections[u]
        BY <2>1, <4>1 DEF PlacesIInv, LimitInv
      <4> QED
        BY <4>1, <4>2, <4>3
    <3> QED
      BY <3>1, <3>2
  <2> QED
    BY <2>1 DEF MaxRespected
<1> QED
  BY <1>1, PlacesInvariant, PTL

-----------------------------------------------------------------------------
(* FailBan.  The bound alone is not inductive: an attempt that enters      *)
(* raises it.  An attempt enters only when the address has no ban at all   *)
(* (`until' is 0 or the entry is gone), and then the failures counted are  *)
(* within what the clears so far allow (Slack), which leaves room for      *)
(* every thread.                                                           *)
A == Cardinality(Attempts)

Slack ==
  \A ip \in Ips :
    until[ip] = Unset => fails[ip] <= MaxFails - 1 + A * clears[ip]

NoEntry ==
  \A ip \in Ips \ known : fails[ip] = 0 /\ until[ip] = Unset /\ clears[ip] = 0

BanInv == BanTypeOK /\ NoEntry /\ Slack /\ LoginGuessesBounded

-----------------------------------------------------------------------------
LEMMA InsideCard ==
  ASSUME NEW ip \in Ips
  PROVE  /\ A \in Nat
         /\ IsFiniteSet(Inside(ip)) /\ Cardinality(Inside(ip)) \in 0 .. A
<1>1. Inside(ip) \in SUBSET Attempts
  BY DEF Inside
<1>2. IsFiniteSet(Attempts)
  BY FailBanAssumption
<1>3. /\ IsFiniteSet(Inside(ip))
      /\ Cardinality(Inside(ip)) <= Cardinality(Attempts)
  BY <1>1, <1>2, FS_Subset
<1> QED
  BY <1>2, <1>3, FS_CardinalityType DEF A

(* The same bound on the attempts after a step.                            *)
LEMMA InsideCardNext ==
  ASSUME NEW ip \in Ips
  PROVE  IsFiniteSet(Inside(ip)') /\ Cardinality(Inside(ip)') \in 0 .. A
<1>1. Inside(ip)' \in SUBSET Attempts
  BY DEF Inside
<1>2. IsFiniteSet(Attempts)
  BY FailBanAssumption
<1>3. /\ IsFiniteSet(Inside(ip)')
      /\ Cardinality(Inside(ip)') <= Cardinality(Attempts)
  BY <1>1, <1>2, FS_Subset
<1> QED
  BY <1>2, <1>3, FS_CardinalityType DEF A

(* The room for one more guess per thread that each clear gives.           *)
LEMMA RoomPerClear ==
  ASSUME NEW c \in Nat
  PROVE  /\ A * c \in Nat /\ A * (c + 1) \in Nat
         /\ A * (c + 1) = A * c + A
         /\ A * 0 = 0
<1>1. A \in Nat
  BY FailBanAssumption, FS_CardinalityType DEF A
<1> HIDE DEF A
<1> QED
  BY <1>1

LEMMA BanInitInv == BanInit => BanInv
<1> SUFFICES ASSUME BanInit
             PROVE  BanInv
  OBVIOUS
<1>1. BanTypeOK /\ NoEntry
  BY FailBanAssumption DEF BanInit, BanTypeOK, NoEntry
<1>2. ASSUME NEW ip \in Ips
      PROVE  /\ fails[ip] <= MaxFails - 1 + A * clears[ip]
             /\ fails[ip] + Cardinality(Inside(ip))
                  <= MaxFails - 1 + A * (clears[ip] + 1)
  <2>1. fails[ip] = 0 /\ clears[ip] = 0
    BY DEF BanInit
  <2>2. A \in Nat /\ A * 0 = 0 /\ A * (0 + 1) = A
    BY InsideCard, RoomPerClear
  <2>3. Cardinality(Inside(ip)) \in 0 .. A
    BY InsideCard
  <2> HIDE DEF A
  <2> QED
    BY <2>1, <2>2, <2>3, FailBanAssumption
<1> QED
  BY <1>1, <1>2 DEF BanInv, Slack, LoginGuessesBounded, A

-----------------------------------------------------------------------------
LEMMA BanTypeStep ==
  ASSUME BanTypeOK, NoEntry, [BanNext]_banVars
  PROVE  BanTypeOK' /\ NoEntry'
<1> USE FailBanAssumption DEF BanTypeOK, NoEntry
<1>1. ASSUME NEW a \in Attempts, NEW ip \in Ips, IsBanned(a, ip)
      PROVE  BanTypeOK' /\ NoEntry'
  BY <1>1 DEF IsBanned, Remove, Expired
<1>2. ASSUME NEW a \in Attempts, NEW ip \in Ips, RecordFail(a, ip)
      PROVE  BanTypeOK' /\ NoEntry'
  BY <1>2 DEF RecordFail
<1>3. ASSUME NEW a \in Attempts, NEW ip \in Ips, RecordOk(a, ip)
      PROVE  BanTypeOK' /\ NoEntry'
  BY <1>3 DEF RecordOk, Remove
<1>4. ASSUME NEW a \in Attempts, NEW ip \in Ips, EndUnrecorded(a, ip)
      PROVE  BanTypeOK' /\ NoEntry'
  BY <1>4 DEF EndUnrecorded, table
<1>5. ASSUME NEW ips \in SUBSET Ips, Clear(ips)
      PROVE  BanTypeOK' /\ NoEntry'
  BY <1>5 DEF Clear
<1>6. CASE Tick
  BY <1>6 DEF Tick, OneSecondLess
<1>7. CASE UNCHANGED banVars
  BY <1>7 DEF banVars, table
<1>8. ASSUME NEW ip \in Ips, BasicRefused(ip)
      PROVE  BanTypeOK' /\ NoEntry'
  BY <1>8 DEF BasicRefused, table
<1> QED
  BY <1>1, <1>2, <1>3, <1>4, <1>5, <1>6, <1>7, <1>8 DEF BanNext, Attempt

(* What a step may do to one address, and what that does to its bound.     *)
LEMMA BoundStep ==
  ASSUME BanInv, [BanNext]_banVars, NEW ip \in Ips
  PROVE  /\ until'[ip] = Unset
              => fails'[ip] <= MaxFails - 1 + A * clears'[ip]
         /\ fails'[ip] + Cardinality(Inside(ip)')
              <= MaxFails - 1 + A * (clears'[ip] + 1)
<1> DEFINE n == Cardinality(Inside(ip))
           m == Cardinality(Inside(ip)')
           Goal == /\ until'[ip] = Unset
                        => fails'[ip] <= MaxFails - 1 + A * clears'[ip]
                   /\ fails'[ip] + m <= MaxFails - 1 + A * (clears'[ip] + 1)
<1>1. /\ fails[ip] \in Nat /\ fails'[ip] \in Nat
      /\ clears[ip] \in Nat /\ clears'[ip] \in Nat
      /\ n \in 0 .. A /\ m \in 0 .. A /\ A \in Nat /\ MaxFails \in Nat \ {0}
  BY BanTypeStep, InsideCard, InsideCardNext, FailBanAssumption
     DEF BanInv, BanTypeOK
<1>2. /\ until[ip] = Unset => fails[ip] <= MaxFails - 1 + A * clears[ip]
      /\ fails[ip] + n <= MaxFails - 1 + A * (clears[ip] + 1)
  BY DEF BanInv, Slack, LoginGuessesBounded, A
<1>3. /\ A * clears[ip] \in Nat /\ A * clears'[ip] \in Nat
      /\ A * (clears[ip] + 1) = A * clears[ip] + A
      /\ A * (clears'[ip] + 1) = A * clears'[ip] + A
      /\ A * 0 = 0
  BY <1>1, RoomPerClear
<1> HIDE DEF n, m, A
<1>4. ASSUME fails'[ip] = 0, clears'[ip] = 0
      PROVE  Goal
  <2>1. A * clears'[ip] = 0
    BY <1>3, <1>4
  <2>2. A * (clears'[ip] + 1) = A
    BY <1>1, <1>3, <2>1
  <2> QED
    BY <1>1, <1>4, <2>1, <2>2
<1>5. ASSUME fails'[ip] = fails[ip], clears'[ip] = clears[ip],
             until[ip] = Unset \/ until'[ip] # Unset,
             m <= n \/ until[ip] = Unset
      PROVE  Goal
  BY <1>1, <1>2, <1>3, <1>5
<1>6. ASSUME Inside(ip)' \subseteq Inside(ip)
      PROVE  m <= n
  BY <1>6, InsideCard, FS_Subset DEF n, m
<1>7. ASSUME NEW a \in Attempts, NEW i \in Ips, IsBanned(a, i)
      PROVE  Goal
  <2>1. CASE ip \in Expired
    BY <1>4, <1>7, <2>1 DEF IsBanned, Remove
  <2>2. CASE ip \notin Expired
    <3>1. /\ fails'[ip] = fails[ip] /\ clears'[ip] = clears[ip]
          /\ until'[ip] = until[ip]
      BY <1>7, <2>2 DEF IsBanned, Remove
    <3>2. CASE until[ip] = Unset
      BY <3>1, <3>2, <1>5
    <3>3. CASE until[ip] # Unset
      <4>1. InForce(ip)
        BY <2>2, <3>3 DEF BanInv, NoEntry, BanTypeOK, Expired, InForce
      <4>2. Inside(ip)' \subseteq Inside(ip)
        BY <1>7, <4>1, FailBanAssumption DEF IsBanned, Inside, BanInv, BanTypeOK
      <4> QED
        BY <3>1, <3>3, <4>2, <1>5, <1>6
    <3> QED
      BY <3>2, <3>3
  <2> QED
    BY <2>1, <2>2
<1>8. ASSUME NEW a \in Attempts, NEW i \in Ips, RecordFail(a, i)
      PROVE  Goal
  <2>1. CASE i # ip
    <3>1. /\ fails'[ip] = fails[ip] /\ clears'[ip] = clears[ip]
          /\ until'[ip] = until[ip]
      BY <1>8, <2>1 DEF RecordFail, BanInv, BanTypeOK
    <3>2. Inside(ip)' \subseteq Inside(ip)
      BY <1>8, FailBanAssumption DEF RecordFail, Inside, BanInv, BanTypeOK
    <3> QED
      BY <3>1, <3>2, <1>5, <1>6
  <2>2. CASE i = ip
    <3>1. /\ fails'[ip] = fails[ip] + 1 /\ clears'[ip] = clears[ip]
          /\ until'[ip] =
               IF fails[ip] + 1 >= MaxFails THEN BanSecs ELSE until[ip]
      BY <1>8, <2>2 DEF RecordFail, Bans, BanInv, BanTypeOK
    <3>2. Inside(ip)' = Inside(ip) \ {a} /\ a \in Inside(ip)
      BY <1>8, <2>2, FailBanAssumption DEF RecordFail, Inside, BanInv, BanTypeOK
    <3>3. m = n - 1
      BY <3>2, InsideCard, FS_RemoveElement DEF n, m
    <3>4. BanSecs # Unset
      BY FailBanAssumption
    <3> QED
      BY <1>1, <1>2, <1>3, <3>1, <3>3, <3>4
  <2> QED
    BY <2>1, <2>2
<1>9. ASSUME NEW a \in Attempts, NEW i \in Ips,
             RecordOk(a, i) \/ EndUnrecorded(a, i)
      PROVE  Goal
  <2>1. Inside(ip)' \subseteq Inside(ip)
    BY <1>9, FailBanAssumption
       DEF RecordOk, EndUnrecorded, table, Inside, BanInv, BanTypeOK
  <2>2. CASE RecordOk(a, i) /\ i = ip
    BY <1>4, <2>2 DEF RecordOk, Remove
  <2>3. CASE ~(RecordOk(a, i) /\ i = ip)
    <3>1. /\ fails'[ip] = fails[ip] /\ clears'[ip] = clears[ip]
          /\ until'[ip] = until[ip]
      BY <1>9, <2>3
         DEF RecordOk, EndUnrecorded, table, Remove, BanInv, BanTypeOK
    <3> QED
      BY <3>1, <2>1, <1>5, <1>6
  <2> QED
    BY <2>2, <2>3
<1>10. ASSUME NEW ips \in SUBSET Ips, Clear(ips)
       PROVE  Goal
  <2>1. m = n /\ fails'[ip] = fails[ip]
    BY <1>10 DEF Clear, Inside, n, m
  <2>2. CASE ip \in ips \cap known
    <3>1. clears'[ip] = clears[ip] + 1
      BY <1>10, <2>2 DEF Clear
    <3> QED
      BY <1>1, <1>2, <1>3, <2>1, <3>1
  <2>3. CASE ip \notin ips \cap known
    <3>1. clears'[ip] = clears[ip] /\ until'[ip] = until[ip]
      BY <1>10, <2>3 DEF Clear
    <3> QED
      BY <1>1, <2>1, <3>1, <1>5
  <2> QED
    BY <2>2, <2>3
<1>11. ASSUME \/ Tick \/ UNCHANGED banVars
              \/ \E i \in Ips : BasicRefused(i)
       PROVE  Goal
  <2>1. m = n /\ fails'[ip] = fails[ip] /\ clears'[ip] = clears[ip]
    BY <1>11 DEF Tick, BasicRefused, banVars, table, Inside, n, m
  <2>2. until[ip] = Unset \/ until'[ip] # Unset
    BY <1>11, FailBanAssumption
       DEF Tick, BasicRefused, banVars, table, OneSecondLess, BanInv, BanTypeOK
  <2> QED
    BY <1>1, <2>1, <2>2, <1>5
<1> QED
  BY <1>7, <1>8, <1>9, <1>10, <1>11 DEF BanNext, Attempt, m

LEMMA BanNextInv == BanInv /\ [BanNext]_banVars => BanInv'
<1> SUFFICES ASSUME BanInv, [BanNext]_banVars
             PROVE  BanInv'
  OBVIOUS
<1>1. BanTypeOK' /\ NoEntry'
  BY BanTypeStep DEF BanInv
<1>2. Slack' /\ LoginGuessesBounded'
  BY BoundStep DEF Slack, LoginGuessesBounded, A
<1> QED
  BY <1>1, <1>2 DEF BanInv

-----------------------------------------------------------------------------
(* However many logins an address tries side by side, its wrong guesses    *)
(* stay within BAN_MAX_FAILS, one more per thread, and one more per thread *)
(* for each time the administrator cleared the ban.                        *)
THEOREM LoginGuessesCorrect == BanSpec => []LoginGuessesBounded
<1>1. BanInv => LoginGuessesBounded
  BY DEF BanInv
<1> QED
  BY <1>1, BanInitInv, BanNextInv, PTL DEF BanSpec

(* The table is well formed: an address without an entry counts nothing.   *)
THEOREM BanTypeCorrect == BanSpec => [](BanTypeOK /\ NoEntry)
<1>1. BanInv => BanTypeOK /\ NoEntry
  BY DEF BanInv
<1> QED
  BY <1>1, BanInitInv, BanNextInv, PTL DEF BanSpec
-----------------------------------------------------------------------------
(* The time a ban can last at most, if each thread inside renews it.       *)
TimeLeft(ip) == BanSecs * Cardinality(Inside(ip)) + until[ip]

RunsOut ==
  \A ip \in Ips :
    InForce(ip) /\ InForce(ip)' =>
      /\ TimeLeft(ip)' <= TimeLeft(ip)
      /\ Tick => TimeLeft(ip)' < TimeLeft(ip)

(* While a ban is in force no step puts off its end: who tries again is    *)
(* refused without renewing it (ban_is_banned), and a failure recorded     *)
(* late (ban_record_fail) renews it once for a thread that was inside      *)
(* before the ban fell.                                                    *)
BanRunsOut == [][RunsOut]_banVars

LEMMA Times ==
  ASSUME NEW b \in Nat, NEW x \in Nat, NEW y \in Nat
  PROVE  /\ b * x \in Nat
         /\ x <= y => b * x <= b * y
         /\ x + 1 = y => b * x + b = b * y
<1>1. ASSUME x <= y
      PROVE  b * x <= b * y
  <2>1. y - x \in Nat /\ b * (y - x) \in Nat /\ b * y = b * x + b * (y - x)
    BY <1>1
  <2> QED
    BY <2>1
<1> QED
  BY <1>1

LEMMA RunsOutStep ==
  ASSUME BanInv, [BanNext]_banVars, NEW ip \in Ips, InForce(ip), InForce(ip)'
  PROVE  /\ TimeLeft(ip)' <= TimeLeft(ip)
         /\ Tick => TimeLeft(ip)' < TimeLeft(ip)
<1> DEFINE n == Cardinality(Inside(ip))
           m == Cardinality(Inside(ip)')
           Goal == /\ BanSecs * m + until'[ip] <= BanSecs * n + until[ip]
                   /\ Tick => BanSecs * m + until'[ip] < BanSecs * n + until[ip]
<1> SUFFICES Goal
  BY DEF TimeLeft
<1>1. /\ n \in Nat /\ m \in Nat /\ BanSecs \in Nat
      /\ until[ip] \in 1 .. BanSecs /\ until'[ip] \in 1 .. BanSecs
  BY BanTypeStep, InsideCard, InsideCardNext, FailBanAssumption
     DEF BanInv, BanTypeOK, InForce
<1>2. ASSUME Inside(ip)' \subseteq Inside(ip)
      PROVE  m <= n
  BY <1>2, InsideCard, FS_Subset
<1> HIDE DEF n, m
<1>3. ASSUME m <= n, until'[ip] <= until[ip], Tick => until'[ip] < until[ip]
      PROVE  Goal
  <2>1. BanSecs * m \in Nat /\ BanSecs * n \in Nat /\ BanSecs * m <= BanSecs * n
    BY <1>1, <1>3, Times
  <2> QED
    BY <1>1, <1>3, <2>1
<1>4. CASE Tick
  <2>1. Inside(ip)' = Inside(ip) /\ until'[ip] = until[ip] - 1
    BY <1>1, <1>4, FailBanAssumption DEF Tick, OneSecondLess, Inside
  <2>2. m <= n
    BY <2>1, <1>2
  <2>3. until'[ip] < until[ip] /\ until'[ip] <= until[ip]
    BY <1>1, <2>1
  <2> QED
    BY <1>3, <2>2, <2>3
<1>5. ASSUME Inside(ip)' = Inside(ip), until'[ip] = until[ip]
      PROVE  Goal
  <2>1. m <= n
    BY <1>2, <1>5
  <2>2. until'[ip] <= until[ip]
    BY <1>1, <1>5
  <2>3. Tick => until'[ip] < until[ip]
    BY <1>1, <1>5, FailBanAssumption DEF Tick, OneSecondLess
  <2> QED
    BY <1>3, <2>1, <2>2, <2>3
<1>6. ASSUME NEW a \in Attempts, NEW i \in Ips, IsBanned(a, i)
      PROVE  /\ Inside(ip)' \subseteq Inside(ip)
             /\ until'[ip] <= until[ip] /\ ~Tick
  <2>1. until'[ip] = until[ip]
    BY <1>1, <1>6 DEF IsBanned, Remove, Expired
  <2>2. Inside(ip)' \subseteq Inside(ip)
    BY <1>6, FailBanAssumption DEF IsBanned, Inside, BanInv, BanTypeOK
  <2>3. ~Tick
    BY <1>1, <2>1, FailBanAssumption DEF Tick, OneSecondLess
  <2> QED
    BY <1>1, <2>1, <2>2, <2>3
<1>7. ASSUME NEW a \in Attempts, NEW i \in Ips,
             RecordFail(a, i) \/ RecordOk(a, i) \/ EndUnrecorded(a, i)
      PROVE  /\ Inside(ip)' = IF i = ip THEN Inside(ip) \ {a} ELSE Inside(ip)
             /\ a \in Inside(i) /\ ~Tick
             /\ i # ip \/ RecordOk(a, i) \/ EndUnrecorded(a, i)
                  => until'[ip] <= until[ip]
  <2>1. testing[a] = i /\ testing' = [testing EXCEPT ![a] = Unset]
    BY <1>7 DEF RecordFail, RecordOk, EndUnrecorded
  <2>2. testing \in [Attempts -> Ips \cup {Unset}] /\ Unset \notin Ips
    BY FailBanAssumption DEF BanInv, BanTypeOK
  <2>3. Inside(ip)' = IF i = ip THEN Inside(ip) \ {a} ELSE Inside(ip)
    BY <2>1, <2>2 DEF Inside
  <2>4. a \in Inside(i) /\ ~Tick
    BY <2>1, <2>2 DEF Inside, Tick
  <2>5. i # ip \/ RecordOk(a, i) \/ EndUnrecorded(a, i)
          => until'[ip] = until[ip]
    BY <1>1, <1>7, FailBanAssumption
       DEF RecordFail, RecordOk, EndUnrecorded, table, Remove, InForce,
           BanInv, BanTypeOK
  <2> QED
    BY <1>1, <2>3, <2>4, <2>5
<1>8. ASSUME NEW a \in Attempts, RecordFail(a, ip)
      PROVE  Goal
  <2>1. Inside(ip)' = Inside(ip) \ {a} /\ a \in Inside(ip) /\ ~Tick
    BY <1>7, <1>8
  <2>2. m = n - 1
    BY <2>1, InsideCard, FS_RemoveElement DEF n, m
  <2>3. m + 1 = n
    BY <1>1, <2>2
  <2>4. BanSecs * m \in Nat /\ BanSecs * m + BanSecs = BanSecs * n
    BY <1>1, <2>3, Times
  <2> QED
    BY <1>1, <2>1, <2>4
<1>9. ASSUME NEW ips \in SUBSET Ips, Clear(ips)
      PROVE  Goal
  <2>1. Inside(ip)' = Inside(ip) /\ until'[ip] = until[ip]
    BY <1>9 DEF Clear, Inside, InForce
  <2> QED
    BY <1>5, <2>1
<1>10. CASE UNCHANGED banVars \/ \E i \in Ips : BasicRefused(i)
  BY <1>10, <1>5 DEF banVars, BasicRefused, table, Inside
<1>11. ASSUME NEW a \in Attempts, Attempt(a)
       PROVE  Goal
  <2>1. PICK i \in Ips : IsBanned(a, i) \/ RecordFail(a, i) \/ RecordOk(a, i)
                            \/ EndUnrecorded(a, i)
    BY <1>11 DEF Attempt
  <2>2. CASE IsBanned(a, i)
    BY <1>2, <1>3, <1>6, <2>2
  <2>3. CASE i = ip /\ RecordFail(a, i)
    BY <1>8, <2>3
  <2>4. CASE (RecordFail(a, i) /\ i # ip) \/ RecordOk(a, i) \/ EndUnrecorded(a, i)
    <3>1. Inside(ip)' \subseteq Inside(ip) /\ ~Tick /\ until'[ip] <= until[ip]
      BY <1>7, <2>4
    <3> QED
      BY <1>2, <1>3, <3>1
  <2> QED
    BY <2>1, <2>2, <2>3, <2>4
<1>12. Ips \in SUBSET Ips /\ \A i \in Ips : {i} \in SUBSET Ips
  OBVIOUS
<1> QED
  BY <1>4, <1>9, <1>10, <1>11, <1>12 DEF BanNext

(* A ban lasts at most BAN_SECS for each thread that was inside a login    *)
(* when it fell, and BAN_SECS more, whatever the address goes on trying.   *)
THEOREM BanRunsOutCorrect == BanSpec => BanRunsOut
<1>1. BanInv /\ [BanNext]_banVars => [RunsOut]_banVars
  BY RunsOutStep DEF RunsOut
<1> QED
  BY <1>1, BanInitInv, BanNextInv, PTL DEF BanSpec, BanRunsOut
=============================================================================
