--------------------------- MODULE CwCacheProofs ---------------------------
(***************************************************************************)
(* For any number of sessions, ECMs, slots and shards: the cache answers a  *)
(* request only with a word made for its ECM, and it implements EcmMemo.    *)
(***************************************************************************)
EXTENDS CwCache, TLAPS

LEMMA IdxInIndex == \A e \in Ecms : Idx(e) \in Index
  BY SizesAssumption, HashAssumption DEF Idx, Index

LEMMA ShardInMutexes == \A i \in Index : Shard(i) \in Mutexes
  BY SizesAssumption DEF Shard, Index, Mutexes

(* The mutex of a slot is held exactly by the handler inside its critical   *)
(* section.                                                                *)
Inside == {s \in Sessions : pc[s] \in {"copy", "fill"}}

OwnerInv ==
  \A s \in Sessions : s \in Inside => owner[MyMutex(s)] = s

RequestInv ==
  \A s \in Sessions : pc[s] # "idle" => ecm[s] \in Ecms

(* A valid slot that no handler is filling holds a word made for its tag.   *)
SlotInv ==
  \A i \in Index :
    cache[i].valid /\ ~Filling(i) =>
      cache[i].cw \in Words /\ cache[i].cw.ecm = cache[i].tag

WordInv ==
  \A s \in Sessions :
    pc[s] \in {"store", "fill", "reply"} => cw[s] \in Words /\ cw[s].ecm = ecm[s]

FillInv ==
  \A s \in Sessions : pc[s] = "fill" => cache[MySlot(s)].tag = ecm[s]

CopyInv ==
  \A s \in Sessions :
    pc[s] = "copy" => cache[MySlot(s)].valid /\ cache[MySlot(s)].tag = ecm[s]

Inv ==
  /\ TypeOK
  /\ OwnerInv
  /\ RequestInv
  /\ SlotInv
  /\ WordInv
  /\ FillInv
  /\ CopyInv

-----------------------------------------------------------------------------
(* The slot and the mutex of a request.                                    *)
LEMMA MySlotType ==
  ASSUME TypeOK, RequestInv, NEW s \in Sessions, pc[s] # "idle"
  PROVE  MySlot(s) \in Index /\ MyMutex(s) \in Mutexes
  BY IdxInIndex, ShardInMutexes DEF RequestInv, MySlot, MyMutex

(* Two handlers are never both inside the critical section of one slot.    *)
LEMMA OneInside ==
  ASSUME OwnerInv, NEW s \in Inside, NEW t \in Inside, MySlot(s) = MySlot(t)
  PROVE  s = t
  BY DEF OwnerInv, Inside, MyMutex

(* Nobody is inside the critical section of a slot whose mutex is free.    *)
LEMMA FreeMeansNobody ==
  ASSUME OwnerInv, NEW s \in Sessions, owner[MyMutex(s)] = None,
         NEW t \in Inside
  PROVE  MyMutex(t) # MyMutex(s) /\ MySlot(t) # MySlot(s)
  BY NoneAssumption DEF OwnerInv, Inside, MyMutex

LEMMA InitInv == Init => Inv
<1> SUFFICES ASSUME Init PROVE Inv
  OBVIOUS
<1>1. TypeOK
  BY SizesAssumption DEF Init, TypeOK, Places, EmptySlot
<1>2. SlotInv
  BY DEF Init, SlotInv, EmptySlot
<1> QED
  BY <1>1, <1>2 DEF Init, Inv, OwnerInv, RequestInv, WordInv, FillInv, CopyInv,
                    Inside

LEMMA WordsMade ==
  ASSUME NEW a \in Accounts \cup {None}, NEW e \in Ecms, EmuProcess(a, e) # None
  PROVE  EmuProcess(a, e) \in Words /\ EmuProcess(a, e).ecm = e
  BY DEF EmuProcess, Words

LEMMA TypeStep ==
  ASSUME Inv, [Next]_vars
  PROVE  TypeOK'
<1> USE DEF Inv, TypeOK, Goto, Places, requestVars
<1> SUFFICES ASSUME NEW s \in Sessions, Handler(s)
             PROVE  TypeOK'
  <2>1. CASE Tick
    <3>1. ASSUME NEW i \in Index
          PROVE  cache'[i] \in [valid : BOOLEAN, tag : Ecms \cup {None},
                                cw : Words \cup {None}, age : 0 .. TTL]
      <4>1. IF cache[i].age < TTL THEN cache[i].age + 1 \in 0 .. TTL
                                  ELSE cache[i].age \in 0 .. TTL
        BY SizesAssumption
      <4> QED
        BY <2>1, <4>1 DEF Tick
    <3>2. cache' = [i \in Index |-> cache'[i]]
      BY <2>1 DEF Tick
    <3> HIDE DEF Inv
    <3>3. cache' \in [Index -> [valid : BOOLEAN, tag : Ecms \cup {None},
                               cw : Words \cup {None}, age : 0 .. TTL]]
      BY <3>1, <3>2
    <3>4. UNCHANGED <<pc, acc, ecm, cw, owner>>
      BY <2>1 DEF Tick
    <3>5. TypeOK
      BY DEF Inv
    <3> HIDE <2>1
    <3> QED
      BY <3>3, <3>4, <3>5
  <2>2. CASE UNCHANGED vars
    BY <2>2 DEF vars
  <2> QED
    BY <2>1, <2>2 DEF Next
<1>1. ASSUME NEW a \in Accounts \cup {None}, NEW e \in Ecms, Request(s, a, e)
      PROVE  TypeOK'
  BY <1>1 DEF Request
<1>2. CASE Hit(s)
  BY <1>2 DEF Hit, Lock
<1>3. CASE Copy(s)
  BY <1>3, MySlotType DEF Copy, Unlock
<1>4. CASE Miss(s)
  BY <1>4 DEF Miss
<1>5. CASE Emulate(s)
  BY <1>5, WordsMade DEF Emulate, RequestInv
<1>6. CASE StoreTag(s)
  BY <1>6, MySlotType DEF StoreTag, Lock, RequestInv
<1>7. CASE StoreWord(s)
  <2>1. /\ MySlot(s) \in Index
        /\ MyMutex(s) \in Mutexes
        /\ cw[s] \in Words
    BY <1>7, MySlotType DEF StoreWord, WordInv
  <2>2. 0 \in 0 .. TTL
    BY SizesAssumption
  <2> QED
    BY <1>7, <2>1, <2>2 DEF StoreWord, Unlock
<1>8. CASE Reply(s)
  BY <1>8 DEF Reply
<1> QED
  BY <1>1, <1>2, <1>3, <1>4, <1>5, <1>6, <1>7, <1>8 DEF Handler

(* A step of one handler keeps every part of the invariant; the parts about *)
(* other handlers rest on OneInside and FreeMeansNobody.                   *)
LEMMA HandlerStep ==
  ASSUME Inv, NEW s \in Sessions, Handler(s)
  PROVE  OwnerInv' /\ RequestInv' /\ SlotInv' /\ WordInv' /\ FillInv' /\ CopyInv'
<1> USE DEF Goto, requestVars
<1>a. TypeOK /\ OwnerInv /\ RequestInv /\ SlotInv /\ WordInv /\ FillInv /\ CopyInv
  BY DEF Inv
<1>b. /\ pc \in [Sessions -> Places]
      /\ acc \in [Sessions -> Accounts \cup {None}]
      /\ ecm \in [Sessions -> Ecms \cup {None}]
      /\ cw \in [Sessions -> Words \cup {None}]
      /\ DOMAIN cache = Index
      /\ owner \in [Mutexes -> Sessions \cup {None}]
  BY <1>a DEF TypeOK
<1>1. ASSUME NEW a \in Accounts \cup {None}, NEW e \in Ecms, Request(s, a, e)
      PROVE  OwnerInv' /\ RequestInv' /\ SlotInv' /\ WordInv' /\ FillInv' /\ CopyInv'
  BY <1>a, <1>b, <1>1 DEF Request, OwnerInv, RequestInv, SlotInv, WordInv, FillInv,
     CopyInv, Inside, Filling, MySlot, MyMutex
<1>2. CASE Hit(s)
  BY <1>a, <1>b, <1>2, MySlotType, FreeMeansNobody
     DEF Hit, Lock, Matches, OwnerInv, RequestInv, SlotInv, WordInv, FillInv,
     CopyInv, Inside, Filling, MySlot, MyMutex
<1>3. CASE Copy(s)
  BY <1>a, <1>b, <1>3, MySlotType, OneInside
     DEF Copy, Unlock, OwnerInv, RequestInv, SlotInv, WordInv, FillInv,
     CopyInv, Inside, Filling, MySlot, MyMutex
<1>4. CASE Miss(s)
  BY <1>a, <1>b, <1>4 DEF Miss, OwnerInv, RequestInv, SlotInv, WordInv, FillInv,
     CopyInv, Inside, Filling, MySlot, MyMutex
<1>5. CASE Emulate(s)
  BY <1>a, <1>b, <1>5, WordsMade DEF Emulate, OwnerInv, RequestInv, SlotInv, WordInv,
     FillInv, CopyInv, Inside, Filling, MySlot, MyMutex
<1>6. CASE StoreTag(s)
  BY <1>a, <1>b, <1>6, MySlotType, FreeMeansNobody
     DEF StoreTag, Lock, OwnerInv, RequestInv, SlotInv, WordInv, FillInv,
     CopyInv, Inside, Filling, MySlot, MyMutex
<1>7. CASE StoreWord(s)
  BY <1>a, <1>b, <1>7, MySlotType, OneInside
     DEF StoreWord, Unlock, OwnerInv, RequestInv, SlotInv, WordInv, FillInv,
     CopyInv, Inside, Filling, MySlot, MyMutex
<1>8. CASE Reply(s)
  BY <1>a, <1>b, <1>8 DEF Reply, OwnerInv, RequestInv, SlotInv, WordInv, FillInv,
     CopyInv, Inside, Filling, MySlot, MyMutex
<1> QED
  BY <1>1, <1>2, <1>3, <1>4, <1>5, <1>6, <1>7, <1>8 DEF Handler

LEMMA InvStep ==
  ASSUME Inv, [Next]_vars
  PROVE  Inv'
<1>1. TypeOK'
  BY TypeStep
<1>2. ASSUME NEW s \in Sessions, Handler(s)
      PROVE  Inv'
  BY <1>1, <1>2, HandlerStep DEF Inv
<1>3. CASE Tick
  <2>1. TypeOK
    BY DEF Inv
  <2>2. \A i \in Index : /\ cache'[i].valid = cache[i].valid
                         /\ cache'[i].tag = cache[i].tag
                         /\ cache'[i].cw = cache[i].cw
    BY <1>3, <2>1 DEF Tick, TypeOK
  <2>3. UNCHANGED <<pc, acc, ecm, cw, owner>>
    BY <1>3 DEF Tick, requestVars
  <2>4. OwnerInv' /\ RequestInv' /\ WordInv'
    BY <2>3 DEF Inv, OwnerInv, RequestInv, WordInv, Inside, MySlot, MyMutex
  <2>5. SlotInv'
    BY <2>2, <2>3 DEF Inv, SlotInv, Filling, MySlot
  <2>6. FillInv' /\ CopyInv'
    <3>1. \A s \in Sessions : pc[s] # "idle" => MySlot(s) \in Index
      BY IdxInIndex DEF Inv, RequestInv, MySlot
    <3> QED
      BY <2>2, <2>3, <3>1 DEF Inv, FillInv, CopyInv, MySlot
  <2> QED
    BY <1>1, <2>4, <2>5, <2>6 DEF Inv
<1>4. CASE UNCHANGED vars
  BY <1>1, <1>4 DEF vars, requestVars, Inv, OwnerInv, RequestInv, SlotInv, WordInv, FillInv,
     CopyInv, Inside, Filling, MySlot, MyMutex
<1> QED
  BY <1>2, <1>3, <1>4 DEF Next

-----------------------------------------------------------------------------
(* The parts of the invariant hold of every reachable state.               *)
LEMMA SpecInv == Spec => []Inv
<1>1. Init => Inv
  BY InitInv
<1>2. Inv /\ [Next]_vars => Inv'
  BY InvStep
<1> QED
  BY <1>1, <1>2, PTL DEF Spec

(* The variables of the cache stay within their types.                     *)
THEOREM TypeCorrect == Spec => []TypeOK
<1>1. Inv => TypeOK
  BY DEF Inv
<1> QED
  BY <1>1, SpecInv, PTL

(* cw_cache_lookup and cw_cache_store never hand a session the control word *)
(* of another ECM, however many ECMs share a slot or a mutex.              *)
THEOREM AnswersFit == Spec => []AnswerFits
<1>1. Inv => AnswerFits
  BY NoneAssumption DEF Inv, WordInv, AnswerFits, Words
<1> QED
  BY <1>1, SpecInv, PTL

-----------------------------------------------------------------------------
(* The refinement: one lemma per action of a handler.                      *)
LEMMA InitRefines == Init => Service!Init
<1> SUFFICES ASSUME Init PROVE Service!Init
  OBVIOUS
<1>1. Phase = [s \in Sessions |-> "idle"]
  BY DEF Init, Phase
<1>2. Word = [s \in Sessions |-> None]
  BY DEF Init, Word
<1>3. Memo = [e \in Ecms |-> None]
  BY IdxInIndex DEF Init, Memo, EmptySlot
<1> QED
  BY <1>1, <1>2, <1>3 DEF Init, Service!Init

(* A handler that neither fills a slot nor empties one leaves the memo.    *)
LEMMA MemoKept ==
  ASSUME cache' = cache, NEW s \in Sessions, TypeOK,
         \A t \in Sessions : t # s => pc'[t] = pc[t] /\ ecm'[t] = ecm[t],
         pc[s] # "fill", pc'[s] # "fill"
  PROVE  Memo' = Memo
<1>1. \A i : Filling(i)' <=> Filling(i)
  BY DEF Filling, MySlot
<1> QED
  BY <1>1 DEF Memo

LEMMA RequestRefines ==
  ASSUME Inv, NEW s \in Sessions, NEW a \in Accounts \cup {None},
         NEW e \in Ecms, Request(s, a, e)
  PROVE  Service!Ask(s, a, e)
<1> USE DEF Request, Goto, requestVars
<1>1. TypeOK
  BY DEF Inv
<1>2. Memo' = Memo
  BY <1>1, MemoKept DEF TypeOK
<1>3. Word' = Word
  BY <1>1 DEF Word, TypeOK, MySlot
<1>4. Phase' = [Phase EXCEPT ![s] = "asking"] /\ Phase[s] = "idle"
  BY <1>1 DEF Phase, TypeOK, Places
<1> QED
  BY <1>2, <1>3, <1>4 DEF Service!Ask

LEMMA HitRefines ==
  ASSUME Inv, NEW s \in Sessions, Hit(s)
  PROVE  Service!FromMemo(s)
<1> USE DEF Hit, Goto, requestVars
<1>1. TypeOK /\ ecm[s] \in Ecms /\ MySlot(s) = Idx(ecm[s]) /\ MySlot(s) \in Index
  BY IdxInIndex DEF Inv, RequestInv, MySlot
<1>2. ~Filling(MySlot(s))
  BY FreeMeansNobody DEF Inv, Filling, Inside
<1>3. Memo[ecm[s]] = [cw |-> cache[MySlot(s)].cw, age |-> cache[MySlot(s)].age]
  BY <1>1, <1>2 DEF Memo, Matches
<1>4. Memo[ecm[s]] # None /\ Memo[ecm[s]].age < TTL
  <2>1. cache[MySlot(s)].cw \in Words /\ cache[MySlot(s)].age \in 0 .. TTL
    BY <1>1, <1>2 DEF Inv, SlotInv, Matches, TypeOK
  <2> QED
    BY <1>3, <2>1, NoneAssumption DEF Words, Matches
<1>5. Memo' = Memo
  BY <1>1, MemoKept DEF TypeOK
<1>6. Word' = [Word EXCEPT ![s] = Memo[ecm[s]].cw]
  <2>1. Memo[ecm[s]].cw = cache[MySlot(s)].cw
    BY <1>3
  <2> QED
    BY <1>1, <2>1 DEF Word, TypeOK, MySlot
<1>7. Phase' = [Phase EXCEPT ![s] = "answered"] /\ Phase[s] = "asking"
  BY <1>1 DEF Phase, TypeOK, Places
<1> QED
  BY <1>4, <1>5, <1>6, <1>7 DEF Service!FromMemo

LEMMA CopyRefines ==
  ASSUME Inv, NEW s \in Sessions, Copy(s)
  PROVE  UNCHANGED Service!memoVars
<1> USE DEF Copy, Goto, requestVars
<1>1. TypeOK
  BY DEF Inv
<1>2. Memo' = Memo
  BY <1>1, MemoKept DEF TypeOK
<1>3. Word' = Word
  BY <1>1 DEF Word, TypeOK, MySlot
<1>4. Phase' = Phase
  BY <1>1 DEF Phase, TypeOK, Places
<1> QED
  BY <1>2, <1>3, <1>4 DEF Service!memoVars

LEMMA MissRefines ==
  ASSUME Inv, NEW s \in Sessions, Miss(s)
  PROVE  UNCHANGED Service!memoVars
<1> USE DEF Miss, Goto, requestVars
<1>1. TypeOK
  BY DEF Inv
<1>2. Memo' = Memo
  BY <1>1, MemoKept DEF TypeOK
<1>3. Word' = Word
  BY <1>1 DEF Word, TypeOK, MySlot
<1>4. Phase' = Phase
  BY <1>1 DEF Phase, TypeOK, Places
<1> QED
  BY <1>2, <1>3, <1>4 DEF Service!memoVars

LEMMA EmulateRefines ==
  ASSUME Inv, NEW s \in Sessions, Emulate(s)
  PROVE  Service!Make(s)
<1> USE DEF Emulate, Goto, requestVars
<1>1. TypeOK
  BY DEF Inv
<1>2. Memo' = Memo
  BY <1>1, MemoKept DEF TypeOK
<1>3. Word' = [Word EXCEPT ![s] = EmuProcess(acc[s], ecm[s])]
  BY <1>1 DEF Word, TypeOK, MySlot
<1>4. /\ Phase[s] = "asking"
      /\ Phase' = [Phase EXCEPT ![s] =
                    IF EmuProcess(acc[s], ecm[s]) = None THEN "refused" ELSE "made"]
  BY <1>1 DEF Phase, TypeOK, Places
<1> QED
  BY <1>2, <1>3, <1>4 DEF Service!Make

LEMMA ReplyRefines ==
  ASSUME Inv, NEW s \in Sessions, Reply(s)
  PROVE  Service!Finish(s)
<1> USE DEF Reply, Goto
<1>1. TypeOK
  BY DEF Inv
<1>2. Memo' = Memo
  BY <1>1, MemoKept DEF TypeOK
<1>3. Word' = [Word EXCEPT ![s] = None]
  BY <1>1 DEF Word, TypeOK, MySlot
<1>4. Phase' = [Phase EXCEPT ![s] = "idle"] /\ Phase[s] \in {"answered", "refused"}
  BY <1>1 DEF Phase, TypeOK, Places
<1> QED
  BY <1>2, <1>3, <1>4 DEF Service!Finish

(* Taking the slot forgets the ECM it held, if it held one.                *)
LEMMA StoreTagRefines ==
  ASSUME Inv, NEW s \in Sessions, StoreTag(s)
  PROVE  (\E e \in Ecms : Service!Forget({e})) \/ UNCHANGED Service!memoVars
<1> USE DEF StoreTag, Goto, requestVars
<1>1. TypeOK /\ MySlot(s) \in Index
  BY MySlotType DEF Inv
<1> DEFINE mine(e) == Idx(e) = MySlot(s)
<1>2. \A t : MySlot(t)' = MySlot(t)
  BY DEF MySlot
<1>3. \A j \in Index : j # MySlot(s) => cache'[j] = cache[j]
  BY <1>1 DEF TypeOK
<1>4. Word' = Word
  <2>1. \A j \in Index : cache'[j].cw = cache[j].cw
    BY <1>1 DEF TypeOK
  <2>2. \A t \in Sessions : pc[t] = "copy" => MySlot(t) \in Index
    BY MySlotType DEF Inv
  <2>3. \A t \in Sessions : pc'[t] = "copy" <=> pc[t] = "copy"
    BY <1>1 DEF TypeOK
  <2> QED
    BY <1>2, <2>1, <2>2, <2>3 DEF Word
<1>5. Phase' = Phase
  BY <1>1 DEF Phase, TypeOK, Places
<1>6. \A e \in Ecms : mine(e) => Filling(Idx(e))'
  BY <1>1, <1>2 DEF Filling, TypeOK
<1>7. \A e \in Ecms : ~mine(e) => (Filling(Idx(e))' <=> Filling(Idx(e)))
  BY <1>1, <1>2 DEF Filling, TypeOK
<1>8. \A e \in Ecms : mine(e) => Memo'[e] = None
  BY <1>6 DEF Memo
<1>9. \A e \in Ecms : ~mine(e) => Memo'[e] = Memo[e]
  BY <1>3, <1>7, IdxInIndex DEF Memo
<1>10. \A e \in Ecms :
         mine(e) /\ Memo[e] # None => cache[MySlot(s)].tag = e
  BY DEF Memo
<1>11. CASE \E e \in Ecms : mine(e) /\ Memo[e] # None
  <2>1. PICK e \in Ecms : mine(e) /\ Memo[e] # None
    BY <1>11
  <2>2. \A d \in Ecms : Memo'[d] = IF d \in {e} THEN None ELSE Memo[d]
    BY <1>8, <1>9, <1>10, <2>1
  <2>3. Memo' = [d \in Ecms |-> IF d \in {e} THEN None ELSE Memo[d]]
    BY <2>2 DEF Memo
  <2> QED
    BY <1>4, <1>5, <2>3 DEF Service!Forget
<1>12. CASE \A e \in Ecms : mine(e) => Memo[e] = None
  <2>1. \A e \in Ecms : Memo'[e] = Memo[e]
    BY <1>8, <1>9, <1>12
  <2>2. Memo' = Memo
    BY <2>1 DEF Memo
  <2> QED
    BY <1>4, <1>5, <2>2 DEF Service!memoVars
<1> QED
  BY <1>11, <1>12

(* Releasing the mutex after the copy is the moment the word is kept.      *)
LEMMA StoreWordRefines ==
  ASSUME Inv, NEW s \in Sessions, StoreWord(s)
  PROVE  Service!Keep(s)
<1> USE DEF StoreWord, Goto, requestVars
<1> DEFINE i == MySlot(s)
<1>1. TypeOK /\ i \in Index /\ i = Idx(ecm[s]) /\ ecm[s] \in Ecms
  BY MySlotType DEF Inv, RequestInv, MySlot
<1>2. \A t \in Inside : t # s => MySlot(t) # i
  BY OneInside DEF Inv, Inside
<1>3. Word' = Word
  BY <1>1, <1>2 DEF Word, TypeOK, MySlot, Inside
<1>4. Phase' = [Phase EXCEPT ![s] = "answered"] /\ Phase[s] = "made"
  BY <1>1 DEF Phase, TypeOK, Places
<1>5. \A t : MySlot(t)' = MySlot(t)
  BY DEF MySlot
<1>6. \A e \in Ecms : Idx(e) = i => Filling(Idx(e)) /\ ~Filling(Idx(e))'
  BY <1>1, <1>2, <1>5 DEF Filling, TypeOK, Inside
<1>7. \A e \in Ecms : Idx(e) # i => (Filling(Idx(e))' <=> Filling(Idx(e)))
  BY <1>1, <1>5 DEF Filling, TypeOK
<1>8. cache'[i] = [valid |-> TRUE, tag |-> ecm[s], cw |-> cw[s], age |-> 0]
  BY <1>1 DEF TypeOK, Inv, FillInv
<1>9. \A e \in Ecms : Memo'[e] = IF e = ecm[s] THEN [cw |-> cw[s], age |-> 0]
                                             ELSE Memo[e]
  <2>1. \A e \in Ecms : Idx(e) # i => Memo'[e] = Memo[e]
    <3>1. \A e \in Ecms : Idx(e) # i => cache'[Idx(e)] = cache[Idx(e)]
      BY <1>1, IdxInIndex DEF TypeOK
    <3> QED
      BY <1>7, <3>1 DEF Memo
  <2>2. \A e \in Ecms : Idx(e) = i => Memo[e] = None
    BY <1>6 DEF Memo
  <2>3. \A e \in Ecms :
          Idx(e) = i => Memo'[e] = IF e = ecm[s] THEN [cw |-> cw[s], age |-> 0]
                                                ELSE None
    BY <1>1, <1>6, <1>8 DEF Memo
  <2> QED
    BY <1>1, <2>1, <2>2, <2>3
<1>10. Memo' = [Memo EXCEPT ![ecm[s]] = [cw |-> Word[s], age |-> 0]]
  <2>1. Word[s] = cw[s]
    BY DEF Word
  <2> QED
    BY <1>9, <2>1 DEF Memo
<1> QED
  BY <1>3, <1>4, <1>10 DEF Service!Keep

LEMMA TickRefines ==
  ASSUME Inv, Tick
  PROVE  Service!Tick
<1>1. TypeOK
  BY DEF Inv
<1>2. UNCHANGED <<pc, acc, ecm, cw, owner>>
  BY DEF Tick, requestVars
<1>3. \A i \in Index : /\ cache'[i].valid = cache[i].valid
                       /\ cache'[i].tag = cache[i].tag
                       /\ cache'[i].cw = cache[i].cw
                       /\ cache'[i].age = IF cache[i].age < TTL THEN cache[i].age + 1
                                                             ELSE cache[i].age
  BY <1>1 DEF Tick, TypeOK
<1>4. \A i \in Index : cache[i].age < TTL <=> cache[i].age # TTL
  BY <1>1, SizesAssumption DEF TypeOK
<1>5. Word' = Word
  <2>1. \A s \in Sessions : pc[s] = "copy" => MySlot(s) \in Index
    BY MySlotType DEF Inv
  <2> QED
    BY <1>2, <1>3, <2>1 DEF Word, MySlot
<1>6. Phase' = Phase
  BY <1>2 DEF Phase
<1>7. \A e \in Ecms : Memo'[e] = Service!Older(Memo[e])
  <2> TAKE e \in Ecms
  <2>1. Idx(e) \in Index /\ (Filling(Idx(e))' <=> Filling(Idx(e)))
    BY <1>2, IdxInIndex DEF Filling, MySlot
  <2>2. CASE Memo[e] = None
    <3>1. ~(cache[Idx(e)].valid /\ cache[Idx(e)].tag = e /\ ~Filling(Idx(e)))
      <4>1. SUFFICES ASSUME cache[Idx(e)].valid, cache[Idx(e)].tag = e,
                            ~Filling(Idx(e))
                     PROVE  FALSE
        OBVIOUS
      <4>2. cache[Idx(e)].cw \in Words /\ cache[Idx(e)].age \in 0 .. TTL
        BY <1>1, <2>1, <4>1 DEF Inv, SlotInv, TypeOK
      <4> QED
        BY <2>2, <4>1, <4>2, NoneAssumption DEF Memo, Words
    <3> QED
      BY <1>3, <2>1, <2>2, <3>1 DEF Memo, Service!Older
  <2>3. CASE Memo[e] # None
    <3>1. /\ Memo[e] = [cw |-> cache[Idx(e)].cw, age |-> cache[Idx(e)].age]
          /\ cache[Idx(e)].valid /\ cache[Idx(e)].tag = e /\ ~Filling(Idx(e))
      BY <2>3 DEF Memo
    <3>2. Memo'[e] = [cw |-> cache[Idx(e)].cw, age |-> cache'[Idx(e)].age]
      BY <1>3, <2>1, <3>1 DEF Memo
    <3> QED
      BY <1>3, <1>4, <2>1, <2>3, <3>1, <3>2 DEF Service!Older
  <2> QED
    BY <2>2, <2>3
<1>8. Memo' = [e \in Ecms |-> Service!Older(Memo[e])]
  BY <1>7 DEF Memo
<1> QED
  BY <1>2, <1>5, <1>6, <1>8 DEF Service!Tick

(* The direct-mapped table under sharded mutexes implements the memo: from *)
(* outside no slot, no collision and no half-copied word can be seen, and   *)
(* an answer is never older than the time to live.                         *)
THEOREM CacheImplementsMemo == Spec => ImplementsMemo
<1>1. Init => Service!Init
  BY InitRefines
<1>2. Inv /\ [Next]_vars => [Service!Next]_(Service!memoVars)
  <2> SUFFICES ASSUME Inv, [Next]_vars
               PROVE  Service!Next \/ UNCHANGED Service!memoVars
    OBVIOUS
  <2>1. ASSUME NEW s \in Sessions, Handler(s)
        PROVE  Service!Next \/ UNCHANGED Service!memoVars
    BY <2>1, RequestRefines, HitRefines, CopyRefines, MissRefines, EmulateRefines,
       StoreTagRefines, StoreWordRefines, ReplyRefines DEF Handler, Service!Next
  <2>2. CASE Tick
    BY <2>2, TickRefines DEF Service!Next
  <2>3. CASE UNCHANGED vars
    BY <2>3 DEF vars, requestVars, Service!memoVars, Phase, Word, Memo, Filling, MySlot
  <2> QED
    BY <2>1, <2>2, <2>3 DEF Next
<1> QED
  BY <1>1, <1>2, SpecInv, PTL DEF Spec, ImplementsMemo, Service!Spec
=============================================================================
