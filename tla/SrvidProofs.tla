---------------------------- MODULE SrvidProofs ----------------------------
(***************************************************************************)
(* Proofs about Srvid for tables of any size, any keys and any loaders.    *)
(*                                                                         *)
(* The argument is about one block (Whole): every key is in one slot, with *)
(* the name the lines said first, and from its home up to that slot no     *)
(* slot is empty; a key with a name that is in no slot found the table     *)
(* full.  No step ever empties a slot of a table in use, so what an insert *)
(* has reached stays reached.                                              *)
(***************************************************************************)
EXTENDS Srvid, FiniteSetTheorems, WellFoundedInduction, TLAPS

Reaches(t, i) ==
  \E d \in Slots : /\ Probe(t[i].key, d) = i
                   /\ \A e \in 0 .. d - 1 : t[Probe(t[i].key, e)].key # None

Holds(t, k) == \E i \in Slots : t[i].key = k

Full(t) == \A i \in Slots : t[i].key # None

Whole(t, s) ==
  /\ \A i, j \in Slots : t[i].key # None /\ t[i].key = t[j].key => i = j
  /\ \A i \in Slots : t[i].key # None => t[i].name = s[t[i].key]
  /\ \A i \in Slots : t[i].key # None => Reaches(t, i)
  /\ \A k \in Keys : s[k] # None => Holds(t, k) \/ Full(t)

Said(s, k, n) == [s EXCEPT ![k] = IF @ = None THEN n ELSE @]

IndInv ==
  /\ TypeOK
  /\ OneOwner
  /\ \A l \in Loaders : lpc[l] = "fill" => newtbl[l] # None
  /\ \A b \in Blocks : Whole(tbl[b], said[b])

-----------------------------------------------------------------------------
(* The probe sequence of a key visits every slot once.                     *)
LEMMA ProbeIn ==
  ASSUME NEW k \in Keys, NEW d \in Slots
  PROVE  Probe(k, d) \in Slots
  BY SrvidAssumption DEF Probe, Slots

LEMMA ProbeOnce ==
  ASSUME NEW k \in Keys, NEW d \in Slots, NEW e \in Slots,
         Probe(k, d) = Probe(k, e)
  PROVE  d = e
<1>1. Home[k] \in 0 .. Size - 1 /\ Size \in Nat
  BY SrvidAssumption
<1> QED
  BY <1>1 DEF Probe, Slots

LEMMA ProbeReaches ==
  ASSUME NEW k \in Keys, NEW i \in Slots
  PROVE  \E d \in Slots : Probe(k, d) = i
<1>1. Home[k] \in 0 .. Size - 1 /\ Size \in Nat
  BY SrvidAssumption
<1>2. CASE Home[k] <= i
  <2>1. i - Home[k] \in Slots /\ Probe(k, i - Home[k]) = i
    BY <1>1, <1>2 DEF Probe, Slots
  <2> QED
    BY <2>1
<1>3. CASE i < Home[k]
  <2>1. i - Home[k] + Size \in Slots /\ Probe(k, i - Home[k] + Size) = i
    BY <1>1, <1>3 DEF Probe, Slots
  <2> QED
    BY <2>1
<1> QED
  BY <1>1, <1>2, <1>3 DEF Slots

(* If some slot is empty or holds the key, the walk from the home of the   *)
(* key ends at one.                                                        *)
LEMMA WalkEnds ==
  ASSUME NEW t \in [Slots -> Entry], NEW k \in Keys,
         NEW i \in Slots, t[i].key \in {k, None}
  PROVE  FreeAt(t, k) \cup FoundAt(t, k) # {}
<1> DEFINE Stops == {d \in Slots : t[Probe(k, d)].key \in {k, None}}
<1>1. Stops # {}
  BY ProbeReaches
<1>2. Stops \subseteq Nat
  BY DEF Slots
<1>3. PICK d \in Stops : \A e \in Stops : ~(<<e, d>> \in OpToRel(<, Nat))
  BY <1>1, <1>2, NatLessThanWellFounded, WFMin
<1>4. d \in Stops /\ \A e \in Stops : ~(e < d)
  BY <1>2, <1>3 DEF OpToRel
<1>5. \A e \in 0 .. d - 1 : e \in Slots /\ e < d
  BY <1>4, SrvidAssumption DEF Slots
<1>6. Passes(t, k, d)
  BY <1>4, <1>5 DEF Passes
<1> QED
  BY <1>4, <1>6 DEF FreeAt, FoundAt

(* A key in the table is found from its home.                              *)
LEMMA HeldIsFound ==
  ASSUME NEW t \in [Slots -> Entry], NEW s, Whole(t, s), NEW k \in Keys
  PROVE  Holds(t, k) <=> FoundAt(t, k) # {}
<1>1. ASSUME NEW d \in FoundAt(t, k)
      PROVE  Holds(t, k)
  BY ProbeIn DEF FoundAt, Holds
<1>2. ASSUME NEW i \in Slots, t[i].key = k
      PROVE  FoundAt(t, k) # {}
  <2>1. k # None
    BY SrvidAssumption
  <2>2. PICK d \in Slots : /\ Probe(k, d) = i
                           /\ \A e \in 0 .. d - 1 : t[Probe(k, e)].key # None
    BY <1>2, <2>1 DEF Whole, Reaches
  <2>3. ASSUME NEW e \in 0 .. d - 1
        PROVE  t[Probe(k, e)].key # k
    <3>1. e \in Slots /\ e # d
      BY SrvidAssumption DEF Slots
    <3>2. Probe(k, e) \in Slots /\ Probe(k, e) # i
      BY <2>2, <3>1, ProbeIn, ProbeOnce
    <3> QED
      BY <1>2, <2>1, <3>2 DEF Whole
  <2>4. d \in FoundAt(t, k)
    BY <1>2, <2>2, <2>3 DEF FoundAt, Passes
  <2> QED
    BY <2>4
<1> QED
  BY <1>1, <1>2 DEF Holds

(* An insert keeps the table whole.                                        *)
LEMMA InsertKeepsWhole ==
  ASSUME NEW t \in [Slots -> Entry], NEW s \in [Keys -> Names \cup {None}],
         Whole(t, s), NEW k \in Keys, NEW n \in Names
  PROVE  /\ Whole(tbl_insert(t, k, n), Said(s, k, n))
         /\ tbl_insert(t, k, n) \in [Slots -> Entry]
<1> DEFINE s2 == Said(s, k, n)
<1>1. k # None /\ n # None /\ \A i \in Slots : t[i] \in Entry
  BY SrvidAssumption
<1>2. \A m \in Keys : s2[m] = IF m = k /\ s[k] = None THEN n ELSE s[m]
  BY DEF Said
<1>3. \A i \in Slots : t[i].key # None => t[i].key \in Keys /\ t[i].name # None
  BY <1>1, SrvidAssumption DEF Entry, Empty
<1>4. Holds(t, k) => s[k] # None
  BY <1>1, <1>3 DEF Holds, Whole
<1>5. CASE FreeAt(t, k) = {}
  <2>1. ~Holds(t, k) => Full(t)
    <3>1. ASSUME ~Holds(t, k), NEW i \in Slots, t[i].key = None
          PROVE  FALSE
      BY <1>5, <3>1, WalkEnds, HeldIsFound
    <3> QED
      BY <3>1 DEF Full
  <2>2. \A i \in Slots : t[i].key = k => s2[k] = s[k]
    BY <1>2, <1>4 DEF Holds
  <2>3. Whole(t, s2)
    <3>1. \A i \in Slots : t[i].key # None => t[i].name = s2[t[i].key]
      BY <1>2, <1>3, <2>2 DEF Whole
    <3>2. \A m \in Keys : s2[m] # None => Holds(t, m) \/ Full(t)
      BY <1>2, <2>1 DEF Whole
    <3> QED
      BY <3>1, <3>2 DEF Whole
  <2> QED
    BY <1>5, <2>3 DEF tbl_insert
<1>6. CASE FreeAt(t, k) # {}
  <2> DEFINE d == CHOOSE x \in FreeAt(t, k) : TRUE
             i == Probe(k, d)
             t2 == [t EXCEPT ![i] = [key |-> k, name |-> n]]
  <2>1. d \in FreeAt(t, k)
    BY <1>6
  <2>2. d \in Slots /\ t[i].key = None /\ Passes(t, k, d)
    BY <2>1 DEF FreeAt
  <2>3. i \in Slots /\ tbl_insert(t, k, n) = t2
    BY <1>6, <2>2, ProbeIn DEF tbl_insert
  <2> HIDE DEF d, i
  <2>4. FoundAt(t, k) = {}
    <3>1. ASSUME NEW e \in FoundAt(t, k)
          PROVE  FALSE
      <4>1. e \in Slots /\ t[Probe(k, e)].key = k /\ Passes(t, k, e)
        BY DEF FoundAt
      <4>2. CASE e < d
        BY <2>2, <4>1, <4>2 DEF Passes, Slots
      <4>3. CASE d < e
        BY <2>2, <4>1, <4>3 DEF Passes, Slots, i
      <4>4. CASE d = e
        BY <1>1, <2>2, <4>1, <4>4 DEF i
      <4> QED
        BY <2>2, <4>1, <4>2, <4>3, <4>4 DEF Slots
    <3> QED
      BY <3>1
  <2>5. ~Holds(t, k) /\ s[k] = None
    BY <2>2, <2>3, <2>4, HeldIsFound DEF Whole, Full
  <2>6. \A j \in Slots : t2[j] = IF j = i THEN [key |-> k, name |-> n] ELSE t[j]
    BY <2>3
  <2>7. t2 \in [Slots -> Entry]
    BY <2>3 DEF Entry
  <2> HIDE DEF t2
  <2>8. \A j \in Slots : /\ j # i => t2[j].key = t[j].key /\ t2[j].name = t[j].name
                         /\ j = i => t2[j].key = k /\ t2[j].name = n
                         /\ t[j].key # None => j # i /\ t2[j].key # None
                         /\ t[j].key # k
    BY <1>1, <2>2, <2>5, <2>6 DEF Holds
  <2>9. \A j, m \in Slots : t2[j].key # None /\ t2[j].key = t2[m].key => j = m
    BY <2>8 DEF Whole
  <2>10. \A j \in Slots : t2[j].key # None => t2[j].name = s2[t2[j].key]
    BY <1>2, <1>3, <2>5, <2>8 DEF Whole
  <2>11. ASSUME NEW j \in Slots, t2[j].key # None
         PROVE  Reaches(t2, j)
    <3>1. CASE j = i
      <4>1. \A e \in 0 .. d - 1 : e \in Slots /\ t[Probe(k, e)].key # None
        BY <2>2, SrvidAssumption DEF Passes, Slots
      <4>2. \A e \in 0 .. d - 1 : t2[Probe(k, e)].key # None
        BY <2>8, <4>1, ProbeIn
      <4> QED
        BY <2>2, <2>8, <3>1, <4>2 DEF Reaches, i
    <3>2. CASE j # i
      <4>1. t[j].key = t2[j].key /\ t[j].key \in Keys /\ Reaches(t, j)
        BY <1>3, <2>8, <2>11, <3>2 DEF Whole
      <4>2. PICK x \in Slots :
              /\ Probe(t[j].key, x) = j
              /\ \A e \in 0 .. x - 1 : t[Probe(t[j].key, e)].key # None
        BY <4>1 DEF Reaches
      <4>3. \A e \in 0 .. x - 1 : e \in Slots
        BY SrvidAssumption DEF Slots
      <4>4. \A e \in 0 .. x - 1 : t2[Probe(t[j].key, e)].key # None
        BY <2>8, <4>1, <4>2, <4>3, ProbeIn
      <4> QED
        BY <4>1, <4>2, <4>4 DEF Reaches
    <3> QED
      BY <3>1, <3>2
  <2>12. \A m \in Keys : s2[m] # None => Holds(t2, m) \/ Full(t2)
    <3>1. Holds(t2, k)
      BY <2>3, <2>8 DEF Holds
    <3>2. ASSUME NEW m \in Keys, m # k, s2[m] # None
          PROVE  Holds(t2, m)
      <4>1. Holds(t, m)
        BY <1>2, <2>2, <2>3, <3>2 DEF Whole, Full
      <4> QED
        BY <1>1, <2>8, <4>1, SrvidAssumption DEF Holds
    <3> QED
      BY <3>1, <3>2
  <2>13. Whole(t2, s2)
    BY <2>9, <2>10, <2>11, <2>12 DEF Whole
  <2> QED
    BY <2>3, <2>7, <2>13
<1> QED
  BY <1>5, <1>6

(* A lookup in a whole table.                                              *)
LEMMA LookupInWhole ==
  ASSUME NEW t \in [Slots -> Entry], NEW s \in [Keys -> Names \cup {None}],
         Whole(t, s), NEW k \in Keys \ Halves
  PROVE  LET named == {m \in Keys : s[m] # None}
             n == srvid_lookup(t, k)
         IN  /\ n \in {s[k], None}
             /\ Cardinality(named) <= Size => n = s[k]
<1> DEFINE named == {m \in Keys : s[m] # None}
<1>1. k # None /\ \A i \in Slots : t[i].key # None => t[i].key \in named
  <2>1. \A i \in Slots : t[i] \in Entry
    OBVIOUS
  <2> QED
    BY <2>1, SrvidAssumption DEF Entry, Empty, Whole
<1>2. CASE FoundAt(t, k) # {}
  <2>1. PICK d \in FoundAt(t, k) : srvid_lookup(t, k) = t[Probe(k, d)].name
    BY <1>2 DEF srvid_lookup
  <2>2. Probe(k, d) \in Slots /\ t[Probe(k, d)].key = k
    BY <2>1, ProbeIn DEF FoundAt
  <2> QED
    BY <1>1, <2>1, <2>2 DEF Whole
<1>3. CASE FoundAt(t, k) = {}
  <2>1. srvid_lookup(t, k) = None
    BY <1>3 DEF srvid_lookup
  <2>2. ASSUME s[k] # None
        PROVE  ~(Cardinality(named) <= Size)
    <3>1. Full(t) /\ ~Holds(t, k)
      BY <1>3, <2>2, HeldIsFound DEF Whole
    <3> DEFINE f == [i \in Slots |-> t[i].key]
               others == named \ {k}
    <3>2. f \in Injection(Slots, others)
      <4>1. f \in [Slots -> others]
        BY <1>1, <3>1 DEF Full, Holds
      <4>2. \A i, j \in Slots : f[i] = f[j] => i = j
        BY <3>1 DEF Full, Whole
      <4> QED
        BY <4>1, <4>2 DEF Injection, IsInjective
    <3>3. IsFiniteSet(named)
      BY FS_Subset, SrvidAssumption
    <3>4. IsFiniteSet(others) /\ Cardinality(others) = Cardinality(named) - 1
      BY <2>2, <3>3, FS_RemoveElement
    <3>5. Cardinality(Slots) = Size
      BY FS_Interval, SrvidAssumption DEF Slots
    <3>6. Cardinality(Slots) <= Cardinality(others)
      BY <3>2, <3>4, FS_Injection
    <3>7. Cardinality(named) \in Nat /\ Size \in Nat
      BY <3>3, FS_CardinalityType, SrvidAssumption
    <3> QED
      BY <3>4, <3>5, <3>6, <3>7
  <2> QED
    BY <2>1, <2>2
<1> QED
  BY <1>2, <1>3

-----------------------------------------------------------------------------
LEMMA BlankIsWhole == Whole(Blank, Nothing) /\ Blank \in [Slots -> Entry]
<1>1. \A i \in Slots : Blank[i].key = None
  BY DEF Blank, Empty
<1>2. Blank \in [Slots -> Entry]
  BY DEF Blank, Entry
<1> QED
  BY <1>1, <1>2 DEF Whole, Nothing

(* One block becomes whole again, the others are as they were.             *)
LEMMA BlockStep ==
  ASSUME TypeOK, \A b \in Blocks : Whole(tbl[b], said[b]),
         NEW x \in Blocks, NEW t \in [Slots -> Entry],
         NEW s \in [Keys -> Names \cup {None}], Whole(t, s),
         tbl' = [tbl EXCEPT ![x] = t], said' = [said EXCEPT ![x] = s]
  PROVE  /\ \A b \in Blocks : Whole(tbl'[b], said'[b])
         /\ tbl' \in [Blocks -> [Slots -> Entry]]
         /\ said' \in [Blocks -> [Keys -> Names \cup {None}]]
<1>1. \A b \in Blocks : /\ tbl'[b] = IF b = x THEN t ELSE tbl[b]
                        /\ said'[b] = IF b = x THEN s ELSE said[b]
  BY DEF TypeOK
<1>2. ASSUME NEW b \in Blocks
      PROVE  Whole(tbl'[b], said'[b])
  BY <1>1
<1> QED
  BY <1>2 DEF TypeOK

LEMMA TablesStep ==
  ASSUME IndInv, [Next]_vars
  PROVE  /\ \A b \in Blocks : Whole(tbl'[b], said'[b])
         /\ tbl' \in [Blocks -> [Slots -> Entry]]
         /\ said' \in [Blocks -> [Keys -> Names \cup {None}]]
<1>1. TypeOK /\ \A b \in Blocks : Whole(tbl[b], said[b])
  BY DEF IndInv
<1>2. ASSUME UNCHANGED <<tbl, said>>
      PROVE  /\ \A b \in Blocks : Whole(tbl'[b], said'[b])
             /\ tbl' \in [Blocks -> [Slots -> Entry]]
             /\ said' \in [Blocks -> [Keys -> Names \cup {None}]]
  BY <1>1, <1>2 DEF TypeOK
<1>3. Nothing \in [Keys -> Names \cup {None}]
  BY DEF Nothing
<1>4. ASSUME NEW b \in Blocks, tbl' = [tbl EXCEPT ![b] = Blank],
             said' = [said EXCEPT ![b] = Nothing]
      PROVE  /\ \A c \in Blocks : Whole(tbl'[c], said'[c])
             /\ tbl' \in [Blocks -> [Slots -> Entry]]
             /\ said' \in [Blocks -> [Keys -> Names \cup {None}]]
  BY <1>1, <1>3, <1>4, BlankIsWhole, BlockStep
<1>5. ASSUME NEW l \in Loaders, ReadKey(l)
      PROVE  /\ \A b \in Blocks : Whole(tbl'[b], said'[b])
             /\ tbl' \in [Blocks -> [Slots -> Entry]]
             /\ said' \in [Blocks -> [Keys -> Names \cup {None}]]
  <2> DEFINE b == newtbl[l]
  <2>1. PICK k \in Keys, n \in Names :
          /\ tbl' = [tbl EXCEPT ![b] = tbl_insert(@, k, n)]
          /\ said' = [said EXCEPT ![b][k] = IF @ = None THEN n ELSE @]
    BY <1>5 DEF ReadKey
  <2>2. b \in Blocks
    BY <1>1, <1>5 DEF ReadKey, IndInv, TypeOK
  <2> DEFINE t == tbl_insert(tbl[b], k, n)
             s == Said(said[b], k, n)
  <2>3. tbl[b] \in [Slots -> Entry] /\ said[b] \in [Keys -> Names \cup {None}]
        /\ Whole(tbl[b], said[b])
    BY <1>1, <2>2 DEF TypeOK
  <2>4. Whole(t, s) /\ t \in [Slots -> Entry]
    BY <2>3, InsertKeepsWhole
  <2>5. s \in [Keys -> Names \cup {None}]
    BY <2>3 DEF Said
  <2>6. tbl' = [tbl EXCEPT ![b] = t] /\ said' = [said EXCEPT ![b] = s]
    BY <2>1 DEF Said
  <2> HIDE DEF t, s, b
  <2> QED
    BY <1>1, <2>2, <2>4, <2>5, <2>6, BlockStep
<1>6. ASSUME NEW l \in Loaders, Open(l)
      PROVE  \E b \in Blocks : /\ tbl' = [tbl EXCEPT ![b] = Blank]
                               /\ said' = [said EXCEPT ![b] = Nothing]
  BY <1>6 DEF Open
<1>7. ASSUME NEW l \in Loaders, Publish(l)
      PROVE  UNCHANGED <<tbl, said>>
  BY <1>7 DEF Publish
<1>8. ASSUME NEW l \in Loaders, FreeOld(l)
      PROVE  \/ UNCHANGED <<tbl, said>>
             \/ \E b \in Blocks : /\ tbl' = [tbl EXCEPT ![b] = Blank]
                                  /\ said' = [said EXCEPT ![b] = Nothing]
  <2>1. old[l] \in Blocks \cup {None}
    BY <1>1 DEF TypeOK
  <2> QED
    BY <1>8, <2>1 DEF FreeOld
<1>9. CASE srvid_free
  <2>1. g_srvid \in Blocks
    BY <1>1, <1>9 DEF srvid_free, TypeOK
  <2> QED
    BY <1>4, <1>9, <2>1 DEF srvid_free
<1>10. CASE UNCHANGED vars
  BY <1>2, <1>10 DEF vars
<1>11. ASSUME NEW l \in Loaders, ReturnCount(l)
       PROVE  UNCHANGED <<tbl, said>>
  BY <1>11 DEF ReturnCount
<1> QED
  BY <1>2, <1>4, <1>5, <1>6, <1>7, <1>8, <1>9, <1>10, <1>11
     DEF Next, srvid_load

LEMMA OwnersStep ==
  ASSUME IndInv, [Next]_vars
  PROVE  /\ OneOwner'
         /\ \A l \in Loaders : lpc'[l] = "fill" => newtbl'[l] # None
         /\ g_srvid' \in Blocks \cup {None}
         /\ lpc' \in [Loaders -> {"idle", "fill", "free", "count"}]
         /\ newtbl' \in [Loaders -> Blocks \cup {None}]
         /\ old' \in [Loaders -> Blocks \cup {None}]
<1> USE SrvidAssumption DEF IndInv, TypeOK
<1>1. ASSUME NEW l \in Loaders, Open(l)
      PROVE  /\ OneOwner'
             /\ \A m \in Loaders : lpc'[m] = "fill" => newtbl'[m] # None
             /\ UNCHANGED <<g_srvid, old>>
             /\ lpc' \in [Loaders -> {"idle", "fill", "free", "count"}]
             /\ newtbl' \in [Loaders -> Blocks \cup {None}]
  <2>1. PICK b \in Blocks \ Held : newtbl' = [newtbl EXCEPT ![l] = b]
    BY <1>1 DEF Open
  <2>2. b # None /\ b # g_srvid /\ \A m \in Loaders : b # Private(m) /\ b # old[m]
    BY <2>1 DEF Held
  <2> QED
    BY <1>1, <2>1, <2>2 DEF Open, OneOwner, Private
<1>2. ASSUME NEW l \in Loaders, Publish(l)
      PROVE  /\ OneOwner'
             /\ \A m \in Loaders : lpc'[m] = "fill" => newtbl'[m] # None
             /\ g_srvid' \in Blocks \cup {None}
             /\ lpc' \in [Loaders -> {"idle", "fill", "free", "count"}]
             /\ newtbl' \in [Loaders -> Blocks \cup {None}]
             /\ old' \in [Loaders -> Blocks \cup {None}]
  BY <1>2 DEF Publish, OneOwner, Private
<1>3. ASSUME NEW l \in Loaders, FreeOld(l)
      PROVE  /\ OneOwner'
             /\ \A m \in Loaders : lpc'[m] = "fill" => newtbl'[m] # None
             /\ UNCHANGED <<g_srvid, newtbl>>
             /\ lpc' \in [Loaders -> {"idle", "fill", "free", "count"}]
             /\ old' \in [Loaders -> Blocks \cup {None}]
  BY <1>3 DEF FreeOld, OneOwner, Private
<1>4. ASSUME NEW l \in Loaders, ReadKey(l)
      PROVE  UNCHANGED <<g_srvid, lpc, newtbl, old>>
  BY <1>4 DEF ReadKey
<1>5. CASE srvid_free
  BY <1>5 DEF srvid_free, OneOwner, Private
<1>6. CASE UNCHANGED <<g_srvid, lpc, newtbl, old>>
  BY <1>6 DEF OneOwner, Private
<1>7. ASSUME NEW l \in Loaders, ReturnCount(l)
      PROVE  /\ OneOwner'
             /\ \A m \in Loaders : lpc'[m] = "fill" => newtbl'[m] # None
             /\ UNCHANGED <<g_srvid, old>>
             /\ lpc' \in [Loaders -> {"idle", "fill", "free", "count"}]
             /\ newtbl' \in [Loaders -> Blocks \cup {None}]
  BY <1>7 DEF ReturnCount, OneOwner, Private
<1> QED
  BY <1>1, <1>2, <1>3, <1>4, <1>5, <1>6, <1>7 DEF Next, srvid_load, vars

LEMMA Invariant == Spec => []IndInv
<1>1. Init => IndInv
  <2> SUFFICES ASSUME Init PROVE IndInv
    OBVIOUS
  <2>1. TypeOK
    BY BlankIsWhole DEF Init, TypeOK, Nothing
  <2>2. \A b \in Blocks : Whole(tbl[b], said[b])
    BY BlankIsWhole DEF Init
  <2> QED
    BY <2>1, <2>2 DEF Init, IndInv, OneOwner, Private
<1>2. IndInv /\ [Next]_vars => IndInv'
  <2> SUFFICES ASSUME IndInv, [Next]_vars PROVE IndInv'
    OBVIOUS
  <2> QED
    BY TablesStep, OwnersStep DEF IndInv, TypeOK
<1> QED
  BY <1>1, <1>2, PTL DEF Spec

(* The variables have their types in every reachable state.                *)
THEOREM TypeCorrect == Spec => []TypeOK
  BY Invariant, PTL DEF IndInv

(* No table is freed twice, nor while it is the one in use or is being     *)
(* filled, however the loads of main() and of the web pages overlap.  Of   *)
(* the late read of its count it says nothing.                             *)
THEOREM OwnerCorrect == Spec => []OneOwner
  BY Invariant, PTL DEF IndInv

(* A lookup answers what the file said, for every size of the table, every *)
(* hash and every file.                                                    *)
THEOREM LookupCorrect == Spec => []LookupExact
<1>1. ASSUME IndInv
      PROVE  LookupExact
  <2> SUFFICES ASSUME g_srvid # None, NEW k \in Keys \ Halves
               PROVE  LET n == srvid_lookup(tbl[g_srvid], k)
                      IN  /\ n \in {said[g_srvid][k], None}
                          /\ Cardinality(Named(g_srvid)) <= Size
                               => n = said[g_srvid][k]
    BY DEF LookupExact
  <2>1. g_srvid \in Blocks
    BY <1>1 DEF IndInv, TypeOK
  <2>2. /\ tbl[g_srvid] \in [Slots -> Entry]
        /\ said[g_srvid] \in [Keys -> Names \cup {None}]
        /\ Whole(tbl[g_srvid], said[g_srvid])
    BY <1>1, <2>1 DEF IndInv, TypeOK
  <2> QED
    BY <2>2, LookupInWhole DEF Named
<1> QED
  BY <1>1, Invariant, PTL
=============================================================================
