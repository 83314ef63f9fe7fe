------------------------- MODULE ConnectionsProofs -------------------------
(***************************************************************************)
(* Proofs of the safety properties of Connections for any number of        *)
(* connections and any limits.                                             *)
(*                                                                         *)
(* The inductive invariant adds to the checked properties that the         *)
(* connections let past the limit, threads and those a listener still      *)
(* holds together, never exceed it (GrantBounded): the value a fetch_add   *)
(* returned is the exact number of counted connections at that instant.    *)
(* With it the registry is never full, and every registered client is in   *)
(* one slot (RegistryExact).  The last part counts the steps that a thread *)
(* has left when it was told to end (OnlyForward).                         *)
(***************************************************************************)
EXTENDS Connections, FiniteSetTheorems, TLAPS

(* The connections the limit has let through.                              *)
Granted == {c \in Counted : ~(st[c] = "counted" /\ OverLimit(c))}

GrantBounded == Cardinality(Granted) <= MaxConns

NoDangling ==
  \A i \in Slots : clients[i] # None => clients[i] \in Registered

RegistryExact ==
  /\ NoDangling
  /\ \A c \in Registered : \E i \in Slots : clients[i] = c
  /\ \A i, j \in Slots : clients[i] = clients[j] /\ clients[i] # None => i = j

Stopped(l) == srv[l] = "closed" /\ lpc[l] = "exited"

ShutdownOrder ==
  /\ mpc \in {"newcamd", "drain", "freed"} => Stopped("cccam")
  /\ mpc \in {"drain", "freed"} => Stopped("newcamd")
  /\ mpc = "freed" /\ waited < DrainMax => activeConns = 0

IndInv ==
  /\ TypeOK
  /\ CounterExact
  /\ GrantBounded
  /\ RegistryExact
  /\ ShutdownOrder

-----------------------------------------------------------------------------
LEMMA ConnSetsFinite ==
  ASSUME NEW S \in SUBSET Conns
  PROVE  IsFiniteSet(S) /\ Cardinality(S) \in Nat
<1>1. IsFiniteSet(S)
  BY FS_Subset, ConnsAssumption
<1> QED
  BY <1>1, FS_CardinalityType

(* A step leaves the counted connections alone, adds one or takes one out, *)
(* and g_active_conns moves with them.                                     *)
LEMMA CountedStep ==
  ASSUME TypeOK, [Next]_vars
  PROVE  \/ Counted' = Counted /\ activeConns' = activeConns
         \/ \E c \in Conns \ Counted :
              Counted' = Counted \cup {c} /\ activeConns' = activeConns + 1
         \/ \E c \in Counted :
              Counted' = Counted \ {c} /\ activeConns' = activeConns - 1
<1> USE DEF TypeOK, Counted, ConnStates
<1>1. ASSUME NEW l \in Listeners, NEW c \in Conns, Accept(l, c)
      PROVE  c \notin Counted /\ Counted' = Counted \cup {c}
             /\ activeConns' = activeConns + 1
  BY <1>1 DEF Accept
<1>2. ASSUME NEW l \in Listeners, NEW c \in Conns, Drop(l, c)
      PROVE  c \in Counted /\ Counted' = Counted \ {c}
             /\ activeConns' = activeConns - 1
  BY <1>2 DEF Drop, Holds
<1>3. ASSUME NEW c \in Conns, Finish(c)
      PROVE  c \in Counted /\ Counted' = Counted \ {c}
             /\ activeConns' = activeConns - 1
  BY <1>3 DEF Finish
<1>4. ASSUME NEW l \in Listeners, NEW c \in Conns, Spawn(l, c)
      PROVE  Counted' = Counted /\ activeConns' = activeConns
  BY <1>4 DEF Spawn, Holds
<1>5. ASSUME NEW c \in Conns, Register(c) \/ LoopTop(c) \/ Unregister(c)
      PROVE  Counted' = Counted /\ activeConns' = activeConns
  BY <1>5 DEF Register, LoopTop, Unregister
<1>6. ASSUME NEW c \in Conns, Handshake(c) \/ Serve(c)
      PROVE  Counted' = Counted /\ activeConns' = activeConns
  BY <1>6 DEF Handshake, Serve
<1>7. ASSUME NEW l \in Listeners, ListenerTop(l) \/ ListenerIdles(l)
      PROVE  Counted' = Counted /\ activeConns' = activeConns
  BY <1>7 DEF ListenerTop, ListenerIdles
<1>8. ASSUME Main \/ StopRequest \/ Terminated \/ (\E c \in Conns : Kill(c))
             \/ UNCHANGED vars
      PROVE  Counted' = Counted /\ activeConns' = activeConns
  BY <1>8 DEF Main, LeaveMainLoop, ClearFlag, CloseSocket, Join, DrainWait,
              FreeAccounts, StopRequest, Terminated, Kill, vars
<1> QED
  BY <1>1, <1>2, <1>3, <1>4, <1>5, <1>6, <1>7, <1>8
     DEF Next, Listen, Handle, Reject, SpawnFails

LEMMA CounterStep ==
  ASSUME TypeOK, CounterExact, [Next]_vars
  PROVE  CounterExact' /\ activeConns' \in Nat
<1>1. Counted \in SUBSET Conns /\ Counted' \in SUBSET Conns
  BY DEF Counted
<1>2. IsFiniteSet(Counted) /\ Cardinality(Counted) \in Nat
      /\ Cardinality(Counted') \in Nat
  BY <1>1, ConnSetsFinite
<1>3. CASE Counted' = Counted /\ activeConns' = activeConns
  BY <1>2, <1>3 DEF CounterExact
<1>4. ASSUME NEW c \in Conns \ Counted,
             Counted' = Counted \cup {c}, activeConns' = activeConns + 1
      PROVE  CounterExact' /\ activeConns' \in Nat
  BY <1>2, <1>4, FS_AddElement DEF CounterExact
<1>5. ASSUME NEW c \in Counted,
             Counted' = Counted \ {c}, activeConns' = activeConns - 1
      PROVE  CounterExact' /\ activeConns' \in Nat
  <2>1. Cardinality(Counted') = Cardinality(Counted) - 1
    BY <1>2, <1>5, FS_RemoveElement
  <2> QED
    BY <1>2, <1>5, <2>1 DEF CounterExact
<1> QED
  BY <1>3, <1>4, <1>5, CountedStep

LEMMA TypeStep ==
  ASSUME TypeOK, CounterExact, [Next]_vars
  PROVE  TypeOK'
<1>1. activeConns' \in Nat
  BY CounterStep
<1> USE <1>1 DEF TypeOK, ConnStates, MainStates, Listeners
<1>2. ASSUME NEW l \in Listeners, ListenerTop(l) \/ ListenerIdles(l)
      PROVE  TypeOK'
  BY <1>2 DEF ListenerTop, ListenerIdles, mainVars
<1>3. ASSUME NEW l \in Listeners, NEW c \in Conns,
             Accept(l, c) \/ Drop(l, c) \/ Spawn(l, c)
      PROVE  TypeOK'
  <2>1. CASE Accept(l, c)
    BY <2>1 DEF Accept, mainVars
  <2>2. CASE Drop(l, c)
    BY <2>2 DEF Drop, mainVars
  <2>3. CASE Spawn(l, c)
    BY <2>3 DEF Spawn, mainVars
  <2> QED
    BY <1>3, <2>1, <2>2, <2>3
<1>4. ASSUME NEW c \in Conns, Register(c)
      PROVE  TypeOK'
  BY <1>4 DEF Register, FreeSlots, mainVars, listenerVars
<1>5. ASSUME NEW c \in Conns, Handshake(c) \/ LoopTop(c) \/ Serve(c)
      PROVE  TypeOK'
  BY <1>5 DEF Handshake, LoopTop, Serve, mainVars, listenerVars
<1>6. ASSUME NEW c \in Conns, Unregister(c) \/ Finish(c) \/ Kill(c)
      PROVE  TypeOK'
  BY <1>6 DEF Unregister, Finish, Kill, mainVars, listenerVars
<1>7. CASE StopRequest
  BY <1>7 DEF StopRequest, listenerVars
<1>8. CASE Main
  BY <1>8, DrainAssumption
     DEF Main, LeaveMainLoop, ClearFlag, CloseSocket, Join, DrainWait,
         Draining, FreeAccounts, mainVars, listenerVars
<1>9. CASE Terminated \/ UNCHANGED vars
  BY <1>9 DEF Terminated, vars
<1> QED
  BY <1>2, <1>3, <1>4, <1>5, <1>6, <1>7, <1>8, <1>9
     DEF Next, Listen, Handle, Reject, SpawnFails

(* Only Accept can let another connection through, and then it counted     *)
(* fewer than MAX_CONNS connections, this one excluded.                    *)
LEMMA GrantStep ==
  ASSUME TypeOK, CounterExact, GrantBounded, [Next]_vars
  PROVE  GrantBounded'
<1>1. CounterExact' /\ activeConns \in Nat
  BY CounterStep DEF TypeOK
<1>2. /\ Granted \in SUBSET Conns /\ Granted' \in SUBSET Conns
      /\ Counted' \in SUBSET Conns /\ Granted' \subseteq Counted'
  BY DEF Granted, Counted
<1>3. ASSUME Granted' \subseteq Granted
      PROVE  GrantBounded'
  <2>1. Cardinality(Granted') <= Cardinality(Granted)
    BY <1>2, <1>3, ConnSetsFinite, FS_Subset
  <2> QED
    BY <1>2, <2>1, ConnSetsFinite, LimitsAssumption DEF GrantBounded
<1>4. ASSUME NEW l \in Listeners, NEW c \in Conns, Accept(l, c)
      PROVE  GrantBounded'
  <2>1. CASE activeConns >= MaxConns
    <3>1. Granted' \subseteq Granted
      BY <1>4, <2>1 DEF Accept, Granted, Counted, OverLimit, TypeOK
    <3> QED
      BY <3>1, <1>3
  <2>2. CASE ~(activeConns >= MaxConns)
    <3>1. activeConns' <= MaxConns
      BY <1>1, <1>4, <2>2, LimitsAssumption DEF Accept
    <3>2. Cardinality(Granted') <= Cardinality(Counted')
      BY <1>2, ConnSetsFinite, FS_Subset
    <3>3. Cardinality(Granted') \in Nat
      BY <1>2, ConnSetsFinite
    <3> QED
      BY <1>1, <3>1, <3>2, <3>3, LimitsAssumption, CounterStep
         DEF GrantBounded, CounterExact
  <2> QED
    BY <2>1, <2>2
<1> USE DEF Granted, Counted, OverLimit, TypeOK, ConnStates
<1>5. ASSUME NEW l \in Listeners, NEW c \in Conns, Drop(l, c)
      PROVE  Granted' \subseteq Granted
  BY <1>5 DEF Drop, Holds
<1>6. ASSUME NEW l \in Listeners, NEW c \in Conns, Spawn(l, c)
      PROVE  Granted' \subseteq Granted
  BY <1>6 DEF Spawn, Holds
<1>7. ASSUME NEW c \in Conns, Handle(c)
      PROVE  Granted' \subseteq Granted
  <2>1. CASE Register(c)
    BY <2>1 DEF Register
  <2>2. CASE Handshake(c)
    BY <2>2 DEF Handshake
  <2>3. CASE LoopTop(c) \/ Serve(c)
    BY <2>3 DEF LoopTop, Serve
  <2>4. CASE Unregister(c) \/ Finish(c)
    BY <2>4 DEF Unregister, Finish
  <2> QED
    BY <1>7, <2>1, <2>2, <2>3, <2>4 DEF Handle
<1>8. ASSUME NEW l \in Listeners, ListenerTop(l) \/ ListenerIdles(l)
      PROVE  Granted' \subseteq Granted
  BY <1>8 DEF ListenerTop, ListenerIdles
<1>9. ASSUME Main \/ StopRequest \/ Terminated \/ (\E c \in Conns : Kill(c))
             \/ UNCHANGED vars
      PROVE  Granted' \subseteq Granted
  BY <1>9 DEF Main, LeaveMainLoop, ClearFlag, CloseSocket, Join, DrainWait,
              FreeAccounts, StopRequest, Terminated, Kill, vars
<1> QED
  BY <1>3, <1>4, <1>5, <1>6, <1>7, <1>8, <1>9
     DEF Next, Listen, Reject, SpawnFails

(* A handler about to register finds a slot: the registered clients and it *)
(* are within the limit, so they are fewer than the slots.                 *)
LEMMA SlotForNewClient ==
  ASSUME TypeOK, GrantBounded, RegistryExact, NEW c \in Conns,
         st[c] = "started"
  PROVE  FreeSlots # {}
<1>1. SUFFICES ASSUME FreeSlots = {}
               PROVE  FALSE
  OBVIOUS
<1>2. /\ Registered \in SUBSET Conns /\ Granted \in SUBSET Conns
      /\ c \in Granted /\ c \notin Registered
      /\ Registered \cup {c} \subseteq Granted
  BY DEF Registered, Granted, Counted, TypeOK, ConnStates
<1>3. /\ IsFiniteSet(Registered) /\ Cardinality(Registered) \in Nat
      /\ IsFiniteSet(Granted) /\ Cardinality(Granted) \in Nat
  BY <1>2, ConnSetsFinite
<1>4. Cardinality(Registered \cup {c}) = Cardinality(Registered) + 1
  BY <1>2, <1>3, FS_AddElement
<1>5. Cardinality(Registered \cup {c}) <= Cardinality(Granted)
  BY <1>2, <1>3, FS_Subset
<1>6. IsFiniteSet(Slots) /\ Cardinality(Slots) = MaxClients
  BY FS_Interval, LimitsAssumption DEF Slots
<1>7. Cardinality(Registered) < Cardinality(Slots)
  BY <1>3, <1>4, <1>5, <1>6, LimitsAssumption DEF GrantBounded
<1>8. clients \in [Slots -> Registered]
  BY <1>1 DEF TypeOK, FreeSlots, RegistryExact, NoDangling
<1>9. \E i, j \in Slots : i # j /\ clients[i] = clients[j]
  BY <1>3, <1>6, <1>7, <1>8, FS_PigeonHole
<1> QED
  BY <1>1, <1>9 DEF FreeSlots, RegistryExact, TypeOK

LEMMA RegistryStep ==
  ASSUME TypeOK, GrantBounded, RegistryExact, [Next]_vars
  PROVE  RegistryExact'
<1>1. ASSUME NEW c \in Conns, Register(c)
      PROVE  RegistryExact'
  <2>1. PICK i \in FreeSlots : clients' = [clients EXCEPT ![i] = c]
    BY <1>1, SlotForNewClient DEF Register
  <2>2. /\ i \in Slots /\ clients[i] = None
        /\ st' = [st EXCEPT ![c] = "handshake"] /\ st[c] = "started"
    BY <1>1, <2>1 DEF Register, FreeSlots
  <2>3. Registered' = Registered \cup {c} /\ c \notin Registered /\ c # None
    BY <2>2, ConnsAssumption DEF Registered, TypeOK
  <2>4. \A j \in Slots : clients[j] # c
    BY <2>3 DEF RegistryExact, NoDangling
  <2>5. NoDangling'
    BY <2>1, <2>2, <2>3 DEF RegistryExact, NoDangling, TypeOK
  <2>6. \A d \in Registered' : \E j \in Slots : clients'[j] = d
    <3>1. clients'[i] = c
      BY <2>1, <2>2 DEF TypeOK
    <3>2. ASSUME NEW d \in Registered
          PROVE  \E j \in Slots : clients'[j] = d
      <4>1. PICK j \in Slots : clients[j] = d
        BY DEF RegistryExact
      <4>2. j # i
        BY <2>2, <4>1, ConnsAssumption DEF Registered
      <4> QED
        BY <2>1, <2>2, <4>1, <4>2 DEF TypeOK
    <3> QED
      BY <2>2, <2>3, <3>1, <3>2
  <2>7. \A j, k \in Slots :
          clients'[j] = clients'[k] /\ clients'[j] # None => j = k
    BY <2>1, <2>2, <2>4 DEF RegistryExact, TypeOK
  <2> QED
    BY <2>5, <2>6, <2>7 DEF RegistryExact
<1>2. ASSUME NEW c \in Conns, Unregister(c)
      PROVE  RegistryExact'
  <2>1. st' = [st EXCEPT ![c] = "unlinked"] /\ st[c] = "left"
    BY <1>2 DEF Unregister
  <2>2. Registered' = Registered \ {c} /\ c \in Registered
    BY <2>1 DEF Registered, TypeOK
  <2>3. PICK i \in Slots : clients[i] = c
    BY <2>2 DEF RegistryExact
  <2>4. {j \in Slots : clients[j] = c} = {i}
    BY <2>3, ConnsAssumption DEF RegistryExact
  <2>5. \A j \in {i} : i <= j
    BY <2>3 DEF Slots
  <2>6. clients' = [j \in Slots |-> IF j = i THEN None ELSE clients[j]]
    BY <1>2, <2>4, <2>5 DEF Unregister
  <2> QED
    BY <2>2, <2>3, <2>4, <2>6, ConnsAssumption
       DEF RegistryExact, NoDangling, TypeOK
<1>3. ASSUME Registered' = Registered, clients' = clients
      PROVE  RegistryExact'
  BY <1>3 DEF RegistryExact, NoDangling
<1>4. ASSUME NEW c \in Conns, Handshake(c) \/ LoopTop(c) \/ Serve(c)
      PROVE  Registered' = Registered /\ clients' = clients
  BY <1>4 DEF Handshake, LoopTop, Serve, Registered, TypeOK
<1>5. ASSUME NEW c \in Conns, Finish(c) \/ Kill(c)
      PROVE  Registered' = Registered /\ clients' = clients
  BY <1>5 DEF Finish, Kill, Registered, TypeOK
<1>6. ASSUME NEW l \in Listeners, Listen(l)
      PROVE  Registered' = Registered /\ clients' = clients
  BY <1>6 DEF Listen, ListenerTop, ListenerIdles, Accept, Reject, SpawnFails,
              Spawn, Drop, Holds, Registered, TypeOK
<1>7. ASSUME Main \/ StopRequest \/ Terminated \/ UNCHANGED vars
      PROVE  Registered' = Registered /\ clients' = clients
  BY <1>7 DEF Main, LeaveMainLoop, ClearFlag, CloseSocket, Join, DrainWait,
              FreeAccounts, StopRequest, Terminated, Registered, vars
<1> QED
  BY <1>1, <1>2, <1>3, <1>4, <1>5, <1>6, <1>7 DEF Next, Handle

(* A joined listener neither runs nor accepts again.                       *)
LEMMA ShutdownStep ==
  ASSUME TypeOK, CounterExact, ShutdownOrder, [Next]_vars
  PROVE  ShutdownOrder'
<1> USE DEF TypeOK, ShutdownOrder, Stopped, Listeners, MainStates
<1>1. ASSUME NEW l \in Listeners, ListenerTop(l) \/ ListenerIdles(l)
      PROVE  ShutdownOrder'
  BY <1>1 DEF ListenerTop, ListenerIdles, mainVars
<1>2. ASSUME NEW l \in Listeners, NEW c \in Conns,
             Accept(l, c) \/ Drop(l, c) \/ Spawn(l, c)
      PROVE  ShutdownOrder'
  BY <1>2 DEF Accept, Drop, Spawn, Holds, mainVars
<1>3. ASSUME NEW c \in Conns, Finish(c)
      PROVE  ShutdownOrder'
  <2>1. c \in Counted
    BY <1>3 DEF Finish, Counted, ConnStates
  <2>2. activeConns # 0
    BY <2>1, ConnSetsFinite, FS_EmptySet DEF CounterExact, Counted
  <2> QED
    BY <1>3, <2>2 DEF Finish, mainVars, listenerVars
<1>4. ASSUME NEW c \in Conns, Handshake(c) \/ LoopTop(c) \/ Serve(c)
                              \/ Kill(c)
      PROVE  ShutdownOrder'
  BY <1>4 DEF Handshake, LoopTop, Serve, Kill, mainVars, listenerVars
<1>5. ASSUME NEW c \in Conns, Register(c) \/ Unregister(c)
      PROVE  ShutdownOrder'
  BY <1>5 DEF Register, Unregister, mainVars, listenerVars
<1>6. CASE StopRequest \/ Terminated \/ UNCHANGED vars
  BY <1>6 DEF StopRequest, Terminated, vars, mainVars, listenerVars
<1>7. CASE Main
  BY <1>7, DrainAssumption
     DEF Main, LeaveMainLoop, ClearFlag, CloseSocket, Join, DrainWait,
         Draining, FreeAccounts, mainVars, listenerVars
<1> QED
  BY <1>1, <1>2, <1>3, <1>4, <1>5, <1>6, <1>7
     DEF Next, Listen, Handle, Reject, SpawnFails

LEMMA InitIndInv == Init => IndInv
<1> SUFFICES ASSUME Init
             PROVE  IndInv
  OBVIOUS
<1> USE DEF Init
<1>1. Counted = {} /\ Granted = {} /\ Registered = {}
  BY DEF Counted, Granted, Registered
<1>2. CounterExact /\ GrantBounded
  BY <1>1, FS_EmptySet, LimitsAssumption DEF CounterExact, GrantBounded
<1>3. TypeOK
  BY DrainAssumption DEF TypeOK, ConnStates, MainStates
<1>4. RegistryExact
  BY <1>1 DEF RegistryExact, NoDangling
<1> QED
  BY <1>2, <1>3, <1>4 DEF IndInv, ShutdownOrder

LEMMA NextIndInv == IndInv /\ [Next]_vars => IndInv'
BY CounterStep, TypeStep, GrantStep, RegistryStep, ShutdownStep DEF IndInv

LEMMA SpecIndInv == Spec => []IndInv
BY InitIndInv, NextIndInv, PTL DEF Spec

-----------------------------------------------------------------------------
(* The variables keep their types; g_active_conns never drops below zero.  *)
THEOREM TypeCorrect == Spec => []TypeOK
<1>1. IndInv => TypeOK
  BY DEF IndInv
<1> QED
  BY SpecIndInv, <1>1, PTL

(* g_active_conns is the number of counted connections, whatever the       *)
(* listeners and handlers do.                                              *)
THEOREM CounterCorrect == Spec => []CounterExact
<1>1. IndInv => CounterExact
  BY DEF IndInv
<1> QED
  BY SpecIndInv, <1>1, PTL

(* No more than MAX_CONNS handlers run, although the listeners add before  *)
(* they compare.                                                           *)
THEOREM CapacityCorrect == Spec => []CapacityRespected
<1>1. IndInv => CapacityRespected
  <2> SUFFICES ASSUME IndInv
               PROVE  Cardinality(Handlers) <= MaxConns
    BY DEF CapacityRespected
  <2>1. Handlers \subseteq Granted /\ Granted \in SUBSET Conns
        /\ Handlers \in SUBSET Conns
    BY DEF Handlers, Granted, Counted
  <2>2. Cardinality(Handlers) <= Cardinality(Granted)
    BY <2>1, ConnSetsFinite, FS_Subset
  <2> QED
    BY <2>1, <2>2, ConnSetsFinite, LimitsAssumption DEF IndInv, GrantBounded
<1> QED
  BY SpecIndInv, <1>1, PTL

(* With no more places than slots, every registered handler is in exactly  *)
(* one slot of g_clients and no slot points at a handler that is gone.     *)
THEOREM RegistryCorrect == Spec => []RegistryComplete
<1>1. IndInv => RegistryComplete
  <2> SUFFICES ASSUME IndInv, NEW c \in Registered
               PROVE  Cardinality({i \in Slots : clients[i] = c}) = 1
    BY DEF RegistryComplete, IndInv, RegistryExact, NoDangling
  <2>1. PICK i \in Slots : clients[i] = c
    BY DEF IndInv, RegistryExact
  <2>2. {j \in Slots : clients[j] = c} = {i}
    BY <2>1, ConnsAssumption DEF IndInv, RegistryExact, Registered
  <2> QED
    BY <2>2, FS_Singleton
<1> QED
  BY SpecIndInv, <1>1, PTL

(* Unless main() ran out of rounds, it frees the accounts with no handler  *)
(* left, and none starts later.                                            *)
THEOREM FreeCorrect == Spec => []FreedWhenQuiet
<1>1. IndInv => FreedWhenQuiet
  BY ConnSetsFinite, FS_EmptySet
     DEF IndInv, ShutdownOrder, CounterExact, Counted, FreedWhenQuiet
<1> QED
  BY SpecIndInv, <1>1, PTL

(* Once both listeners are joined, what main() waits on only goes down.    *)
DrainOnlyShrinks ==
  [][(mpc \in {"drain", "freed"}) => (activeConns' <= activeConns)]_vars

(* After the joins no connection is counted any more.                      *)
THEOREM DrainCorrect == Spec => DrainOnlyShrinks
<1>1. IndInv /\ [Next]_vars
        => [(mpc \in {"drain", "freed"}) => (activeConns' <= activeConns)]_vars
  <2> SUFFICES ASSUME IndInv, [Next]_vars, mpc \in {"drain", "freed"}
               PROVE  activeConns' <= activeConns
    OBVIOUS
  <2> USE DEF IndInv, TypeOK, ShutdownOrder, Stopped
  <2>1. ASSUME NEW l \in Listeners, Listen(l)
        PROVE  FALSE
    BY <2>1 DEF Listen, ListenerTop, ListenerIdles, Accept, Reject,
                SpawnFails, Drop, Spawn, Holds, Listeners
  <2>2. ASSUME NEW c \in Conns, Handle(c) \/ Kill(c)
        PROVE  activeConns' <= activeConns
    BY <2>2 DEF Handle, Register, Handshake, LoopTop, Serve, Unregister,
                Finish, Kill
  <2>3. ASSUME Main \/ StopRequest \/ Terminated \/ UNCHANGED vars
        PROVE  activeConns' <= activeConns
    BY <2>3 DEF Main, LeaveMainLoop, ClearFlag, CloseSocket, Join, DrainWait,
                FreeAccounts, StopRequest, Terminated, vars
  <2> QED
    BY <2>1, <2>2, <2>3 DEF Next
<1> QED
  BY SpecIndInv, <1>1, PTL DEF Spec, DrainOnlyShrinks

-----------------------------------------------------------------------------
(* The way out.  A thread that was told to end has only so many steps left *)
(* (its turns), and main() on its way through the shutdown too.            *)
HandlerTurns ==
  [s \in ConnStates |->
     CASE s = "started" -> 5
       [] s \in {"handshake", "recv"} -> 4
       [] s = "check" -> 3
       [] s = "left" -> 2
       [] s = "unlinked" -> 1
       [] OTHER -> 0]

ListenerTurns == [select |-> 3, hold |-> 2, top |-> 1, exited |-> 0]

SrvTurns == [open |-> 2, stopping |-> 1, closed |-> 0]
PhaseTurns == [serving |-> 4, cccam |-> 3, newcamd |-> 2, drain |-> 1, freed |-> 0]
MainTurns ==
  PhaseTurns[mpc] + SrvTurns[srv["cccam"]] + SrvTurns[srv["newcamd"]]
    + (DrainMax - waited)

HandlerGoes(c) ==
  c \in Handlers /\ (killFlag[c] \/ ~running) =>
    st'[c] = st[c] \/ HandlerTurns[st'[c]] < HandlerTurns[st[c]]

ListenerGoes(l) ==
  srv[l] # "open" =>
    lpc'[l] = lpc[l] \/ ListenerTurns[lpc'[l]] < ListenerTurns[lpc[l]]

MainGoes ==
  UNCHANGED <<mpc, srv, waited>> \/ MainTurns' = MainTurns - 1

Going ==
  /\ \A c \in Conns : HandlerGoes(c)
  /\ \A l \in Listeners : ListenerGoes(l)
  /\ MainGoes

(* A client that was killed, or whose server stops, is served at most one  *)
(* more message; a listener that is being stopped accepts at most one more *)
(* connection; and no step of anybody else sends them, or main() between   *)
(* the loop and the frees, back.                                           *)
OnlyForward == [][Going]_vars

(* A listener at the end of an accept has the connection it is to start or *)
(* to drop, so it is never stuck there while main() joins it.              *)
HoldsOne ==
  \A l \in Listeners : lpc[l] = "hold" => \E c \in Conns : Holds(l, c)

LEMMA HoldsOneStep ==
  ASSUME TypeOK, HoldsOne, [Next]_vars
  PROVE  HoldsOne'
<1>1. ASSUME NEW l \in Listeners, NEW c \in Conns, Accept(l, c)
      PROVE  HoldsOne'
  <2>1. /\ lpc' = [lpc EXCEPT ![l] = "hold"] /\ st' = [st EXCEPT ![c] = "counted"]
        /\ via' = [via EXCEPT ![c] = l] /\ st[c] = "idle"
    BY <1>1 DEF Accept
  <2>2. Holds(l, c)'
    BY <2>1 DEF Holds, TypeOK
  <2>3. ASSUME NEW k \in Listeners, k # l, lpc'[k] = "hold"
        PROVE  \E d \in Conns : Holds(k, d)'
    <3>1. PICK d \in Conns : Holds(k, d)
      BY <2>1, <2>3 DEF HoldsOne, TypeOK
    <3>2. d # c
      BY <2>1, <3>1 DEF Holds
    <3>3. Holds(k, d)'
      BY <2>1, <2>3, <3>1, <3>2 DEF Holds, TypeOK
    <3> QED
      BY <3>3
  <2> QED
    BY <2>2, <2>3 DEF HoldsOne
<1>2. ASSUME NEW l \in Listeners, lpc' = [lpc EXCEPT ![l] = lpc'[l]],
             lpc'[l] # "hold",
             \A k \in Listeners \ {l}, d \in Conns :
               Holds(k, d) => st'[d] = st[d] /\ via'[d] = via[d]
      PROVE  HoldsOne'
  <2>1. ASSUME NEW k \in Listeners, lpc'[k] = "hold"
        PROVE  \E d \in Conns : Holds(k, d)'
    <3>1. k # l /\ lpc[k] = "hold"
      BY <1>2, <2>1 DEF TypeOK
    <3>2. PICK d \in Conns : Holds(k, d)
      BY <3>1 DEF HoldsOne
    <3>3. Holds(k, d)'
      BY <1>2, <2>1, <3>1, <3>2 DEF Holds
    <3> QED
      BY <3>3
  <2> QED
    BY <2>1 DEF HoldsOne
<1>3. ASSUME NEW l \in Listeners, NEW c \in Conns,
             Drop(l, c) \/ Spawn(l, c)
      PROVE  HoldsOne'
  <2>1. /\ lpc' = [lpc EXCEPT ![l] = "top"] /\ via[c] = l
        /\ \A d \in Conns \ {c} : st'[d] = st[d] /\ via'[d] = via[d]
    BY <1>3 DEF Drop, Spawn, Holds, TypeOK
  <2>2. lpc' = [lpc EXCEPT ![l] = lpc'[l]] /\ lpc'[l] = "top"
    BY <2>1 DEF TypeOK
  <2> QED
    BY <1>2, <2>1, <2>2 DEF Holds
<1>4. ASSUME NEW l \in Listeners, ListenerTop(l) \/ ListenerIdles(l)
      PROVE  HoldsOne'
  <2>1. lpc' = [lpc EXCEPT ![l] = lpc'[l]] /\ lpc'[l] # "hold"
    BY <1>4 DEF ListenerTop, ListenerIdles, TypeOK
  <2>2. UNCHANGED <<st, via>>
    BY <1>4 DEF ListenerTop, ListenerIdles
  <2> QED
    BY <1>2, <2>1, <2>2
<1>5. ASSUME UNCHANGED lpc,
             \A c \in Conns : st[c] = "counted" => st'[c] = "counted"
                                                   /\ via'[c] = via[c]
      PROVE  HoldsOne'
  BY <1>5 DEF HoldsOne, Holds
<1>6. ASSUME NEW c \in Conns, Handle(c) \/ Kill(c)
      PROVE  HoldsOne'
  BY <1>5, <1>6 DEF Handle, Register, Handshake, LoopTop, Serve, Unregister,
                    Finish, Kill, listenerVars, TypeOK
<1>7. CASE Main \/ StopRequest \/ Terminated \/ UNCHANGED vars
  BY <1>5, <1>7 DEF Main, LeaveMainLoop, ClearFlag, CloseSocket, Join,
                    DrainWait, FreeAccounts, StopRequest, Terminated, vars,
                    listenerVars
<1> QED
  BY <1>1, <1>3, <1>4, <1>6, <1>7 DEF Next, Listen, Reject, SpawnFails

LEMMA GoingStep ==
  ASSUME IndInv, [Next]_vars
  PROVE  Going
<1>1. ASSUME NEW c \in Conns
      PROVE  HandlerGoes(c)
  <2> SUFFICES ASSUME c \in Handlers, killFlag[c] \/ ~running, st'[c] # st[c]
               PROVE  HandlerTurns[st'[c]] < HandlerTurns[st[c]]
    BY DEF HandlerGoes
  <2>1. st[c] \notin {"idle", "counted"} /\ st[c] \in ConnStates
    BY DEF Handlers, IndInv, TypeOK
  <2>2. PICK d \in Conns : Handle(d) \/ Kill(d) \/ \E l \in Listeners :
          Accept(l, d) \/ Drop(l, d) \/ Spawn(l, d)
    BY DEF Next, Listen, ListenerTop, ListenerIdles, Reject, SpawnFails, Main,
           LeaveMainLoop, ClearFlag, CloseSocket, Join, DrainWait, FreeAccounts,
           StopRequest, Terminated, vars
  <2>3. ASSUME NEW l \in Listeners, Accept(l, d) \/ Drop(l, d) \/ Spawn(l, d)
        PROVE  FALSE
    BY <2>1, <2>3 DEF Accept, Drop, Spawn, Holds, IndInv, TypeOK
  <2>4. Handle(d) /\ d = c
    BY <2>2, <2>3 DEF Handle, Register, Handshake, LoopTop, Serve, Unregister,
                      Finish, Kill, IndInv, TypeOK
  <2>5. \/ st[c] = "started" /\ st'[c] = "handshake"
        \/ st[c] = "handshake" /\ st'[c] \in {"check", "left"}
        \/ st[c] = "check" /\ st'[c] = "left"
        \/ st[c] = "recv" /\ st'[c] \in {"check", "left"}
        \/ st[c] = "left" /\ st'[c] = "unlinked"
        \/ st[c] = "unlinked" /\ st'[c] = "idle"
    BY <2>4 DEF Handle, Register, Handshake, LoopTop, Serve, Unregister,
                Finish, IndInv, TypeOK
  <2> QED
    BY <2>5 DEF HandlerTurns, ConnStates
<1>2. ASSUME NEW l \in Listeners
      PROVE  ListenerGoes(l)
  <2> SUFFICES ASSUME srv[l] # "open", lpc'[l] # lpc[l]
               PROVE  ListenerTurns[lpc'[l]] < ListenerTurns[lpc[l]]
    BY DEF ListenerGoes
  <2>1. PICK k \in Listeners : Listen(k)
    BY DEF Next, Handle, Register, Handshake, LoopTop, Serve, Unregister,
           Finish, Kill, Main, LeaveMainLoop, ClearFlag, CloseSocket, Join,
           DrainWait, FreeAccounts, StopRequest, Terminated, vars, listenerVars
  <2>2. k = l
    BY <2>1 DEF Listen, ListenerTop, ListenerIdles, Accept, Reject, SpawnFails,
                Drop, Spawn, IndInv, TypeOK
  <2>3. \/ lpc[l] = "top" /\ lpc'[l] = "exited"
        \/ lpc[l] = "select" /\ lpc'[l] \in {"top", "hold"}
        \/ lpc[l] = "hold" /\ lpc'[l] = "top"
    BY <2>1, <2>2 DEF Listen, ListenerTop, KeepsListening, ListenerIdles,
                      Accept, Reject, SpawnFails, Drop, Spawn, Holds, IndInv,
                      TypeOK
  <2> QED
    BY <2>3 DEF ListenerTurns
<1>3. MainGoes
  <2>1. CASE ~Main
    BY <2>1 DEF Next, Listen, ListenerTop, ListenerIdles, Accept, Reject,
                SpawnFails, Drop, Spawn, Handle, Register, Handshake, LoopTop,
                Serve, Unregister, Finish, Kill, StopRequest, Terminated, vars,
                mainVars, listenerVars, MainGoes
  <2>2. CASE Main
    <3>1. waited \in Nat /\ DrainMax \in Nat
      BY DrainAssumption DEF IndInv, TypeOK
    <3>2. CASE LeaveMainLoop \/ FreeAccounts \/ \E l \in Listeners : Join(l)
      <4>1. /\ srv' = srv /\ waited' = waited
            /\ \/ mpc = "serving" /\ mpc' = "cccam"
               \/ mpc = "drain" /\ mpc' = "freed"
               \/ mpc = "cccam" /\ mpc' = "newcamd"
               \/ mpc = "newcamd" /\ mpc' = "drain"
        BY <3>2 DEF LeaveMainLoop, FreeAccounts, Join, Listeners, listenerVars
      <4>2. SrvTurns[srv["cccam"]] \in Nat /\ SrvTurns[srv["newcamd"]] \in Nat
        BY DEF IndInv, TypeOK, Listeners, SrvTurns
      <4>3. PhaseTurns[mpc'] = PhaseTurns[mpc] - 1 /\ PhaseTurns[mpc] \in Nat
        BY <4>1 DEF PhaseTurns
      <4> QED
        BY <3>1, <4>1, <4>2, <4>3 DEF MainGoes, MainTurns
    <3>3. CASE DrainWait
      <4>1. waited' = waited + 1 /\ UNCHANGED <<srv, mpc>>
        BY <3>3 DEF DrainWait, listenerVars
      <4>2. /\ SrvTurns[srv["cccam"]] \in Nat /\ SrvTurns[srv["newcamd"]] \in Nat
            /\ PhaseTurns[mpc] \in Nat
        BY DEF IndInv, TypeOK, Listeners, SrvTurns, PhaseTurns, MainStates
      <4> QED
        BY <3>1, <4>1, <4>2 DEF MainGoes, MainTurns
    <3>4. ASSUME NEW l \in Listeners, ClearFlag(l) \/ CloseSocket(l)
          PROVE  MainGoes
      <4>1. /\ UNCHANGED <<mpc, waited>>
            /\ \A k \in Listeners : k # l => srv'[k] = srv[k]
            /\ SrvTurns[srv'[l]] = SrvTurns[srv[l]] - 1
        BY <3>4 DEF ClearFlag, CloseSocket, mainVars, IndInv, TypeOK, SrvTurns
      <4>2. /\ SrvTurns[srv["cccam"]] \in Nat /\ SrvTurns[srv["newcamd"]] \in Nat
            /\ PhaseTurns[mpc] \in Nat
        BY DEF IndInv, TypeOK, Listeners, SrvTurns, PhaseTurns, MainStates
      <4> QED
        BY <3>1, <4>1, <4>2 DEF MainGoes, MainTurns, Listeners
    <3> QED
      BY <2>2, <3>2, <3>3, <3>4 DEF Main
  <2> QED
    BY <2>1, <2>2
<1> QED
  BY <1>1, <1>2, <1>3 DEF Going

(* What ShutdownCompletes and KilledLeaves rest on besides the scheduler:  *)
(* no thread that was told to end, and no step of the shutdown, goes back. *)
THEOREM ForwardCorrect == Spec => OnlyForward
<1>1. IndInv /\ [Next]_vars => [Going]_vars
  BY GoingStep
<1> QED
  BY SpecIndInv, <1>1, PTL DEF Spec, OnlyForward

(* A listener that has accepted a connection can go on.                    *)
THEOREM HoldsCorrect == Spec => []HoldsOne
<1>1. Init => HoldsOne
  BY DEF Init, HoldsOne
<1>2. IndInv /\ HoldsOne /\ [Next]_vars => HoldsOne'
  BY HoldsOneStep DEF IndInv
<1> QED
  BY SpecIndInv, <1>1, <1>2, PTL DEF Spec
=============================================================================
