------------------------------ MODULE CwCache ------------------------------
(***************************************************************************)
(* The control-word cache and the ECM requests of newcamd and cccam, which *)
(* share it.  A handler hashes the ECM, looks its slot up under the mutex   *)
(* of the slot's shard, and on a miss emulates the card with no lock held   *)
(* and stores the result in the slot.  g_cw_cache is direct-mapped: several *)
(* ECMs share a slot, several slots a mutex.                               *)
(*                                                                         *)
(* An ECM stands for its MD5.  A CW is a record of the ECM it was made for  *)
(* and whether gen_fake_cw made it.  The copies in and out of a slot take   *)
(* more than one step, so that only the mutex keeps them whole.  Time is    *)
(* kept as the age of an entry in seconds, TTL once it is that old.         *)
(***************************************************************************)
EXTENDS Naturals

CONSTANTS
  Sessions,     \* the handler threads
  Accounts,
  Ecms,
  Shards,       \* CW_CACHE_SHARDS
  Slots,        \* CW_CACHE_SIZE
  Hash,         \* per ECM: the hash of the first four bytes of its MD5
  FakeAccounts, \* the accounts with use_fake_cw
  Opens,        \* per account: the ECMs its keys decode
  TTL,          \* CW_CACHE_TTL_S
  None

ASSUME SizesAssumption ==
  /\ Slots \in Nat \ {0}
  /\ Shards \in 1 .. Slots
  /\ TTL \in Nat \ {0}
ASSUME HashAssumption == Hash \in [Ecms -> Nat]
ASSUME AccountsAssumption ==
  /\ FakeAccounts \subseteq Accounts
  /\ Opens \in [Accounts -> SUBSET Ecms]
ASSUME NoneAssumption ==
  /\ None \notin Ecms \cup Sessions \cup Accounts
  /\ None \notin [ecm : Ecms, fake : BOOLEAN]
  /\ None \notin [cw : [ecm : Ecms, fake : BOOLEAN], age : 0 .. TTL]

VARIABLES
  pc,    \* per session: where its ECM handler is
  acc,   \* per session: ctx.account of the request, or None
  ecm,   \* per session: the ECM of the request
  cw,    \* per session: the handler's cw, or None while it is all zero
  cache, \* g_cw_cache
  owner  \* g_cw_cache_mtx: the session that holds it, or None

vars == <<pc, acc, ecm, cw, cache, owner>>
requestVars == <<acc, ecm>>

Words == [ecm : Ecms, fake : BOOLEAN]
Index == 0 .. Slots - 1
Mutexes == 0 .. Shards - 1

(* cw_idx, and the shard of a slot.                                        *)
Idx(e) == Hash[e] % Slots
Shard(i) == i % Shards

EmptySlot == [valid |-> FALSE, tag |-> None, cw |-> None, age |-> 0]

Init ==
  /\ pc = [s \in Sessions |-> "idle"]
  /\ acc = [s \in Sessions |-> None]
  /\ ecm = [s \in Sessions |-> None]
  /\ cw = [s \in Sessions |-> None]
  /\ cache = [i \in Index |-> EmptySlot]
  /\ owner = [m \in Mutexes |-> None]

MySlot(s) == Idx(ecm[s])
MyMutex(s) == Shard(MySlot(s))

Lock(s) == owner' = [owner EXCEPT ![MyMutex(s)] = s]
Unlock(s) == owner' = [owner EXCEPT ![MyMutex(s)] = None]
Goto(s, place) == pc' = [pc EXCEPT ![s] = place]

-----------------------------------------------------------------------------
(* A request that passed the handler's checks on the account; a cccam      *)
(* handler does not check, and goes on when a reload took its account.     *)
Request(s, a, e) ==
  /\ pc[s] = "idle"
  /\ Goto(s, "find")
  /\ acc' = [acc EXCEPT ![s] = a]
  /\ ecm' = [ecm EXCEPT ![s] = e]
  /\ UNCHANGED <<cw, cache, owner>>

MatchesAtTtl(s) ==
  LET entry == cache[MySlot(s)] IN
    entry.valid /\ entry.tag = ecm[s] /\ entry.age <= TTL

Matches(s) ==
  LET entry == cache[MySlot(s)] IN
    entry.valid /\ entry.tag = ecm[s] /\ entry.age < TTL

(* cw_cache_lookup finds the entry and, holding the mutex, is about to     *)
(* copy its word.                                                          *)
Hit(s) ==
  /\ pc[s] = "find"
  /\ owner[MyMutex(s)] = None
  /\ Matches(s)
  /\ Lock(s)
  /\ Goto(s, "copy")
  /\ UNCHANGED <<requestVars, cw, cache>>

Copy(s) ==
  /\ pc[s] = "copy"
  /\ cw' = [cw EXCEPT ![s] = cache[MySlot(s)].cw]
  /\ Unlock(s)
  /\ Goto(s, "reply")
  /\ UNCHANGED <<requestVars, cache>>

Miss(s) ==
  /\ pc[s] = "find"
  /\ owner[MyMutex(s)] = None
  /\ ~Matches(s)
  /\ Goto(s, "emulate")
  /\ UNCHANGED <<requestVars, cw, cache, owner>>

(* An all-zero word taken for a success.                                   *)
EmuProcessZeroWord(a, e) ==
  IF a \in FakeAccounts THEN [ecm |-> e, fake |-> TRUE]
  ELSE IF a # None /\ e \in Opens[a] THEN [ecm |-> e, fake |-> FALSE]
  ELSE [ecm |-> None, fake |-> FALSE]

(* emu_process: a fake word for an account that asks for it, otherwise the *)
(* word an own key of the account opens, otherwise nothing; nothing also   *)
(* for a session without an account.                                       *)
EmuProcess(a, e) ==
  IF a \in FakeAccounts THEN [ecm |-> e, fake |-> TRUE]
  ELSE IF a # None /\ e \in Opens[a] THEN [ecm |-> e, fake |-> FALSE]
  ELSE None

Emulate(s) ==
  /\ pc[s] = "emulate"
  /\ LET made == EmuProcess(acc[s], ecm[s]) IN
       /\ cw' = [cw EXCEPT ![s] = made]
       /\ Goto(s, IF made = None THEN "nak" ELSE "store")
  /\ UNCHANGED <<requestVars, cache, owner>>

(* cw_cache_store without its mutex.                                       *)
StoreTagUnlocked(s) ==
  /\ pc[s] = "store"
  /\ cache' = [cache EXCEPT ![MySlot(s)].tag = ecm[s]]
  /\ Goto(s, "fill")
  /\ UNCHANGED <<requestVars, cw, owner>>

(* cw_cache_store takes the mutex and overwrites the slot, whatever it     *)
(* holds: first the tag, then the word, the time and the valid mark.       *)
StoreTag(s) ==
  /\ pc[s] = "store"
  /\ owner[MyMutex(s)] = None
  /\ Lock(s)
  /\ cache' = [cache EXCEPT ![MySlot(s)].tag = ecm[s]]
  /\ Goto(s, "fill")
  /\ UNCHANGED <<requestVars, cw>>

StoreWord(s) ==
  /\ pc[s] = "fill"
  /\ cache' = [cache EXCEPT ![MySlot(s)] =
                 [valid |-> TRUE, tag |-> @.tag, cw |-> cw[s], age |-> 0]]
  /\ Unlock(s)
  /\ Goto(s, "reply")
  /\ UNCHANGED <<requestVars, cw>>

(* The word, or a refusal, goes out and cw is wiped.                       *)
Reply(s) ==
  /\ pc[s] \in {"reply", "nak"}
  /\ Goto(s, "idle")
  /\ acc' = [acc EXCEPT ![s] = None]
  /\ ecm' = [ecm EXCEPT ![s] = None]
  /\ cw' = [cw EXCEPT ![s] = None]
  /\ UNCHANGED <<cache, owner>>

Tick ==
  /\ cache' = [i \in Index |->
                 [cache[i] EXCEPT !.age = IF @ < TTL THEN @ + 1 ELSE @]]
  /\ UNCHANGED <<pc, requestVars, cw, owner>>

Handler(s) ==
  \/ \E a \in Accounts \cup {None}, e \in Ecms : Request(s, a, e)
  \/ Hit(s)
  \/ Copy(s)
  \/ Miss(s)
  \/ Emulate(s)
  \/ StoreTag(s)
  \/ StoreWord(s)
  \/ Reply(s)

Next ==
  \/ \E s \in Sessions : Handler(s)
  \/ Tick

Spec == Init /\ [][Next]_vars

-----------------------------------------------------------------------------
Places == {"idle", "find", "copy", "emulate", "store", "fill", "reply", "nak"}

TypeOK ==
  /\ pc \in [Sessions -> Places]
  /\ acc \in [Sessions -> Accounts \cup {None}]
  /\ ecm \in [Sessions -> Ecms \cup {None}]
  /\ cw \in [Sessions -> Words \cup {None}]
  /\ cache \in [Index -> [valid : BOOLEAN, tag : Ecms \cup {None},
                          cw : Words \cup {None}, age : 0 .. TTL]]
  /\ owner \in [Mutexes -> Sessions \cup {None}]

(* No session is sent the control word of another ECM, although ECMs share *)
(* slots, slots are overwritten while others look them up, and the copies  *)
(* in cw_cache_lookup and cw_cache_store are not atomic.                   *)
AnswerFits ==
  \A s \in Sessions : pc[s] = "reply" => cw[s] # None /\ cw[s].ecm = ecm[s]

(* The slots, the shards and the mutexes implement the memo of EcmMemo: a  *)
(* hit counts from the moment the tag matched, a slot holds nothing while  *)
(* it is being filled, and a store is done when the mutex is released.     *)
Filling(i) == \E s \in Sessions : pc[s] = "fill" /\ MySlot(s) = i

Memo ==
  [e \in Ecms |->
     LET entry == cache[Idx(e)] IN
       IF entry.valid /\ entry.tag = e /\ ~Filling(Idx(e))
       THEN [cw |-> entry.cw, age |-> entry.age] ELSE None]

Phase ==
  [s \in Sessions |->
     CASE pc[s] = "idle" -> "idle"
       [] pc[s] \in {"find", "emulate"} -> "asking"
       [] pc[s] \in {"store", "fill"} -> "made"
       [] pc[s] \in {"copy", "reply"} -> "answered"
       [] pc[s] = "nak" -> "refused"]

Word ==
  [s \in Sessions |-> IF pc[s] = "copy" THEN cache[MySlot(s)].cw ELSE cw[s]]

Service == INSTANCE EcmMemo WITH
  phase <- Phase, word <- Word, memo <- Memo, Emulate <- EmuProcess

(* The ECM service as its sessions see it: every step of the cache and of  *)
(* the handlers is a step of the memo or leaves it as it was.              *)
ImplementsMemo == Service!Spec
=============================================================================
