------------------------------- MODULE Srvid -------------------------------
(***************************************************************************)
(* The channel names: a hash table with open addressing in a block of      *)
(* SRVID_BUCKETS slots, filled by one loader in private, put in the place  *)
(* of the last one under g_srvid_mtx, and looked up under the same lock.   *)
(* Loaders are main(), when it starts and when it reloads, and the         *)
(* requests that save the file; srvid_free ends the table at shutdown.     *)
(*                                                                         *)
(* A key is the pair of a CAID and a SID.  What a line of the file says is *)
(* reduced to the keys and the name it inserts; the file may be rewritten  *)
(* while a loader reads it, so each line it reads may be any.  No table    *)
(* grows and no entry is ever taken out of one.                            *)
(***************************************************************************)
EXTENDS Integers, FiniteSets

CONSTANTS
  Size,     \* SRVID_BUCKETS
  Keys,     \* the keys a line may insert
  Halves,   \* those with a CAID or a SID of 0: numbers cut to 16 bits
  Home,     \* hash_key
  Names,
  Loaders,
  Blocks,   \* what calloc returns
  None

ASSUME SrvidAssumption ==
  /\ Size \in Nat \ {0}
  /\ IsFiniteSet(Keys)
  /\ Halves \subseteq Keys
  /\ Home \in [Keys -> 0 .. Size - 1]
  /\ None \notin Keys \cup Names \cup Blocks

Slots == 0 .. Size - 1
Empty == [key |-> None, name |-> None]
Entry == [key : Keys, name : Names] \cup {Empty}
Nothing == [k \in Keys |-> None]

VARIABLES
  tbl,      \* per block: its slots
  said,     \* history, per block: the first name the lines gave each key
  g_srvid,  \* the block in use, or None
  lpc,      \* per loader: where it is in srvid_load
  newtbl,   \* per loader: its pointer to the block it fills, or has filled
  old       \* per loader: the block it has to free

vars == <<tbl, said, g_srvid, lpc, newtbl, old>>

(* The block a loader fills is its own until it is published; the pointer  *)
(* it keeps after that owns nothing.                                       *)
Private(l) == IF lpc[l] = "fill" THEN newtbl[l] ELSE None

(* The blocks that are allocated.                                          *)
Held == ({g_srvid} \cup {Private(l) : l \in Loaders}
                   \cup {old[l] : l \in Loaders}) \ {None}

Blank == [i \in Slots |-> Empty]

Init ==
  /\ tbl = [b \in Blocks |-> Blank]
  /\ said = [b \in Blocks |-> Nothing]
  /\ g_srvid = None
  /\ lpc = [l \in Loaders |-> "idle"]
  /\ newtbl = [l \in Loaders |-> None]
  /\ old = [l \in Loaders |-> None]

-----------------------------------------------------------------------------
(* The table.                                                              *)

(* The slot that is tried at distance d from the home of a key.            *)
Probe(k, d) ==
  IF Home[k] + d < Size THEN Home[k] + d ELSE Home[k] + d - Size

(* The walk from the home of k passes the slots before distance d: they    *)
(* hold other keys.                                                        *)
Passes(t, k, d) == \A e \in 0 .. d - 1 : t[Probe(k, e)].key \notin {k, None}

FreeAt(t, k) ==
  {d \in Slots : t[Probe(k, d)].key = None /\ Passes(t, k, d)}

FoundAt(t, k) == {d \in Slots : t[Probe(k, d)].key = k /\ Passes(t, k, d)}

InsertLastWins(t, k, n) ==
  LET ds == FreeAt(t, k) \cup FoundAt(t, k)
  IN  IF ds = {} THEN t
      ELSE [t EXCEPT ![Probe(k, CHOOSE d \in ds : TRUE)] =
              [key |-> k, name |-> n]]

InsertNoName(t, k, n) ==
  IF FreeAt(t, k) = {} THEN t
  ELSE [t EXCEPT ![Probe(k, CHOOSE d \in FreeAt(t, k) : TRUE)] =
          [key |-> k, name |-> None]]

(* tbl_insert: the key is there already, or the table is full of others,   *)
(* and nothing happens.                                                    *)
tbl_insert(t, k, n) ==
  IF FreeAt(t, k) = {} THEN t
  ELSE [t EXCEPT ![Probe(k, CHOOSE d \in FreeAt(t, k) : TRUE)] =
          [key |-> k, name |-> n]]

(* srvid_lookup_copy: the walk ends at the key or at an empty slot.        *)
srvid_lookup(t, k) ==
  IF k \in Halves \/ FoundAt(t, k) = {} THEN None
  ELSE t[Probe(k, CHOOSE d \in FoundAt(t, k) : TRUE)].name

-----------------------------------------------------------------------------
(* srvid_load starts: no file or no memory and it returns.                 *)
Open(l) ==
  /\ lpc[l] = "idle"
  /\ \E b \in Blocks \ Held :
       /\ newtbl' = [newtbl EXCEPT ![l] = b]
       /\ tbl' = [tbl EXCEPT ![b] = Blank]
       /\ said' = [said EXCEPT ![b] = Nothing]
  /\ lpc' = [lpc EXCEPT ![l] = "fill"]
  /\ UNCHANGED <<g_srvid, old>>

(* One key of one line.                                                    *)
ReadKey(l) ==
  /\ lpc[l] = "fill"
  /\ \E k \in Keys, n \in Names :
       LET b == newtbl[l]
       IN  /\ tbl' = [tbl EXCEPT ![b] = tbl_insert(@, k, n)]
           /\ said' = [said EXCEPT ![b][k] = IF @ = None THEN n ELSE @]
  /\ UNCHANGED <<g_srvid, lpc, newtbl, old>>

PublishKeepsOwn(l) ==
  /\ lpc[l] = "fill"
  /\ old' = [old EXCEPT ![l] = newtbl[l]]
  /\ g_srvid' = newtbl[l]
  /\ lpc' = [lpc EXCEPT ![l] = "free"]
  /\ UNCHANGED <<tbl, said, newtbl>>

(* The end of the file, and the swap under the lock.                       *)
Publish(l) ==
  /\ lpc[l] = "fill"
  /\ old' = [old EXCEPT ![l] = g_srvid]
  /\ g_srvid' = newtbl[l]
  /\ lpc' = [lpc EXCEPT ![l] = "free"]
  /\ UNCHANGED <<tbl, said, newtbl>>

(* The old table is freed, and its memory may become anything.             *)
FreeOld(l) ==
  /\ lpc[l] = "free"
  /\ IF old[l] = None THEN UNCHANGED <<tbl, said>>
     ELSE /\ tbl' = [tbl EXCEPT ![old[l]] = Blank]
          /\ said' = [said EXCEPT ![old[l]] = Nothing]
  /\ old' = [old EXCEPT ![l] = None]
  /\ lpc' = [lpc EXCEPT ![l] = "count"]
  /\ UNCHANGED <<g_srvid, newtbl>>

(* srvid_load returns newtbl->count, whatever has become of the block.     *)
ReturnCount(l) ==
  /\ lpc[l] = "count"
  /\ newtbl' = [newtbl EXCEPT ![l] = None]
  /\ lpc' = [lpc EXCEPT ![l] = "idle"]
  /\ UNCHANGED <<tbl, said, g_srvid, old>>

(* srvid_free: all of it under the lock.                                   *)
srvid_free ==
  /\ g_srvid # None
  /\ tbl' = [tbl EXCEPT ![g_srvid] = Blank]
  /\ said' = [said EXCEPT ![g_srvid] = Nothing]
  /\ g_srvid' = None
  /\ UNCHANGED <<lpc, newtbl, old>>

srvid_load(l) ==
  Open(l) \/ ReadKey(l) \/ Publish(l) \/ FreeOld(l) \/ ReturnCount(l)

Next == (\E l \in Loaders : srvid_load(l)) \/ srvid_free

Spec == Init /\ [][Next]_vars

-----------------------------------------------------------------------------
TypeOK ==
  /\ tbl \in [Blocks -> [Slots -> Entry]]
  /\ said \in [Blocks -> [Keys -> Names \cup {None}]]
  /\ g_srvid \in Blocks \cup {None}
  /\ lpc \in [Loaders -> {"idle", "fill", "free", "count"}]
  /\ newtbl \in [Loaders -> Blocks \cup {None}]
  /\ old \in [Loaders -> Blocks \cup {None}]

(* The keys a lookup may ask for that the lines gave a name.               *)
Named(b) == {k \in Keys : said[b][k] # None}

(* Every lookup, at any instant and whatever is being loaded, gets what    *)
(* the lines of the table in use said first of its key; only when they     *)
(* named more keys than there are slots may it get nothing, and even then  *)
(* never the name of another key.                                          *)
LookupExact ==
  g_srvid # None =>
    \A k \in Keys \ Halves :
      LET n == srvid_lookup(tbl[g_srvid], k)
      IN  /\ n \in {said[g_srvid][k], None}
          /\ Cardinality(Named(g_srvid)) <= Size => n = said[g_srvid][k]

(* No block has two owners: the table in use, the ones being filled and    *)
(* the ones to be freed are all different, so no table is freed twice, nor *)
(* while it is in use or being filled, however loads overlap.  A pointer   *)
(* that owns nothing may still be followed: the count that srvid_load      *)
(* returns is read through one (srvid.c:123), when another load may have   *)
(* freed the table; this is not excluded.                                  *)
OneOwner ==
  /\ \A l \in Loaders : {Private(l), old[l]} \cap {g_srvid} \subseteq {None}
  /\ \A l, m \in Loaders :
       /\ {Private(l)} \cap {old[m]} \subseteq {None}
       /\ l # m => /\ {Private(l)} \cap {Private(m)} \subseteq {None}
                   /\ {old[l]} \cap {old[m]} \subseteq {None}
=============================================================================
