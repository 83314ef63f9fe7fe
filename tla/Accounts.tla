------------------------------ MODULE Accounts ------------------------------
(***************************************************************************)
(* Accounts, the sessions logged in to them, and what changes the accounts *)
(* under the sessions: the web pages that toggle, add and delete a user,   *)
(* and cfg_reload, which builds a new list of accounts, copies the counter *)
(* `active' of each old account into its new one, swaps the lists, walks   *)
(* over the registered clients to link each to its new account, and frees  *)
(* the old list.  The swap and the walk hold g_clients_mtx and acc_lock;   *)
(* a handler's own reads of cl->account and cl->kill_flag take neither and *)
(* see the stores of the walk one by one.                                  *)
(*                                                                         *)
(* An account object is a user's name and the generation of the list it    *)
(* was allocated for, so that a pointer to a freed object stays different  *)
(* from the pointer to the one that replaced it.  What is read through a   *)
(* pointer to a freed object is arbitrary; a count written through it is   *)
(* lost or lands in some live object.  Reading through NULL ends the       *)
(* process.                                                                *)
(***************************************************************************)
EXTENDS Integers, FiniteSets

CONSTANTS
  Users,          \* account names
  Sessions,       \* the S_CLIENT of each connection
  Cccam,          \* the sessions served by the cccam handler
  MaxConnections, \* per user: max_connections, 0 for no limit
  MaxGen,         \* bound: lists and accounts allocated after start
  ReloadOn,       \* the configuration may be reloaded
  RemoveOn,       \* a user may be missing from the reloaded file
  DeleteOn,       \* the web page may delete a user
  AddOn,          \* the web page may add a user
  ReloginOn,      \* a newcamd client may send LOGIN again
  None            \* NULL, and the empty user name

ASSUME AccountsAssumption ==
  /\ IsFiniteSet(Sessions)
  /\ Cccam \subseteq Sessions
  /\ MaxConnections \in [Users -> Nat]
  /\ MaxGen \in Nat
  /\ {ReloadOn, RemoveOn, DeleteOn, AddOn, ReloginOn} \subseteq BOOLEAN
  /\ None \notin Users
  /\ None \notin Nat
  /\ None \notin Users \X Nat

Gens == 0 .. MaxGen
Objects == Users \X Gens
Pointers == Objects \cup {None}

VARIABLES
  listed,    \* g_cfg.accounts: per user the generation of its object, or None
  gen,       \* the generations used so far
  active,    \* per object: active
  enabled,   \* per object: enabled
  live,      \* the objects allocated and not freed
  deleted,   \* history: the objects handle_user_delete freed
  toKill,    \* the users whose sessions a web page is about to kill
  rpc,       \* where cfg_reload is
  fresh,     \* the list it has read, like listed
  uncopied,  \* the users of fresh whose counters it has not copied yet
  old,       \* the objects of the list it has replaced
  unvisited, \* the registered clients its walk has not reached
  unlinked,  \* the client whose account it has cleared and not yet killed
  pc,        \* per session: where its handler is
  acc,       \* per session: the handler's local pointer acc
  account,   \* per session: cl.account
  user,      \* per session: cl.user
  kill,      \* per session: cl.kill_flag
  straddled, \* history: a swap or a deletion came in the middle of its login
  crashed    \* the process read through NULL

configVars == <<listed, gen, enabled, live, deleted>>
reloadVars == <<rpc, fresh, uncopied, old, unvisited, unlinked>>
clientVars == <<acc, account, user, kill, straddled>>
vars == <<configVars, active, toKill, reloadVars, pc, clientVars, crashed>>

Object(u) == IF listed[u] = None THEN None ELSE <<u, listed[u]>>
Listed == {Object(u) : u \in Users} \ {None}

LoginPcs == {"checks", "admit", "link", "linked"}
Pcs ==
  LoginPcs \cup {"idle", "wait", "loop", "recv", "ecm", "cleanup", "release"}

(* cfg_reload holds g_clients_mtx and the write lock of acc_lock from the  *)
(* swap to the end of its walk; every other holder is a single step.       *)
LocksFree == rpc # "relink"

(* The cccam handler gives its place back before client_unregister, the    *)
(* newcamd handler after it.                                               *)
Registered ==
  {s \in Sessions : pc[s] # "idle" /\ (pc[s] = "release" => s \in Cccam)}

(* The sessions that hold one of the places of user u.                     *)
LoggedIn(u) ==
  {s \in Sessions :
     LET points(p) == p # None /\ p[1] = u
     IN  \/ pc[s] \in {"link", "linked"} /\ points(acc[s])
         \/ s \in Cccam /\ pc[s] \in {"loop", "recv", "ecm", "release"}
              /\ points(acc[s])
         \/ s \notin Cccam /\ points(account[s])}

(* cfg_load has read some accounts.                                        *)
Init ==
  /\ \E names \in SUBSET Users :
       /\ listed = [u \in Users |-> IF u \in names THEN 0 ELSE None]
       /\ live = {<<u, 0>> : u \in names}
  /\ gen = 0
  /\ active = [o \in Objects |-> 0]
  /\ enabled = [o \in Objects |-> TRUE]
  /\ deleted = {}
  /\ toKill = {}
  /\ rpc = "idle"
  /\ fresh = [u \in Users |-> None]
  /\ uncopied = {}
  /\ old = {}
  /\ unvisited = {}
  /\ unlinked = {}
  /\ pc = [s \in Sessions |-> "idle"]
  /\ acc = [s \in Sessions |-> None]
  /\ account = [s \in Sessions |-> None]
  /\ user = [s \in Sessions |-> None]
  /\ kill = [s \in Sessions |-> FALSE]
  /\ straddled = [s \in Sessions |-> FALSE]
  /\ crashed = FALSE

Goto(s, p) == pc' = [pc EXCEPT ![s] = p]

(* A count written through pointer p.                                      *)
AddTo(p, n) ==
  IF p \in live
  THEN active' = [active EXCEPT ![p] = @ + n]
  ELSE \/ UNCHANGED active
       \/ \E o \in live : active' = [active EXCEPT ![o] = @ + n]

(* The process dies on a NULL pointer.                                     *)
Crash ==
  /\ crashed' = TRUE
  /\ UNCHANGED <<configVars, active, toKill, reloadVars, pc, clientVars>>

-----------------------------------------------------------------------------
(* A handler: connection, login, serving loop, cleanup.                    *)

(* The handler returns; its S_CLIENT, zeroed by the next one, is gone.     *)
Return(s) ==
  /\ Goto(s, "idle")
  /\ acc' = [acc EXCEPT ![s] = None]
  /\ account' = [account EXCEPT ![s] = None]
  /\ user' = [user EXCEPT ![s] = None]
  /\ kill' = [kill EXCEPT ![s] = FALSE]
  /\ straddled' = [straddled EXCEPT ![s] = FALSE]

(* client_register.                                                        *)
Connect(s) ==
  /\ LocksFree
  /\ pc[s] = "idle"
  /\ Goto(s, "wait")
  /\ UNCHANGED <<configVars, active, toKill, reloadVars, clientVars, crashed>>

(* The peer is gone, is banned, or sends nothing the handler can use.      *)
GiveUp(s) ==
  /\ pc[s] = "wait"
  /\ Goto(s, "cleanup")
  /\ UNCHANGED <<configVars, active, toKill, reloadVars, clientVars, crashed>>

(* cfg_find_account under the read lock; the pointer outlives the lock.    *)
(* The newcamd handler reads kill_flag before it waits for the LOGIN.      *)
Find(s, u) ==
  /\ LocksFree
  /\ pc[s] = "wait" \/ (pc[s] = "recv" /\ ReloginOn /\ s \notin Cccam)
  /\ acc' = [acc EXCEPT ![s] = Object(u)]
  /\ Goto(s, IF Object(u) = None THEN "cleanup" ELSE "checks")
  /\ UNCHANGED <<configVars, active, toKill, reloadVars, account, user, kill,
                 straddled, crashed>>

(* enabled, ip_whitelist, the password and the expiry, read without a lock. *)
Checks(s) ==
  /\ pc[s] = "checks"
  /\ \/ Goto(s, "cleanup")
     \/ /\ acc[s] \notin live \/ enabled[acc[s]]
        /\ Goto(s, "admit")
  /\ UNCHANGED <<configVars, active, toKill, reloadVars, clientVars, crashed>>

FullOffByOne(p) ==
  MaxConnections[p[1]] > 0 /\ active[p] > MaxConnections[p[1]]

Full(p) == MaxConnections[p[1]] > 0 /\ active[p] >= MaxConnections[p[1]]

(* max_connections: compared and counted under the write lock, which an    *)
(* account without a limit does not take.                                  *)
Admit(s) ==
  /\ pc[s] = "admit"
  /\ acc[s] \in live /\ MaxConnections[acc[s][1]] > 0 => LocksFree
  /\ \/ /\ acc[s] \notin live \/ Full(acc[s])
        /\ Goto(s, "cleanup")
        /\ UNCHANGED active
     \/ /\ acc[s] \notin live \/ ~Full(acc[s])
        /\ Goto(s, "link")
        /\ AddTo(acc[s], 1)
  /\ UNCHANGED <<configVars, toKill, reloadVars, clientVars, crashed>>

LinkUser(s) ==
  /\ pc[s] = "link"
  /\ Goto(s, "linked")
  /\ \E u \in {acc[s][1]} \cup IF acc[s] \notin live THEN {None} ELSE {} :
       user' = [user EXCEPT ![s] = u]
  /\ UNCHANGED <<configVars, active, toKill, reloadVars, acc, account, kill,
                 straddled, crashed>>

LinkAccount(s) ==
  /\ pc[s] = "linked"
  /\ Goto(s, "loop")
  /\ account' = [account EXCEPT ![s] = acc[s]]
  /\ UNCHANGED <<configVars, active, toKill, reloadVars, acc, user, kill,
                 straddled, crashed>>

LeavePcSkipsRelease(s) == "cleanup"

LeavePc(s) == IF s \in Cccam THEN "release" ELSE "cleanup"

(* The loop condition and the idle limit.                                  *)
LoopTop(s) ==
  /\ pc[s] = "loop"
  /\ \/ Goto(s, LeavePc(s))
     \/ ~kill[s] /\ Goto(s, "recv")
  /\ UNCHANGED <<configVars, active, toKill, reloadVars, clientVars, crashed>>

(* A message that touches no account, a disconnect or a socket timeout.    *)
Receive(s) ==
  /\ pc[s] = "recv"
  /\ Goto(s, "loop") \/ Goto(s, LeavePc(s))
  /\ UNCHANGED <<configVars, active, toKill, reloadVars, clientVars, crashed>>

(* An ECM arrives.  newcamd refuses it without an account, out of schedule *)
(* or for a CAID or a SID the account does not list; cccam does not look.  *)
EcmBegin(s) ==
  /\ pc[s] = "recv"
  /\ \/ (s \in Cccam \/ account[s] # None) /\ Goto(s, "ecm")
     \/ s \notin Cccam /\ Goto(s, "loop")
  /\ UNCHANGED <<configVars, active, toKill, reloadVars, clientVars, crashed>>

(* The answer is sent; the statistics are written through cl->account, read *)
(* again.                                                                  *)
EcmEnd(s) ==
  /\ pc[s] = "ecm"
  /\ IF account[s] = None
     THEN Crash
     ELSE /\ Goto(s, "loop")
          /\ UNCHANGED <<configVars, active, toKill, reloadVars, clientVars,
                         crashed>>

Unregister(s) ==
  /\ LocksFree
  /\ pc[s] = "cleanup"
  /\ IF s \in Cccam THEN Return(s)
                     ELSE Goto(s, "release") /\ UNCHANGED clientVars
  /\ UNCHANGED <<configVars, active, toKill, reloadVars, crashed>>

PlacePointer(s) == IF s \in Cccam THEN acc[s] ELSE account[s]

(* The place goes back: newcamd through cl.account, cccam through acc.     *)
Release(s) ==
  /\ pc[s] = "release"
  /\ IF s \in Cccam THEN Goto(s, "cleanup") /\ UNCHANGED clientVars
                     ELSE Return(s)
  /\ IF PlacePointer(s) = None THEN UNCHANGED active
                              ELSE AddTo(PlacePointer(s), -1)
  /\ UNCHANGED <<configVars, toKill, reloadVars, crashed>>

-----------------------------------------------------------------------------
(* The web pages.                                                          *)

(* handle_user_toggle and handle_user_save: the flag under the write lock, *)
(* then cfg_save, then the kill when the user is now disabled and the file *)
(* was written.  Bound: one such page at a time.                           *)
SetEnabled(u, on) ==
  /\ LocksFree
  /\ listed[u] # None
  /\ toKill = {}
  /\ enabled' = [enabled EXCEPT ![Object(u)] = on]
  /\ \/ UNCHANGED toKill
     \/ ~on /\ toKill' = toKill \cup {u}
  /\ UNCHANGED <<listed, gen, live, deleted, active, reloadVars, pc,
                 clientVars, crashed>>

(* client_kill_by_user.                                                    *)
KillByUser(u) ==
  /\ LocksFree
  /\ u \in toKill
  /\ toKill' = toKill \ {u}
  /\ kill' = [s \in Sessions |->
                kill[s] \/ (s \in Registered /\ user[s] = u)]
  /\ UNCHANGED <<configVars, active, reloadVars, pc, acc, account, user,
                 straddled, crashed>>

(* client_kill_by_tid.                                                     *)
KillByTid(s) ==
  /\ LocksFree
  /\ s \in Registered
  /\ kill' = [kill EXCEPT ![s] = TRUE]
  /\ UNCHANGED <<configVars, active, toKill, reloadVars, pc, acc, account,
                 user, straddled, crashed>>

(* handle_user_add.                                                        *)
Add(u) ==
  /\ AddOn
  /\ LocksFree
  /\ listed[u] = None
  /\ gen < MaxGen
  /\ gen' = gen + 1
  /\ listed' = [listed EXCEPT ![u] = gen + 1]
  /\ live' = live \cup {<<u, gen + 1>>}
  /\ \E on \in BOOLEAN : enabled' = [enabled EXCEPT ![<<u, gen + 1>>] = on]
  /\ UNCHANGED <<deleted, active, toKill, reloadVars, pc, clientVars,
                 crashed>>

(* handle_user_delete: unlinked and freed under the write lock; the        *)
(* sessions of the user are neither killed nor told.                       *)
Delete(u) ==
  /\ DeleteOn
  /\ LocksFree
  /\ listed[u] # None
  /\ live' = live \ {Object(u)}
  /\ deleted' = deleted \cup {Object(u)}
  /\ listed' = [listed EXCEPT ![u] = None]
  /\ straddled' = [s \in Sessions |->
                     straddled[s] \/ (pc[s] \in LoginPcs /\ acc[s] = Object(u))]
  /\ UNCHANGED <<gen, enabled, active, toKill, reloadVars, pc, acc, account,
                 user, kill, crashed>>

-----------------------------------------------------------------------------
(* cfg_reload, run by main().                                              *)

(* cfg_load: some users, each with its own enabled flag.                   *)
ReloadLoad ==
  /\ ReloadOn
  /\ rpc = "idle"
  /\ gen < MaxGen
  /\ gen' = gen + 1
  /\ \E names \in SUBSET Users, off \in SUBSET Users :
       /\ RemoveOn \/ \A u \in Users : listed[u] # None => u \in names
       /\ fresh' = [u \in Users |-> IF u \in names THEN gen + 1 ELSE None]
       /\ uncopied' = names
       /\ live' = live \cup {<<u, gen + 1>> : u \in names}
       /\ enabled' = [o \in Objects |->
                        IF o[2] = gen + 1 THEN o[1] \notin off ELSE enabled[o]]
  /\ rpc' = "copy"
  /\ UNCHANGED <<listed, deleted, active, toKill, old, unvisited, unlinked, pc,
                 clientVars, crashed>>

(* The counter of one account, copied without acc_lock.                    *)
ReloadCopy(u) ==
  /\ rpc = "copy"
  /\ u \in uncopied
  /\ uncopied' = uncopied \ {u}
  /\ active' = IF listed[u] = None THEN active
               ELSE [active EXCEPT ![<<u, fresh[u]>>] = active[Object(u)]]
  /\ UNCHANGED <<configVars, toKill, rpc, fresh, old, unvisited, unlinked, pc,
                 clientVars, crashed>>

(* Both locks are taken and the new list is published.                     *)
ReloadSwap ==
  /\ rpc = "copy"
  /\ uncopied = {}
  /\ rpc' = "relink"
  /\ old' = Listed
  /\ listed' = fresh
  /\ unvisited' = Registered
  /\ straddled' = [s \in Sessions |-> straddled[s] \/ pc[s] \in LoginPcs]
  /\ UNCHANGED <<gen, enabled, live, deleted, active, toKill, fresh, uncopied,
                 unlinked, pc, acc, account, user, kill, crashed>>

HasNameNotKilled(s) == user[s] # None /\ ~kill[s]

HasName(s) == user[s] # None

KillsNobody(s) == FALSE

(* The user of the client is not in the new list.                          *)
Kills(s) == Object(user[s]) = None

(* The walk reaches a client: one that has a user gets that user's new     *)
(* account, NULL when there is none, in a store of its own.                *)
Relink(s) ==
  /\ rpc = "relink"
  /\ s \in unvisited
  /\ unlinked = {}
  /\ unvisited' = unvisited \ {s}
  /\ IF HasName(s)
     THEN /\ account' = [account EXCEPT ![s] = Object(user[s])]
          /\ unlinked' = IF Kills(s) THEN {s} ELSE {}
     ELSE UNCHANGED <<account, unlinked>>
  /\ UNCHANGED <<configVars, active, toKill, rpc, fresh, uncopied, old, pc, acc,
                 user, kill, straddled, crashed>>

(* The next store: the kill_flag of the client it has just unlinked.       *)
RelinkKill(s) ==
  /\ s \in unlinked
  /\ unlinked' = {}
  /\ kill' = [kill EXCEPT ![s] = TRUE]
  /\ UNCHANGED <<configVars, active, toKill, rpc, fresh, uncopied, old,
                 unvisited, pc, acc, account, user, straddled, crashed>>

(* The walk is over and the locks are released.                            *)
RelinkDone ==
  /\ rpc = "relink"
  /\ unvisited \cup unlinked = {}
  /\ rpc' = "free"
  /\ UNCHANGED <<configVars, active, toKill, fresh, uncopied, old, unvisited,
                 unlinked, pc, clientVars, crashed>>

ReloadFree ==
  /\ rpc = "free"
  /\ rpc' = "idle"
  /\ live' = live \ old
  /\ old' = {}
  /\ fresh' = [u \in Users |-> None]
  /\ UNCHANGED <<listed, gen, enabled, deleted, active, toKill, uncopied,
                 unvisited, unlinked, pc, clientVars, crashed>>

-----------------------------------------------------------------------------
Handle(s) ==
  \/ Connect(s)
  \/ GiveUp(s)
  \/ \E u \in Users : Find(s, u)
  \/ Checks(s)
  \/ Admit(s)
  \/ LinkUser(s)
  \/ LinkAccount(s)
  \/ LoopTop(s)
  \/ Receive(s)
  \/ EcmBegin(s)
  \/ EcmEnd(s)
  \/ Unregister(s)
  \/ Release(s)

Web ==
  \/ \E u \in Users : KillByUser(u) \/ Add(u) \/ Delete(u)
  \/ \E u \in Users, on \in BOOLEAN : SetEnabled(u, on)
  \/ \E s \in Sessions : KillByTid(s)

Reload ==
  \/ ReloadLoad
  \/ \E u \in Users : ReloadCopy(u)
  \/ ReloadSwap
  \/ \E s \in Sessions : Relink(s) \/ RelinkKill(s)
  \/ RelinkDone
  \/ ReloadFree

Next == ~crashed /\ ((\E s \in Sessions : Handle(s)) \/ Web \/ Reload)

Spec == Init /\ [][Next]_vars

-----------------------------------------------------------------------------
TypeOK ==
  /\ listed \in [Users -> Gens \cup {None}]
  /\ gen \in Gens
  /\ active \in [Objects -> Int]
  /\ enabled \in [Objects -> BOOLEAN]
  /\ live \subseteq Objects
  /\ deleted \subseteq Objects
  /\ toKill \subseteq Users
  /\ rpc \in {"idle", "copy", "relink", "free"}
  /\ fresh \in [Users -> Gens \cup {None}]
  /\ uncopied \subseteq Users
  /\ old \subseteq Objects
  /\ unvisited \subseteq Sessions
  /\ unlinked \subseteq Sessions
  /\ pc \in [Sessions -> Pcs]
  /\ acc \in [Sessions -> Pointers]
  /\ account \in [Sessions -> Pointers]
  /\ user \in [Sessions -> Users \cup {None}]
  /\ kill \in [Sessions -> BOOLEAN]
  /\ straddled \in [Sessions -> BOOLEAN]
  /\ crashed \in BOOLEAN

(* `active' is the number of sessions that hold a place of the account, at *)
(* every step of every login and logout of both protocols.                 *)
ActiveExact ==
  \A u \in Users :
    listed[u] # None => active[Object(u)] = Cardinality(LoggedIn(u))

(* max_connections limits the sessions logged in at the same time.         *)
MaxRespected ==
  \A u \in Users :
    MaxConnections[u] > 0 => Cardinality(LoggedIn(u)) <= MaxConnections[u]

(* Whatever reloads happen, a registered client that logged in outside a   *)
(* swap of the lists never points at an account a reload freed: the status *)
(* page, which reads through these pointers, and a newcamd handler at the  *)
(* top of its loop find an account of the present list.  It is the account *)
(* of the user the client is named after, except between the two           *)
(* assignments of a login, however often the client logs in.               *)
RegisteredLinksLive ==
  \A s \in Registered :
    ~straddled[s] /\ account[s] # None =>
      /\ account[s] \in live \cup deleted
      /\ pc[s] # "linked" => account[s][1] = user[s]

(* A registered client without an account has its kill_flag set, whoever   *)
(* logs in, logs in again or is killed while the walk of a reload goes     *)
(* over the registry.  The one exception is the client between the two     *)
(* stores of the walk: its handler, which takes no lock, can see the NULL  *)
(* and no kill_flag.                                                       *)
UnlinkedIsKilled ==
  \A s \in Registered \ unlinked :
    (user[s] # None /\ account[s] = None /\ pc[s] # "linked") => kill[s]
=============================================================================
