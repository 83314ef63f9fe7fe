---------------------------- MODULE Connections ----------------------------
(***************************************************************************)
(* Connection admission, the registry of live clients and the shutdown of  *)
(* the server.                                                             *)
(*                                                                         *)
(* Each of the two listeners (newcamd, cccam) is a thread that accepts a   *)
(* connection, adds one to g_active_conns, rejects the connection when the *)
(* value it saw was already MAX_CONNS and otherwise starts a detached      *)
(* handler thread.  A handler registers its S_CLIENT (a local variable of  *)
(* the thread) in g_clients, serves until g_running or its kill flag stops *)
(* it, takes itself out of g_clients and, last, subtracts one from         *)
(* g_active_conns.  main() stops the listeners, joins them, waits a bounded *)
(* time for g_active_conns to reach zero and frees the accounts.           *)
(*                                                                         *)
(* A connection is named by the S_CLIENT it uses; the address is used      *)
(* again once its handler has returned, as a stack is.                     *)
(***************************************************************************)
EXTENDS Naturals, FiniteSets

CONSTANTS
  Conns,      \* the S_CLIENT addresses
  MaxConns,   \* MAX_CONNS
  MaxClients, \* MAX_ACTIVE_CLIENTS, the slots of g_clients
  DrainMax,   \* rounds main() waits for the handlers
  None        \* NULL

ASSUME ConnsAssumption ==
  /\ IsFiniteSet(Conns)
  /\ None \notin Conns
ASSUME LimitsAssumption ==
  /\ MaxConns \in Nat \ {0}
  /\ MaxClients \in Nat
  /\ MaxConns <= MaxClients
ASSUME DrainAssumption == DrainMax \in Nat \ {0}

Listeners == {"newcamd", "cccam"}
Slots == 1 .. MaxClients

VARIABLES
  running,      \* g_running
  activeConns,  \* g_active_conns
  srv,          \* per listener: its running flag and its socket
  lpc,          \* per listener: where its thread is
  st,           \* per connection: where its handler is
  via,          \* per connection: the listener that accepted it
  seen,         \* per connection: the value its fetch_add returned
  clients,      \* g_clients
  killFlag,     \* per connection: kill_flag
  mpc,          \* where main() is
  waited        \* main()'s loop variable w

vars == <<running, activeConns, srv, lpc, st, via, seen, clients, killFlag,
          mpc, waited>>

listenerVars == <<srv, lpc>>
mainVars == <<running, mpc, waited>>

ConnStates == {"idle", "counted", "started", "handshake", "check", "recv",
               "left", "unlinked"}
MainStates == {"serving", "cccam", "newcamd", "drain", "freed"}

(* The handlers whose S_CLIENT is in g_clients: from client_register to     *)
(* client_unregister.                                                      *)
Registered == {c \in Conns : st[c] \in {"handshake", "check", "recv", "left"}}
(* The handlers that have a thread.                                        *)
Handlers == {c \in Conns : st[c] \notin {"idle", "counted"}}
(* The connections g_active_conns stands for.                              *)
Counted == {c \in Conns : st[c] # "idle"}

Init ==
  /\ running = TRUE
  /\ activeConns = 0
  /\ srv = [l \in Listeners |-> "open"]
  /\ lpc = [l \in Listeners |-> "top"]
  /\ st = [c \in Conns |-> "idle"]
  /\ via = [c \in Conns |-> None]
  /\ seen = [c \in Conns |-> 0]
  /\ clients = [i \in Slots |-> None]
  /\ killFlag = [c \in Conns |-> FALSE]
  /\ mpc = "serving"
  /\ waited = 0

-----------------------------------------------------------------------------
(* The listener threads.                                                   *)

(* The condition of a listener's loop: the cccam thread also looks at      *)
(* g_running, the newcamd thread does not.                                 *)
KeepsListening(l) == srv[l] = "open" /\ (l = "cccam" => running)

ListenerTop(l) ==
  /\ lpc[l] = "top"
  /\ lpc' = [lpc EXCEPT ![l] = IF KeepsListening(l) THEN "select" ELSE "exited"]
  /\ UNCHANGED <<mainVars, activeConns, srv, st, via, seen, clients, killFlag>>

(* select() timed out, or accept() failed.                                 *)
ListenerIdles(l) ==
  /\ lpc[l] = "select"
  /\ lpc' = [lpc EXCEPT ![l] = "top"]
  /\ UNCHANGED <<mainVars, activeConns, srv, st, via, seen, clients, killFlag>>

(* accept() returned a connection and the listener has counted it.         *)
Accept(l, c) ==
  /\ lpc[l] = "select"
  /\ srv[l] # "closed"
  /\ st[c] = "idle"
  /\ lpc' = [lpc EXCEPT ![l] = "hold"]
  /\ st' = [st EXCEPT ![c] = "counted"]
  /\ via' = [via EXCEPT ![c] = l]
  /\ seen' = [seen EXCEPT ![c] = activeConns]
  /\ activeConns' = activeConns + 1
  /\ UNCHANGED <<mainVars, srv, clients, killFlag>>

Holds(l, c) == lpc[l] = "hold" /\ st[c] = "counted" /\ via[c] = l

(* The limit is reached, malloc() failed or pthread_create() failed: the   *)
(* listener takes its count back and closes the connection.                *)
Drop(l, c) ==
  /\ Holds(l, c)
  /\ lpc' = [lpc EXCEPT ![l] = "top"]
  /\ st' = [st EXCEPT ![c] = "idle"]
  /\ via' = [via EXCEPT ![c] = None]
  /\ seen' = [seen EXCEPT ![c] = 0]
  /\ activeConns' = activeConns - 1
  /\ UNCHANGED <<mainVars, srv, clients, killFlag>>

OverLimitOffByOne(c) == seen[c] > MaxConns

OverLimit(c) == seen[c] >= MaxConns

Reject(l, c) == OverLimit(c) /\ Drop(l, c)

SpawnFailsKeepsCount(l, c) ==
  /\ ~OverLimit(c)
  /\ Holds(l, c)
  /\ lpc' = [lpc EXCEPT ![l] = "top"]
  /\ st' = [st EXCEPT ![c] = "idle"]
  /\ via' = [via EXCEPT ![c] = None]
  /\ seen' = [seen EXCEPT ![c] = 0]
  /\ UNCHANGED <<mainVars, activeConns, srv, clients, killFlag>>

SpawnFails(l, c) == ~OverLimit(c) /\ Drop(l, c)

(* The handler thread runs on a zeroed S_CLIENT.                           *)
Spawn(l, c) ==
  /\ Holds(l, c)
  /\ ~OverLimit(c)
  /\ lpc' = [lpc EXCEPT ![l] = "top"]
  /\ st' = [st EXCEPT ![c] = "started"]
  /\ seen' = [seen EXCEPT ![c] = 0]
  /\ killFlag' = [killFlag EXCEPT ![c] = FALSE]
  /\ UNCHANGED <<mainVars, activeConns, srv, via, clients>>

-----------------------------------------------------------------------------
(* The handler threads.                                                    *)

FreeSlots == {i \in Slots : clients[i] = None}

(* Without the break of the search loop.                                   *)
RegisterWithoutBreak(c) ==
  /\ st[c] = "started"
  /\ st' = [st EXCEPT ![c] = "handshake"]
  /\ clients' = [i \in Slots |-> IF i \in FreeSlots THEN c ELSE clients[i]]
  /\ UNCHANGED <<mainVars, listenerVars, activeConns, via, seen, killFlag>>

(* client_register: the first free slot; without one nothing is stored.    *)
Register(c) ==
  /\ st[c] = "started"
  /\ st' = [st EXCEPT ![c] = "handshake"]
  /\ \/ /\ FreeSlots = {}
        /\ UNCHANGED clients
     \/ \E i \in FreeSlots :
          /\ \A j \in FreeSlots : i <= j
          /\ clients' = [clients EXCEPT ![i] = c]
  /\ UNCHANGED <<mainVars, listenerVars, activeConns, via, seen, killFlag>>

(* nc_init, which the newcamd handler goes on from even when it failed, or *)
(* the cccam handshake and login, every failure of which ends the handler. *)
Handshake(c) ==
  /\ st[c] = "handshake"
  /\ st' \in {[st EXCEPT ![c] = s] :
                s \in {"check"} \cup IF via[c] = "cccam" THEN {"left"} ELSE {}}
  /\ UNCHANGED <<mainVars, listenerVars, activeConns, via, seen, clients,
                 killFlag>>

LoopTopIgnoresKill(c) ==
  /\ st[c] = "check"
  /\ st' = [st EXCEPT ![c] = IF running THEN "recv" ELSE "left"]
  /\ UNCHANGED <<mainVars, listenerVars, activeConns, via, seen, clients,
                 killFlag>>

LoopTopIgnoresStop(c) ==
  /\ st[c] = "check"
  /\ st' = [st EXCEPT ![c] = IF ~killFlag[c] THEN "recv" ELSE "left"]
  /\ UNCHANGED <<mainVars, listenerVars, activeConns, via, seen, clients,
                 killFlag>>

(* The condition of the serving loop.                                      *)
LoopTop(c) ==
  /\ st[c] = "check"
  /\ st' = [st EXCEPT ![c] = IF running /\ ~killFlag[c] THEN "recv" ELSE "left"]
  /\ UNCHANGED <<mainVars, listenerVars, activeConns, via, seen, clients,
                 killFlag>>

(* One round: a message is received and served, or the idle limit, the     *)
(* socket timeout, a disconnect or a refused login ends the loop.          *)
Serve(c) ==
  /\ st[c] = "recv"
  /\ \E s \in {"check", "left"} : st' = [st EXCEPT ![c] = s]
  /\ UNCHANGED <<mainVars, listenerVars, activeConns, via, seen, clients,
                 killFlag>>

(* client_unregister: the first slot that holds the client is emptied.     *)
Unregister(c) ==
  /\ st[c] = "left"
  /\ st' = [st EXCEPT ![c] = "unlinked"]
  /\ LET mine == {i \in Slots : clients[i] = c}
     IN  clients' = [i \in Slots |->
           IF i \in mine /\ \A j \in mine : i <= j THEN None ELSE clients[i]]
  /\ UNCHANGED <<mainVars, listenerVars, activeConns, via, seen, killFlag>>

(* The count is given back once here and once where the login failed.      *)
FinishTwice(c) ==
  /\ st[c] = "unlinked"
  /\ st' = [st EXCEPT ![c] = "idle"]
  /\ via' = [via EXCEPT ![c] = None]
  /\ activeConns' = activeConns - 2
  /\ UNCHANGED <<mainVars, listenerVars, seen, clients, killFlag>>

(* The handler closes its socket, takes itself out of the count, returns.  *)
Finish(c) ==
  /\ st[c] = "unlinked"
  /\ st' = [st EXCEPT ![c] = "idle"]
  /\ via' = [via EXCEPT ![c] = None]
  /\ activeConns' = activeConns - 1
  /\ UNCHANGED <<mainVars, listenerVars, seen, clients, killFlag>>

(* client_kill_by_tid and client_kill_by_user, called by the web pages:    *)
(* they set the flag of clients they find in g_clients.                    *)
Kill(c) ==
  /\ \E i \in Slots : clients[i] = c
  /\ killFlag' = [killFlag EXCEPT ![c] = TRUE]
  /\ UNCHANGED <<mainVars, listenerVars, activeConns, st, via, seen, clients>>

-----------------------------------------------------------------------------
(* main().                                                                 *)

(* A signal, the power page or the Android bridge clears g_running.        *)
StopRequest ==
  /\ running
  /\ running' = FALSE
  /\ UNCHANGED <<listenerVars, activeConns, st, via, seen, clients, killFlag,
                 mpc, waited>>

LeaveMainLoop ==
  /\ mpc = "serving"
  /\ ~running
  /\ mpc' = "cccam"
  /\ UNCHANGED <<listenerVars, running, activeConns, st, via, seen, clients,
                 killFlag, waited>>

(* cccam_stop and newcamd_stop: the flag is cleared, then the socket is    *)
(* closed, then the thread is joined.                                      *)
ClearFlag(l) ==
  /\ mpc = l
  /\ srv[l] = "open"
  /\ srv' = [srv EXCEPT ![l] = "stopping"]
  /\ UNCHANGED <<mainVars, activeConns, lpc, st, via, seen, clients, killFlag>>

CloseSocket(l) ==
  /\ mpc = l
  /\ srv[l] = "stopping"
  /\ srv' = [srv EXCEPT ![l] = "closed"]
  /\ UNCHANGED <<mainVars, activeConns, lpc, st, via, seen, clients, killFlag>>

Join(l) ==
  /\ mpc = l
  /\ srv[l] = "closed"
  /\ lpc[l] = "exited"
  /\ mpc' = IF l = "cccam" THEN "newcamd" ELSE "drain"
  /\ UNCHANGED <<listenerVars, running, activeConns, st, via, seen, clients,
                 killFlag, waited>>

DrainingAllButOne == waited < DrainMax /\ activeConns > 1

Draining == waited < DrainMax /\ activeConns > 0

DrainWait ==
  /\ mpc = "drain"
  /\ Draining
  /\ waited' = waited + 1
  /\ UNCHANGED <<listenerVars, running, activeConns, st, via, seen, clients,
                 killFlag, mpc>>

(* The accounts, the bans and the srvid table are freed.                   *)
FreeAccounts ==
  /\ mpc = "drain"
  /\ ~Draining
  /\ mpc' = "freed"
  /\ UNCHANGED <<listenerVars, running, activeConns, st, via, seen, clients,
                 killFlag, waited>>

(* The process is about to exit and nothing is left to do.                 *)
Terminated ==
  /\ mpc = "freed"
  /\ Counted = {}
  /\ UNCHANGED vars

-----------------------------------------------------------------------------
Listen(l) ==
  \/ ListenerTop(l)
  \/ ListenerIdles(l)
  \/ \E c \in Conns : Accept(l, c) \/ Reject(l, c) \/ SpawnFails(l, c)
                        \/ Spawn(l, c)

Handle(c) ==
  \/ Register(c)
  \/ Handshake(c)
  \/ LoopTop(c)
  \/ Serve(c)
  \/ Unregister(c)
  \/ Finish(c)

Main ==
  \/ LeaveMainLoop
  \/ \E l \in Listeners : ClearFlag(l) \/ CloseSocket(l) \/ Join(l)
  \/ DrainWait
  \/ FreeAccounts

Next ==
  \/ \E l \in Listeners : Listen(l)
  \/ \E c \in Conns : Handle(c)
  \/ \E c \in Conns : Kill(c)
  \/ StopRequest
  \/ Main
  \/ Terminated

Spec == Init /\ [][Next]_vars

(* Every thread is scheduled.  A listener's select() returns after a       *)
(* second, and a handler's recv() and send() after SOCKET_TIMEOUT, which   *)
(* cfg_load keeps between 5 and 600 seconds.                               *)
Fairness ==
  /\ \A l \in Listeners : WF_vars(Listen(l))
  /\ \A c \in Conns : WF_vars(Handle(c))
  /\ WF_vars(Main)

FairSpec == Spec /\ Fairness

-----------------------------------------------------------------------------
TypeOK ==
  /\ running \in BOOLEAN
  /\ activeConns \in Nat
  /\ srv \in [Listeners -> {"open", "stopping", "closed"}]
  /\ lpc \in [Listeners -> {"top", "select", "hold", "exited"}]
  /\ st \in [Conns -> ConnStates]
  /\ via \in [Conns -> Listeners \cup {None}]
  /\ seen \in [Conns -> Nat]
  /\ clients \in [Slots -> Conns \cup {None}]
  /\ killFlag \in [Conns -> BOOLEAN]
  /\ mpc \in MainStates
  /\ waited \in 0 .. DrainMax

(* g_active_conns never drifts: at every step of every listener and        *)
(* handler, whatever fails, it is the number of connections that have been *)
(* counted and not yet given back.                                         *)
CounterExact == activeConns = Cardinality(Counted)

(* Two listeners that add and compare on their own still never let more    *)
(* than MAX_CONNS handlers run at once.                                    *)
CapacityRespected == Cardinality(Handlers) <= MaxConns

(* Every handler between client_register and client_unregister is in       *)
(* exactly one slot, so a kill always finds it: registration never meets a *)
(* full table, although it would drop the client silently if it did.  And  *)
(* no slot points at the stack of a handler that has unregistered or       *)
(* returned.                                                               *)
RegistryComplete ==
  /\ \A c \in Registered : Cardinality({i \in Slots : clients[i] = c}) = 1
  /\ \A i \in Slots : clients[i] # None => clients[i] \in Registered

(* When main() did not run out of rounds, the accounts are freed with no   *)
(* handler left that could still touch them, and none can start.           *)
FreedWhenQuiet ==
  mpc = "freed" /\ waited < DrainMax => Counted = {} /\ activeConns = 0

(* A kill is not lost: a handler whose flag is set ends, whatever its peer *)
(* sends.                                                                  *)
KilledLeaves ==
  \A c \in Conns : (killFlag[c] /\ c \in Registered) ~> st[c] = "idle"

(* A stop request brings main() through both joins and the wait, and every *)
(* handler through its cleanup.                                            *)
ShutdownCompletes == ~running ~> (mpc = "freed" /\ activeConns = 0)
=============================================================================
