----------------------------- MODULE Lifecycle ------------------------------
(***************************************************************************)
(* The life of the server process: who starts and stops main(), what       *)
(* main() starts and stops in which order, and the web server with its     *)
(* pool of WEBIF_MAX_THREADS places, whose requests may stop main().       *)
(*                                                                         *)
(* On Android main() is called by a thread of the app: TcmgService passes  *)
(* START and STOP, one at a time, to the JNI bridge, and the process and   *)
(* its threads stay when main() returns.  Elsewhere main() is the process: *)
(* a signal stops it, its return ends every thread, and a restart replaces *)
(* the process image.                                                      *)
(*                                                                         *)
(* The web server accepts a connection, takes a place of a semaphore and   *)
(* starts a detached thread for it, or, when there is no memory, no place  *)
(* or no thread, serves the request itself.  Nobody joins the threads of   *)
(* the requests: webif_stop joins the accepting thread only, so a request  *)
(* may be in service when the accounts are freed, and on Android also when *)
(* main() runs again and gives the semaphore its initial value.            *)
(***************************************************************************)
EXTENDS Integers, Sequences, FiniteSets

CONSTANTS
  Conns,      \* HTTP connections
  Pool,       \* WEBIF_MAX_THREADS
  MaxStarts,  \* bound: server threads the app creates
  FdSetTraps  \* FD_SET(-1) aborts, as in a build that checks it

ASSUME LifecycleAssumption ==
  /\ IsFiniteSet(Conns)
  /\ Pool \in Nat \ {0}
  /\ MaxStarts \in Nat \ {0}
  /\ FdSetTraps \in BOOLEAN

Starts == 1 .. MaxStarts
Listeners == {"cccam", "newcamd"}
Platforms == {"android", "posix"}

VARIABLES
  platform,       \* where it runs; constant
  serverRunning,  \* the bridge's g_server_running
  startMs,        \* g_server_start_ms is set
  apc,            \* where the app's main thread is inside startServer
  spc,            \* per start: where its server thread, and main() in it, is
  running,        \* g_running
  restart,        \* g_restart
  up,             \* the listeners that have an accepting thread
  webRunning,     \* s_webif_running
  webSock,        \* s_webif_sock is open
  hpc,            \* where http_server_thread is
  sem,            \* the value of s_webif_sem
  conn,           \* per connection: where its request is
  backlog,        \* connections accept() has not returned yet
  old,            \* history: threads that took a place before the last sem_init
  late,           \* history: places those gave back since
  crashed         \* the process was ended by the system

appVars == <<serverRunning, startMs, apc>>
flagVars == <<running, restart>>
webVars == <<webRunning, webSock, hpc>>
poolVars == <<sem, old, late>>
vars == <<platform, appVars, spc, flagVars, up, webVars, poolVars, conn,
          backlog, crashed>>

(* The phases of main(), in their order.                                   *)
MainPcs == {"setup", "webstart", "liststart", "loop", "webstop", "webjoin",
            "liststop", "drain", "free", "end"}
ServerPcs == {"none", "created", "clear", "done"} \cup MainPcs
HttpPcs == {"none", "top", "fdset", "select", "held", "inline", "exited"}
ConnPcs ==
  {"none", "pending", "held", "read", "serve", "post", "iread", "iserve"}

(* The connections whose threads hold a place.                             *)
Holders == {c \in Conns : conn[c] \in {"read", "serve", "post"}}

(* The server threads that have not yet said that they are gone.           *)
Alive == {t \in Starts : spc[t] \notin {"none", "clear", "done"}}

Init ==
  /\ platform \in Platforms
  /\ serverRunning = FALSE
  /\ startMs = FALSE
  /\ apc = "idle"
  /\ spc = [t \in Starts |->
              IF platform = "posix" /\ t = 1 THEN "setup" ELSE "none"]
  /\ running = TRUE
  /\ restart = FALSE
  /\ up = {}
  /\ webRunning = FALSE
  /\ webSock = FALSE
  /\ hpc = "none"
  /\ sem = 0
  /\ conn = [c \in Conns |-> "none"]
  /\ backlog = <<>>
  /\ old = {}
  /\ late = 0
  /\ crashed = FALSE

Goto(t, p) == spc' = [spc EXCEPT ![t] = p]

(* The image of the process goes, its threads and its memory with it.      *)
EndImage ==
  /\ up' = {}
  /\ webRunning' = FALSE
  /\ webSock' = FALSE
  /\ hpc' = "none"
  /\ sem' = 0
  /\ conn' = [c \in Conns |-> "none"]
  /\ backlog' = <<>>
  /\ old' = {}
  /\ late' = 0

(* main() returns: to server_thread_fn, or out of the process.             *)
LeaveMain(t) ==
  /\ IF platform = "posix"
     THEN /\ Goto(t, "done")
          /\ EndImage
          /\ UNCHANGED serverRunning
     ELSE /\ Goto(t, "clear")
          /\ serverRunning' = FALSE
          /\ UNCHANGED <<up, webVars, poolVars, conn, backlog>>
  /\ UNCHANGED <<platform, startMs, apc, flagVars, crashed>>

Crash ==
  /\ crashed' = TRUE
  /\ UNCHANGED <<platform, appVars, spc, flagVars, up, webVars, poolVars, conn,
                 backlog>>

-----------------------------------------------------------------------------
(* The app: TcmgService, whose callbacks run one at a time, and the bridge. *)

StartServerMarksLate ==
  /\ platform = "android"
  /\ apc = "idle"
  /\ ~serverRunning
  /\ \E t \in Starts : spc[t] = "none"
  /\ apc' = "marked"
  /\ UNCHANGED <<platform, serverRunning, startMs, spc, flagVars, up, webVars,
                 poolVars, conn, backlog, crashed>>

(* START: isRunning and the check of startServer, both of which only this  *)
(* thread can make true, then the mark.  With no memory for the arguments  *)
(* nothing happens.                                                        *)
StartServer ==
  /\ platform = "android"
  /\ apc = "idle"
  /\ ~serverRunning
  /\ \E t \in Starts : spc[t] = "none"
  /\ serverRunning' = TRUE
  /\ apc' = "marked"
  /\ UNCHANGED <<platform, startMs, spc, flagVars, up, webVars, poolVars, conn,
                 backlog, crashed>>

CreateServerThread ==
  /\ apc = "marked"
  /\ \/ \E t \in Starts :
          /\ spc[t] = "none"
          /\ \A s \in Starts : s < t => spc[s] # "none"
          /\ Goto(t, "created")
          /\ apc' = "created"
          /\ UNCHANGED serverRunning
     \/ /\ serverRunning' = FALSE
        /\ apc' = "idle"
        /\ UNCHANGED spc
  /\ UNCHANGED <<platform, startMs, flagVars, up, webVars, poolVars, conn,
                 backlog, crashed>>

(* The start time is stored when the thread already runs.                  *)
StoreStartMs ==
  /\ apc = "created"
  /\ apc' = "idle"
  /\ startMs' = TRUE
  /\ UNCHANGED <<platform, serverRunning, spc, flagVars, up, webVars, poolVars,
                 conn, backlog, crashed>>

(* STOP and onDestroy; elsewhere SIGINT and SIGTERM, which leave the       *)
(* request for a restart.                                                  *)
StopServer ==
  /\ apc = "idle"
  /\ running' = FALSE
  /\ restart' = IF platform = "android" THEN FALSE ELSE restart
  /\ UNCHANGED <<platform, appVars, spc, up, webVars, poolVars, conn, backlog,
                 crashed>>

(* server_thread_fn before it calls main().                                *)
ResetFlags(t) ==
  /\ spc[t] = "created"
  /\ Goto(t, "setup")
  /\ running' = TRUE
  /\ restart' = FALSE
  /\ UNCHANGED <<platform, appVars, up, webVars, poolVars, conn, backlog,
                 crashed>>

-----------------------------------------------------------------------------
(* main()                                                                  *)

(* Options, configuration, channel names and log; without a configuration, *)
(* or asked for its version or its options, main() returns.                *)
Setup(t) ==
  /\ spc[t] = "setup"
  /\ \/ /\ Goto(t, "webstart")
        /\ UNCHANGED <<platform, appVars, flagVars, up, webVars, poolVars, conn,
                       backlog, crashed>>
     \/ LeaveMain(t)

(* sem_init: whoever holds a place by now was not counted by it.           *)
InitSemaphore ==
  /\ sem' = Pool
  /\ old' = Holders
  /\ late' = 0

(* webif_start; disabled or without a socket nothing changes, without a    *)
(* thread only the semaphore does.                                         *)
WebStart(t) ==
  /\ spc[t] = "webstart"
  /\ Goto(t, "liststart")
  /\ \/ UNCHANGED <<webVars, poolVars>>
     \/ InitSemaphore /\ UNCHANGED webVars
     \/ /\ InitSemaphore
        /\ webRunning' = TRUE
        /\ webSock' = TRUE
        /\ hpc' = "top"
  /\ UNCHANGED <<platform, appVars, flagVars, up, conn, backlog, crashed>>

(* cccam_start and newcamd_start: either may be disabled by its port or    *)
(* fail to bind.                                                           *)
ListenersStart(t) ==
  /\ spc[t] = "liststart"
  /\ Goto(t, "loop")
  /\ up' \in SUBSET Listeners
  /\ UNCHANGED <<platform, appVars, flagVars, webVars, poolVars, conn, backlog,
                 crashed>>

(* The loop of main() has seen that g_running is 0.                        *)
LeaveLoop(t) ==
  /\ spc[t] = "loop"
  /\ ~running
  /\ Goto(t, "webstop")
  /\ UNCHANGED <<platform, appVars, flagVars, up, webVars, poolVars, conn,
                 backlog, crashed>>

WebStopKeepsSocket(t) ==
  /\ spc[t] = "webstop"
  /\ IF webRunning
     THEN Goto(t, "webjoin") /\ webRunning' = FALSE
     ELSE Goto(t, "liststop") /\ UNCHANGED webRunning
  /\ UNCHANGED <<platform, appVars, flagVars, up, webSock, hpc, poolVars, conn,
                 backlog, crashed>>

WebStopKeepsFlag(t) ==
  /\ spc[t] = "webstop"
  /\ IF webRunning
     THEN /\ Goto(t, "webjoin")
          /\ webSock' = FALSE
          /\ conn' = [c \in Conns |->
                        IF conn[c] = "pending" THEN "none" ELSE conn[c]]
          /\ backlog' = <<>>
     ELSE /\ Goto(t, "liststop")
          /\ UNCHANGED <<webSock, conn, backlog>>
  /\ UNCHANGED <<platform, appVars, flagVars, up, webRunning, hpc, poolVars,
                 crashed>>

(* webif_stop up to the join: closing the socket resets what waits there.  *)
WebStop(t) ==
  /\ spc[t] = "webstop"
  /\ IF webRunning
     THEN /\ Goto(t, "webjoin")
          /\ webRunning' = FALSE
          /\ webSock' = FALSE
          /\ conn' = [c \in Conns |->
                        IF conn[c] = "pending" THEN "none" ELSE conn[c]]
          /\ backlog' = <<>>
     ELSE /\ Goto(t, "liststop")
          /\ UNCHANGED <<webRunning, webSock, conn, backlog>>
  /\ UNCHANGED <<platform, appVars, flagVars, up, hpc, poolVars, crashed>>

WebJoinDoesNotWait(t) ==
  /\ spc[t] = "webjoin"
  /\ Goto(t, "liststop")
  /\ UNCHANGED <<platform, appVars, flagVars, up, webVars, poolVars, conn,
                 backlog, crashed>>

(* sem_destroy, which does nothing in the libraries the program is built   *)
(* with, is part of this step: later posts still count.                    *)
WebJoin(t) ==
  /\ spc[t] = "webjoin"
  /\ hpc = "exited"
  /\ Goto(t, "liststop")
  /\ UNCHANGED <<platform, appVars, flagVars, up, webVars, poolVars, conn,
                 backlog, crashed>>

(* cccam_stop looks whether its listener runs; newcamd_stop joins its      *)
(* thread in any case: with none, or one joined before, the system may end *)
(* the process or return an error.                                         *)
ListenersStop(t) ==
  /\ spc[t] = "liststop"
  /\ \/ /\ Goto(t, "drain")
        /\ up' = {}
        /\ UNCHANGED <<platform, appVars, flagVars, webVars, poolVars, conn,
                       backlog, crashed>>
     \/ "newcamd" \notin up /\ Crash

(* The bounded wait for the clients; what it waits for is in Connections.  *)
Drain(t) ==
  /\ spc[t] = "drain"
  /\ Goto(t, "free")
  /\ UNCHANGED <<platform, appVars, flagVars, up, webVars, poolVars, conn,
                 backlog, crashed>>

(* Accounts, bans and channel names are freed, the locks destroyed, the    *)
(* log is closed.                                                          *)
Free(t) ==
  /\ spc[t] = "free"
  /\ Goto(t, "end")
  /\ UNCHANGED <<platform, appVars, flagVars, up, webVars, poolVars, conn,
                 backlog, crashed>>

(* tcmg_exec_restart: a new image of the process.                          *)
Exec(t) ==
  /\ spc[t] = "end"
  /\ platform = "posix"
  /\ restart
  /\ Goto(t, "setup")
  /\ running' = TRUE
  /\ restart' = FALSE
  /\ EndImage
  /\ UNCHANGED <<platform, appVars, crashed>>

(* No restart, or one that failed.                                         *)
Return(t) ==
  /\ spc[t] = "end"
  /\ LeaveMain(t)

ClearStartMs(t) ==
  /\ spc[t] = "clear"
  /\ Goto(t, "done")
  /\ startMs' = FALSE
  /\ UNCHANGED <<platform, serverRunning, apc, flagVars, up, webVars, poolVars,
                 conn, backlog, crashed>>

-----------------------------------------------------------------------------
(* The web server.                                                         *)

(* A browser connects.                                                     *)
Connect(c) ==
  /\ webSock
  /\ conn[c] = "none"
  /\ conn' = [conn EXCEPT ![c] = "pending"]
  /\ backlog' = Append(backlog, c)
  /\ UNCHANGED <<platform, appVars, spc, flagVars, up, webVars, poolVars,
                 crashed>>

HttpGoto(p) == hpc' = p /\ UNCHANGED <<webRunning, webSock>>

HttpTop ==
  /\ hpc = "top"
  /\ HttpGoto(IF webRunning THEN "fdset" ELSE "exited")
  /\ UNCHANGED <<platform, appVars, spc, flagVars, up, poolVars, conn, backlog,
                 crashed>>

(* FD_SET reads s_webif_sock anew; after webif_stop it is -1, a bit outside *)
(* of the set.                                                             *)
HttpFdSet ==
  /\ hpc = "fdset"
  /\ \/ /\ HttpGoto(IF webSock THEN "select" ELSE "top")
        /\ UNCHANGED <<platform, appVars, spc, flagVars, up, poolVars, conn,
                       backlog, crashed>>
     \/ ~webSock /\ FdSetTraps /\ Crash

(* select() ends without a connection.                                     *)
HttpIdle ==
  /\ hpc = "select"
  /\ backlog = <<>>
  /\ HttpGoto("top")
  /\ UNCHANGED <<platform, appVars, spc, flagVars, up, poolVars, conn, backlog,
                 crashed>>

(* accept() returns a connection, or an error because its peer is gone.    *)
HttpAccept ==
  /\ hpc = "select"
  /\ backlog # <<>>
  /\ backlog' = Tail(backlog)
  /\ \/ HttpGoto("held") /\ conn' = [conn EXCEPT ![Head(backlog)] = "held"]
     \/ HttpGoto("top") /\ conn' = [conn EXCEPT ![Head(backlog)] = "none"]
  /\ UNCHANGED <<platform, appVars, spc, flagVars, up, poolVars, crashed>>

SpawnWithoutTryWait(c) ==
  /\ hpc = "held"
  /\ conn[c] = "held"
  /\ HttpGoto("top")
  /\ conn' = [conn EXCEPT ![c] = "read"]
  /\ sem' = sem - 1
  /\ UNCHANGED <<platform, appVars, spc, flagVars, up, old, late, backlog,
                 crashed>>

(* sem_trywait and pthread_create succeed.                                 *)
Spawn(c) ==
  /\ hpc = "held"
  /\ conn[c] = "held"
  /\ sem > 0
  /\ HttpGoto("top")
  /\ conn' = [conn EXCEPT ![c] = "read"]
  /\ sem' = sem - 1
  /\ UNCHANGED <<platform, appVars, spc, flagVars, up, old, late, backlog,
                 crashed>>

InlineKeepsPlace(c) ==
  /\ hpc = "held"
  /\ conn[c] = "held"
  /\ HttpGoto("inline")
  /\ conn' = [conn EXCEPT ![c] = "iread"]
  /\ sem' = IF sem > 0 THEN sem - 1 ELSE 0
  /\ UNCHANGED <<platform, appVars, spc, flagVars, up, old, late, backlog,
                 crashed>>

(* No memory, no place, or no thread and the place given back.             *)
Inline(c) ==
  /\ hpc = "held"
  /\ conn[c] = "held"
  /\ HttpGoto("inline")
  /\ conn' = [conn EXCEPT ![c] = "iread"]
  /\ UNCHANGED <<platform, appVars, spc, flagVars, up, poolVars, backlog,
                 crashed>>

(* The end of a request: a thread closes and has its place to give back,   *)
(* the accepting thread closes and goes on accepting.                      *)
Finish(c) ==
  IF conn[c] \in {"read", "serve"}
  THEN conn' = [conn EXCEPT ![c] = "post"] /\ UNCHANGED webVars
  ELSE conn' = [conn EXCEPT ![c] = "none"] /\ HttpGoto("top")

(* The header and the body are complete, the buffer is full, or the peer   *)
(* was silent for WEB_READ_TIMEOUT_S; too little of it is no request.      *)
ReadRequest(c) ==
  /\ conn[c] \in {"read", "iread"}
  /\ \/ /\ conn' = [conn EXCEPT ![c] = IF @ = "read" THEN "serve" ELSE "iserve"]
        /\ UNCHANGED webVars
     \/ Finish(c)
  /\ UNCHANGED <<platform, appVars, spc, flagVars, up, poolVars, backlog,
                 crashed>>

(* The answer: a page, or one of those that stop or restart the server     *)
(* (send_page_power, handle_api_restart).                                  *)
Serve(c) ==
  /\ conn[c] \in {"serve", "iserve"}
  /\ Finish(c)
  /\ \/ UNCHANGED flagVars
     \/ running' = FALSE /\ UNCHANGED restart
     \/ running' = FALSE /\ restart' = TRUE
  /\ UNCHANGED <<platform, appVars, spc, up, poolVars, backlog, crashed>>

(* sem_post, the last thing a thread does.                                 *)
Post(c) ==
  /\ conn[c] = "post"
  /\ conn' = [conn EXCEPT ![c] = "none"]
  /\ sem' = sem + 1
  /\ old' = old \ {c}
  /\ late' = IF c \in old THEN late + 1 ELSE late
  /\ UNCHANGED <<platform, appVars, spc, flagVars, up, webVars, backlog,
                 crashed>>

-----------------------------------------------------------------------------
App == StartServer \/ CreateServerThread \/ StoreStartMs \/ StopServer

Server(t) ==
  \/ ResetFlags(t) \/ Setup(t) \/ WebStart(t) \/ ListenersStart(t)
  \/ LeaveLoop(t) \/ WebStop(t) \/ WebJoin(t) \/ ListenersStop(t)
  \/ Drain(t) \/ Free(t) \/ Exec(t) \/ Return(t) \/ ClearStartMs(t)

Http ==
  \/ HttpTop \/ HttpFdSet \/ HttpIdle \/ HttpAccept
  \/ \E c \in Conns : Spawn(c) \/ Inline(c)

Request(c) == ReadRequest(c) \/ Serve(c) \/ Post(c)

Next ==
  /\ ~crashed
  /\ \/ App
     \/ \E t \in Starts : Server(t)
     \/ Http
     \/ \E c \in Conns : Connect(c) \/ Request(c)

(* The system runs its threads, select() returns after a second, recv()    *)
(* after its timeout.  Nobody has to press a button or to connect.         *)
Fairness ==
  /\ WF_vars(~crashed /\ (CreateServerThread \/ StoreStartMs))
  /\ WF_vars(~crashed /\ Http)
  /\ \A t \in Starts : WF_vars(~crashed /\ Server(t))
  /\ \A c \in Conns : WF_vars(~crashed /\ Request(c))

Spec == Init /\ [][Next]_vars /\ Fairness

-----------------------------------------------------------------------------
TypeOK ==
  /\ platform \in Platforms
  /\ serverRunning \in BOOLEAN
  /\ startMs \in BOOLEAN
  /\ apc \in {"idle", "marked", "created"}
  /\ spc \in [Starts -> ServerPcs]
  /\ running \in BOOLEAN
  /\ restart \in BOOLEAN
  /\ up \subseteq Listeners
  /\ webRunning \in BOOLEAN
  /\ webSock \in BOOLEAN
  /\ hpc \in HttpPcs
  /\ sem \in Nat
  /\ conn \in [Conns -> ConnPcs]
  /\ backlog \in Seq(Conns)
  /\ old \subseteq Conns
  /\ late \in Nat
  /\ crashed \in BOOLEAN

(* Two servers never share the globals: g_server_running is set exactly    *)
(* while a server thread is about to be created or has not yet ended, and  *)
(* there is never a second one.                                            *)
OneServer ==
  platform = "android" =>
    /\ Cardinality(Alive) <= 1
    /\ serverRunning <=> (apc = "marked" \/ Alive # {})

(* No place is lost and none is made up: what the semaphore holds and what *)
(* the threads hold add up to the pool, but for the places that threads    *)
(* from before its initialisation gave back to it.                         *)
PlacesExact ==
  hpc # "none" => sem + Cardinality(Holders \ old) = Pool + late

(* When the accounts are freed, the accepting thread, the request it may   *)
(* have been serving itself and the connections that waited are gone.      *)
Stopped == {"liststop", "drain", "free", "end"}

NoAcceptorLeft ==
  (\E t \in Starts : spc[t] \in Stopped) =>
    /\ hpc \in {"none", "exited"}
    /\ backlog = <<>>
    /\ \A c \in Conns : conn[c] \notin {"pending", "held", "iread", "iserve"}

(* A stop ends: from the moment the flags of a run are reset, a stop from   *)
(* the app, from a signal or from a page is heard in every phase, and       *)
(* whatever the web server is doing main() comes out of it, by returning,   *)
(* by replacing the process, or with it.                                    *)
Heard == {"setup", "webstart", "liststart", "loop"}

StopEnds ==
  \A t \in Starts :
    (spc[t] \in Heard /\ ~running)
      ~> \/ spc[t] \in {"clear", "done"}
         \/ spc[t] = "setup" /\ running
         \/ crashed

(* Every connection is answered or closed, however many there are and      *)
(* whenever the server is stopped.                                         *)
ConnectionEnds ==
  \A c \in Conns : conn[c] = "pending" ~> (conn[c] = "none" \/ crashed)

(* A stop is graceful also when the newcamd listener is disabled.          *)
StopsGracefully == ~crashed
=============================================================================
