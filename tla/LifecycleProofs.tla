--------------------------- MODULE LifecycleProofs --------------------------
(***************************************************************************)
(* Proofs of the safety properties of Lifecycle for any number of          *)
(* connections, any size of the pool and any number of starts.             *)
(*                                                                         *)
(* The argument is in three layers.  There is never a second server thread *)
(* that is not gone (OneAlive), so whatever one phase of main() has set up *)
(* is as it left it when the next phase comes.  From this follows what the *)
(* web server is in each phase (WebExact), and from both what the          *)
(* semaphore counts (PoolExact).                                           *)
(* The last part is about the join of webif_stop: what main() waits for    *)
(* exists and comes nearer.                                                *)
(***************************************************************************)
EXTENDS Lifecycle, FiniteSetTheorems, TLAPS

OneAlive ==
  /\ \A s, t \in Alive : s = t
  /\ apc = "marked" => platform = "android" /\ Alive = {}
  /\ platform = "android" => (serverRunning <=> (apc = "marked" \/ Alive # {}))

(* The phases in which the web server may be open.                         *)
OpenPhases == {"liststart", "loop", "webstop"}

WebPhases ==
  /\ webRunning => \E t \in Starts : spc[t] \in OpenPhases
  /\ ~webRunning => ~webSock
  /\ (~webRunning /\ \A t \in Starts : spc[t] # "webjoin")
       => hpc \in {"none", "exited"}

(* Each connection of the backlog is there once, and the accepting thread  *)
(* has at most one connection, at the place where it is itself.            *)
ConnsExact ==
  /\ ~webSock => backlog = <<>> /\ \A c \in Conns : conn[c] # "pending"
  /\ \A i \in 1 .. Len(backlog) : conn[backlog[i]] = "pending"
  /\ \A i, j \in 1 .. Len(backlog) : backlog[i] = backlog[j] => i = j
  /\ \A c \in Conns : conn[c] = "held" => hpc = "held"
  /\ \A c \in Conns : conn[c] \in {"iread", "iserve"} => hpc = "inline"
  /\ \A c, d \in Conns :
       {conn[c], conn[d]} \subseteq {"held", "iread", "iserve"} => c = d

PoolExact ==
  /\ old \subseteq Holders
  /\ PlacesExact

IndInv ==
  /\ TypeOK
  /\ OneAlive
  /\ WebPhases
  /\ ConnsExact
  /\ PoolExact

-----------------------------------------------------------------------------
LEMMA EndImageTyped ==
  ASSUME EndImage
  PROVE  /\ up' \subseteq Listeners
         /\ webRunning' \in BOOLEAN /\ webSock' \in BOOLEAN
         /\ hpc' \in HttpPcs /\ sem' \in Nat
         /\ conn' \in [Conns -> ConnPcs] /\ backlog' \in Seq(Conns)
         /\ old' \subseteq Conns /\ late' \in Nat
<1>1. conn' \in [Conns -> ConnPcs]
  BY DEF EndImage, ConnPcs
<1>2. backlog' \in Seq(Conns)
  BY DEF EndImage
<1>3. hpc' \in HttpPcs
  BY DEF EndImage, HttpPcs
<1> QED
  BY <1>1, <1>2, <1>3 DEF EndImage

LEMMA FinishTyped ==
  ASSUME TypeOK, NEW c \in Conns, Finish(c)
  PROVE  /\ conn' \in [Conns -> ConnPcs]
         /\ webRunning' \in BOOLEAN /\ webSock' \in BOOLEAN
         /\ hpc' \in HttpPcs
<1>1. conn \in [Conns -> ConnPcs] /\ "post" \in ConnPcs /\ "none" \in ConnPcs
  BY DEF TypeOK, ConnPcs
<1>2. conn' \in [Conns -> ConnPcs]
  BY <1>1 DEF Finish
<1>3. hpc' \in HttpPcs
  BY DEF Finish, HttpGoto, HttpPcs, TypeOK, webVars
<1>4. webRunning' \in BOOLEAN /\ webSock' \in BOOLEAN
  BY DEF Finish, HttpGoto, TypeOK, webVars
<1> QED
  BY <1>2, <1>3, <1>4

LEMMA TypeStep ==
  ASSUME TypeOK, [Next]_vars
  PROVE  TypeOK'
<1> USE DEF TypeOK, Goto
<1>1. CASE StartServer
  BY <1>1 DEF StartServer, flagVars, webVars, poolVars
<1>2. CASE CreateServerThread
  BY <1>2 DEF ServerPcs, CreateServerThread, flagVars, webVars, poolVars
<1>3. CASE StoreStartMs \/ StopServer
  BY <1>3 DEF StoreStartMs, StopServer, appVars, flagVars, webVars, poolVars
<1>4. ASSUME NEW t \in Starts, ResetFlags(t)
      PROVE  TypeOK'
  BY <1>4 DEF ServerPcs, MainPcs, ResetFlags, appVars, webVars, poolVars
<1>5. ASSUME NEW t \in Starts, LeaveMain(t)
      PROVE  TypeOK'
  <2>1. spc' \in [Starts -> ServerPcs]
    BY <1>5 DEF LeaveMain, ServerPcs
  <2>2. CASE EndImage
    BY <1>5, <2>1, <2>2, EndImageTyped DEF LeaveMain, flagVars
  <2>3. CASE UNCHANGED <<up, webVars, poolVars, conn, backlog>>
    BY <1>5, <2>1, <2>3 DEF LeaveMain, flagVars, webVars, poolVars
  <2> QED
    BY <1>5, <2>2, <2>3 DEF LeaveMain
<1>6. ASSUME NEW t \in Starts, Setup(t)
      PROVE  TypeOK'
  BY <1>5, <1>6 DEF ServerPcs, MainPcs, Setup, appVars, flagVars, webVars, poolVars
<1>7. ASSUME NEW t \in Starts, WebStart(t)
      PROVE  TypeOK'
  <2>1. spc' \in [Starts -> ServerPcs]
    BY <1>7 DEF WebStart, ServerPcs, MainPcs
  <2>2. sem' \in Nat /\ old' \subseteq Conns /\ late' \in Nat
    BY <1>7, LifecycleAssumption
       DEF WebStart, InitSemaphore, Holders, poolVars
  <2>3. webRunning' \in BOOLEAN /\ webSock' \in BOOLEAN /\ hpc' \in HttpPcs
    BY <1>7 DEF WebStart, HttpPcs, webVars
  <2> QED
    BY <1>7, <2>1, <2>2, <2>3 DEF WebStart, appVars, flagVars
<1>8. ASSUME NEW t \in Starts, ListenersStart(t) \/ LeaveLoop(t) \/ WebJoin(t)
      PROVE  TypeOK'
  BY <1>8 DEF ServerPcs, MainPcs, ListenersStart, LeaveLoop, WebJoin, appVars, flagVars, webVars,
              poolVars
<1>9. ASSUME NEW t \in Starts, WebStop(t)
      PROVE  TypeOK'
  <2>1. spc' \in [Starts -> ServerPcs]
    BY <1>9 DEF WebStop, ServerPcs, MainPcs
  <2>2. conn' \in [Conns -> ConnPcs]
    <3>1. CASE webRunning
      <4>1. \A c \in Conns : conn[c] \in ConnPcs /\ "none" \in ConnPcs
        BY DEF ConnPcs
      <4>2. conn' = [c \in Conns |->
                       IF conn[c] = "pending" THEN "none" ELSE conn[c]]
        BY <1>9, <3>1 DEF WebStop
      <4> HIDE DEF TypeOK
      <4> QED
        BY <4>1, <4>2
    <3>2. CASE ~webRunning
      BY <1>9, <3>2 DEF WebStop
    <3> QED
      BY <3>1, <3>2
  <2>3. backlog' \in Seq(Conns)
    <3>1. backlog' = <<>> \/ backlog' = backlog
      BY <1>9 DEF WebStop
    <3>2. backlog \in Seq(Conns)
      OBVIOUS
    <3> HIDE DEF TypeOK
    <3>3. <<>> \in Seq(Conns)
      OBVIOUS
    <3> QED
      BY <3>1, <3>2, <3>3
  <2>4. webRunning' \in BOOLEAN /\ webSock' \in BOOLEAN
    BY <1>9 DEF WebStop
  <2>5. UNCHANGED <<platform, appVars, flagVars, up, hpc, poolVars, crashed>>
    BY <1>9 DEF WebStop
  <2> QED
    BY <2>1, <2>2, <2>3, <2>4, <2>5 DEF appVars, flagVars, poolVars
<1>10. ASSUME NEW t \in Starts, ListenersStop(t)
       PROVE  TypeOK'
  <2>1. CASE Crash
    BY <2>1 DEF Crash, appVars, flagVars, webVars, poolVars
  <2>2. CASE Goto(t, "drain") /\ up' = {}
    <3>1. spc' \in [Starts -> ServerPcs]
      BY <2>2 DEF ServerPcs, MainPcs
    <3> QED
      BY <1>10, <2>2, <3>1
         DEF ListenersStop, Crash, appVars, flagVars, webVars, poolVars
  <2> QED
    BY <1>10, <2>1, <2>2 DEF ListenersStop
<1>11. ASSUME NEW t \in Starts, Drain(t) \/ Free(t) \/ ClearStartMs(t)
       PROVE  TypeOK'
  BY <1>11 DEF ServerPcs, MainPcs, Drain, Free, ClearStartMs, appVars, flagVars, webVars, poolVars
<1>12. ASSUME NEW t \in Starts, Exec(t)
       PROVE  TypeOK'
  <2>1. spc' \in [Starts -> ServerPcs]
    BY <1>12 DEF Exec, ServerPcs, MainPcs
  <2> QED
    BY <1>12, <2>1, EndImageTyped DEF Exec, appVars
<1>13. ASSUME NEW t \in Starts, Return(t)
       PROVE  TypeOK'
  BY <1>5, <1>13 DEF Return
<1>14. CASE HttpTop \/ HttpFdSet \/ HttpIdle
  <2>1. hpc' \in HttpPcs /\ UNCHANGED <<webRunning, webSock>>
    BY <1>14 DEF HttpTop, HttpFdSet, HttpIdle, HttpGoto, HttpPcs, Crash, webVars
  <2>2. crashed' \in BOOLEAN
    BY <1>14 DEF HttpTop, HttpFdSet, HttpIdle, Crash
  <2> QED
    BY <1>14, <2>1, <2>2
       DEF HttpTop, HttpFdSet, HttpIdle, Crash, appVars, flagVars, poolVars
<1>15. CASE HttpAccept
  <2>1. backlog # <<>> /\ Head(backlog) \in Conns /\ Tail(backlog) \in Seq(Conns)
    BY <1>15 DEF HttpAccept
  <2>2. hpc' \in HttpPcs
    BY <1>15 DEF HttpAccept, HttpGoto, HttpPcs
  <2>3. conn' \in [Conns -> ConnPcs]
    BY <1>15, <2>1 DEF HttpAccept, ConnPcs
  <2>4. backlog' = Tail(backlog) /\ UNCHANGED <<webRunning, webSock>>
    BY <1>15 DEF HttpAccept, HttpGoto
  <2> QED
    BY <1>15, <2>1, <2>2, <2>3, <2>4 DEF HttpAccept, appVars, flagVars, poolVars
<1>16. ASSUME NEW c \in Conns, Connect(c)
       PROVE  TypeOK'
  BY <1>16 DEF ConnPcs, Connect, appVars, flagVars, webVars, poolVars
<1>17. ASSUME NEW c \in Conns, Spawn(c) \/ Inline(c)
       PROVE  TypeOK'
  <2>1. hpc' \in HttpPcs /\ UNCHANGED <<webRunning, webSock>>
    BY <1>17 DEF Spawn, Inline, HttpGoto, HttpPcs
  <2>2. conn' \in [Conns -> ConnPcs]
    BY <1>17 DEF Spawn, Inline, ConnPcs
  <2>3. sem' \in Nat /\ old' \subseteq Conns /\ late' \in Nat
    BY <1>17 DEF Spawn, Inline, poolVars
  <2> QED
    BY <1>17, <2>1, <2>2, <2>3 DEF Spawn, Inline, appVars, flagVars
<1>18. ASSUME NEW c \in Conns, ReadRequest(c)
       PROVE  TypeOK'
  <2>1. CASE Finish(c)
    BY <1>18, <2>1, FinishTyped DEF ReadRequest, appVars, flagVars, poolVars
  <2>2. CASE /\ conn' = [conn EXCEPT ![c] = IF @ = "read" THEN "serve"
                                             ELSE "iserve"]
             /\ UNCHANGED webVars
    <3>1. conn' \in [Conns -> ConnPcs]
      BY <2>2 DEF ConnPcs
    <3> QED
      BY <1>18, <2>2, <3>1 DEF ReadRequest, appVars, flagVars, webVars, poolVars
  <2> QED
    BY <1>18, <2>1, <2>2 DEF ReadRequest
<1>19. ASSUME NEW c \in Conns, Serve(c)
       PROVE  TypeOK'
  <2>1. running' \in BOOLEAN /\ restart' \in BOOLEAN
    BY <1>19 DEF Serve, flagVars
  <2>2. Finish(c)
    BY <1>19 DEF Serve
  <2> QED
    BY <1>19, <2>1, <2>2, FinishTyped DEF Serve, appVars, poolVars
<1>20. ASSUME NEW c \in Conns, Post(c)
       PROVE  TypeOK'
  BY <1>20 DEF ConnPcs, Post, appVars, flagVars, webVars
<1>21. CASE UNCHANGED vars
  BY <1>21 DEF vars, appVars, flagVars, webVars, poolVars
<1> QED
  BY <1>1, <1>2, <1>3, <1>4, <1>6, <1>7, <1>8, <1>9, <1>10, <1>11, <1>12,
     <1>13, <1>14, <1>15, <1>16, <1>17, <1>18, <1>19, <1>20, <1>21
     DEF Next, App, Server, Http, Request

-----------------------------------------------------------------------------
(* What a step does to the server threads: it leaves who is alive, brings  *)
(* the one the app creates, or ends one.                                   *)
LEMMA AliveStep ==
  ASSUME TypeOK, [Next]_vars
  PROVE  /\ platform' = platform
         /\ \/ /\ Alive' = Alive /\ serverRunning' = serverRunning
               /\ apc # "marked" /\ apc' # "marked"
            \/ Alive' = Alive /\ serverRunning' = serverRunning /\ apc' = apc
            \/ /\ StartServer
               /\ Alive' = Alive /\ serverRunning' = TRUE /\ apc' = "marked"
            \/ /\ apc = "marked" /\ apc' # "marked"
               /\ \/ /\ serverRunning' = serverRunning
                     /\ \E t \in Starts : Alive' = Alive \cup {t}
                  \/ serverRunning' = FALSE /\ Alive' = Alive
            \/ /\ apc' = apc
               /\ \E t \in Alive : Alive' = Alive \ {t}
               /\ platform = "android" => serverRunning' = FALSE
<1> DEFINE Same == /\ platform' = platform /\ serverRunning' = serverRunning
                   /\ apc' = apc /\ Alive' = Alive
           Ends(t) == /\ platform' = platform /\ apc' = apc
                      /\ t \in Alive /\ Alive' = Alive \ {t}
                      /\ platform = "android" => serverRunning' = FALSE
<1>0. spc \in [Starts -> ServerPcs]
  BY DEF TypeOK
<1>1. ASSUME NEW t \in Starts, NEW p \in MainPcs, t \in Alive, Goto(t, p)
      PROVE  Alive' = Alive
  BY <1>0, <1>1 DEF Goto, Alive, MainPcs
<1>2. ASSUME NEW t \in Starts, t \in Alive, LeaveMain(t)
      PROVE  Ends(t)
  <2>1. Alive' = Alive \ {t}
    BY <1>0, <1>2 DEF LeaveMain, Goto, Alive
  <2> QED
    BY <1>2, <2>1 DEF LeaveMain
<1>3. ASSUME NEW t \in Starts, ResetFlags(t)
      PROVE  Same
  BY <1>0, <1>1, <1>3 DEF ResetFlags, Alive, MainPcs, appVars
<1>4. ASSUME NEW t \in Starts, Setup(t)
      PROVE  Same \/ Ends(t)
  BY <1>0, <1>1, <1>2, <1>4 DEF Setup, Alive, MainPcs, appVars
<1>5. ASSUME NEW t \in Starts, WebStart(t) \/ ListenersStart(t) \/ LeaveLoop(t)
      PROVE  Same
  BY <1>0, <1>1, <1>5
     DEF WebStart, ListenersStart, LeaveLoop, Alive, MainPcs, appVars
<1>6. ASSUME NEW t \in Starts, WebStop(t) \/ WebJoin(t)
      PROVE  Same
  BY <1>0, <1>1, <1>6 DEF WebStop, WebJoin, Alive, MainPcs, appVars
<1>7. ASSUME NEW t \in Starts, ListenersStop(t)
      PROVE  Same
  <2>1. CASE Crash
    BY <2>1 DEF Crash, Alive, appVars
  <2>2. CASE Goto(t, "drain") /\ UNCHANGED <<platform, appVars>>
    BY <1>0, <1>1, <1>7, <2>2 DEF ListenersStop, Alive, MainPcs, appVars
  <2> QED
    BY <1>7, <2>1, <2>2 DEF ListenersStop
<1>8. ASSUME NEW t \in Starts, Drain(t) \/ Free(t) \/ Exec(t)
      PROVE  Same
  BY <1>0, <1>1, <1>8 DEF Drain, Free, Exec, Alive, MainPcs, appVars
<1>9. ASSUME NEW t \in Starts, Return(t)
      PROVE  Ends(t)
  BY <1>0, <1>2, <1>9 DEF Return, Alive
<1>10. ASSUME NEW t \in Starts, ClearStartMs(t)
       PROVE  Same
  BY <1>0, <1>10 DEF ClearStartMs, Goto, Alive
<1>11. CASE Http \/ \E c \in Conns : Connect(c) \/ Request(c)
  <2>1. UNCHANGED <<platform, appVars, spc>>
    <3>1. CASE HttpTop \/ HttpFdSet \/ HttpIdle \/ HttpAccept
      BY <3>1 DEF HttpTop, HttpFdSet, HttpIdle, HttpAccept, Crash
    <3>2. ASSUME NEW c \in Conns, Spawn(c) \/ Inline(c) \/ Connect(c)
          PROVE  UNCHANGED <<platform, appVars, spc>>
      BY <3>2 DEF Spawn, Inline, Connect
    <3>3. ASSUME NEW c \in Conns, Request(c)
          PROVE  UNCHANGED <<platform, appVars, spc>>
      BY <3>3 DEF Request, ReadRequest, Serve, Post
    <3> QED
      BY <1>11, <3>1, <3>2, <3>3 DEF Http
  <2> QED
    BY <2>1 DEF Alive, appVars
<1>12. CASE StoreStartMs \/ StopServer
  BY <1>12 DEF StoreStartMs, StopServer, Alive, appVars
<1>13. CASE StartServer
  BY <1>13 DEF StartServer, Alive
<1>14. CASE CreateServerThread
  BY <1>0, <1>14 DEF CreateServerThread, Goto, Alive
<1>15. CASE UNCHANGED vars
  BY <1>15 DEF vars, appVars, Alive
<1> QED
  BY <1>3, <1>4, <1>5, <1>6, <1>7, <1>8, <1>9, <1>10, <1>11, <1>12, <1>13,
     <1>14, <1>15 DEF Next, App, Server

LEMMA AliveInvariant ==
  ASSUME TypeOK, OneAlive, [Next]_vars
  PROVE  OneAlive'
<1>1. CASE StartServer
  <2>1. Alive = {} /\ platform = "android"
    BY <1>1 DEF OneAlive, StartServer
  <2>2. platform' = platform /\ Alive' = Alive /\ serverRunning' = TRUE
        /\ apc' = "marked"
    BY <1>1 DEF StartServer, Alive
  <2> QED
    BY <2>1, <2>2 DEF OneAlive
<1>2. CASE apc = "marked" /\ apc' # "marked"
  <2>1. Alive = {} /\ platform = "android" /\ serverRunning
    BY <1>2 DEF OneAlive
  <2>2. CASE serverRunning' = FALSE /\ Alive' = Alive
    BY <1>2, <2>1, <2>2 DEF OneAlive
  <2>3. ASSUME NEW t \in Starts, serverRunning' = serverRunning,
               Alive' = Alive \cup {t}
        PROVE  OneAlive'
    BY <1>2, <2>1, <2>3 DEF OneAlive
  <2> QED
    BY <1>2, <2>1, <2>2, <2>3, AliveStep
<1>3. ASSUME NEW t \in Alive, apc' = apc, Alive' = Alive \ {t},
             platform' = platform,
             platform = "android" => serverRunning' = FALSE
      PROVE  OneAlive'
  <2>1. apc # "marked" /\ Alive = {t}
    BY <1>3 DEF OneAlive
  <2> QED
    BY <1>3, <2>1 DEF OneAlive
<1>4. CASE Alive' = Alive /\ serverRunning' = serverRunning
           /\ platform' = platform
           /\ (apc' = apc \/ (apc # "marked" /\ apc' # "marked"))
  BY <1>4 DEF OneAlive
<1> QED
  BY <1>1, <1>2, <1>3, <1>4, AliveStep

-----------------------------------------------------------------------------
Open == \E t \in Starts : spc[t] \in OpenPhases
Joining == \E t \in Starts : spc[t] = "webjoin"

(* The only server thread is in one phase, and so in no other.             *)
LEMMA OnePhase ==
  ASSUME TypeOK, OneAlive, NEW t \in Alive
  PROVE  /\ Open <=> spc[t] \in OpenPhases
         /\ Joining <=> spc[t] = "webjoin"
<1>1. t \in Starts /\ \A s \in Starts : s # t => spc[s] \in {"none", "clear", "done"}
  BY DEF OneAlive, Alive
<1> QED
  BY <1>1 DEF Open, Joining, OpenPhases

LEMMA NextPhase ==
  ASSUME TypeOK, OneAlive, NEW t \in Alive, NEW p, Goto(t, p)
  PROVE  /\ Open' <=> p \in OpenPhases
         /\ Joining' <=> p = "webjoin"
<1>1. t \in Starts /\ \A s \in Starts : s # t => spc[s] \in {"none", "clear", "done"}
  BY DEF OneAlive, Alive
<1>2. spc'[t] = p /\ \A s \in Starts : s # t => spc'[s] = spc[s]
  BY <1>1 DEF Goto, TypeOK
<1> QED
  BY <1>1, <1>2 DEF Open, Joining, OpenPhases

(* What a step does to the phases of main() and the web server together.   *)
LEMMA PhaseStep ==
  ASSUME TypeOK, OneAlive, WebPhases, ConnsExact, [Next]_vars
  PROVE  WebPhases'
<1> DEFINE Off == ~Joining => hpc \in {"none", "exited"}
<1> USE DEF Open, Joining
<1>1. WebPhases <=> /\ webRunning => Open
                    /\ ~webRunning => ~webSock /\ Off
  BY DEF WebPhases
<1>2. WebPhases' <=> /\ webRunning' => Open'
                     /\ ~webRunning' => ~webSock' /\ Off'
  BY DEF WebPhases
<1> HIDE DEF Open, Joining
<1>3. ASSUME NEW t \in Alive, NEW p \in MainPcs, Goto(t, p),
             spc[t] \notin OpenPhases \cup {"webjoin"},
             p \notin OpenPhases \cup {"webjoin"}, UNCHANGED webVars
      PROVE  WebPhases'
  <2>1. ~Open /\ ~Joining /\ ~Open' /\ ~Joining'
    BY <1>3, OnePhase, NextPhase
  <2> QED
    BY <1>1, <1>2, <1>3, <2>1 DEF webVars
<1>4. ASSUME NEW t \in Alive, NEW p \in OpenPhases, Goto(t, p),
             spc[t] \in OpenPhases, UNCHANGED webVars
      PROVE  WebPhases'
  <2>1. Open /\ ~Joining /\ Open' /\ ~Joining'
    <3>1. "webjoin" \notin OpenPhases
      BY DEF OpenPhases
    <3> QED
      BY <1>4, <3>1, OnePhase, NextPhase
  <2> QED
    BY <1>1, <1>2, <1>4, <2>1 DEF webVars
<1>5. ASSUME UNCHANGED <<spc, webVars>>
      PROVE  WebPhases'
  BY <1>5 DEF webVars, WebPhases
<1>6. CASE App
  <2>1. CASE CreateServerThread
    <3>1. spc' = spc
          \/ \E t \in Starts : spc[t] = "none" /\ Goto(t, "created")
      BY <2>1 DEF CreateServerThread
    <3>2. Open' = Open /\ Joining' = Joining
      BY <3>1 DEF Open, Joining, Goto, OpenPhases, TypeOK
    <3> QED
      BY <1>1, <1>2, <2>1, <3>2 DEF CreateServerThread, webVars
  <2>2. CASE StartServer \/ StoreStartMs \/ StopServer
    BY <1>5, <2>2 DEF StartServer, StoreStartMs, StopServer
  <2> QED
    BY <1>6, <2>1, <2>2 DEF App
<1>7. ASSUME NEW t \in Starts, LeaveMain(t), t \in Alive,
             spc[t] \notin OpenPhases \cup {"webjoin"}
      PROVE  WebPhases'
  <2>1. Goto(t, "done") \/ Goto(t, "clear")
    BY <1>7 DEF LeaveMain
  <2>2. ~Open' /\ ~Joining' /\ ~Open /\ ~Joining
    <3>1. {"done", "clear"} \cap (OpenPhases \cup {"webjoin"}) = {}
      BY DEF OpenPhases
    <3> QED
      BY <1>7, <2>1, <3>1, OnePhase, NextPhase
  <2>3. EndImage \/ UNCHANGED webVars
    BY <1>7 DEF LeaveMain
  <2> QED
    BY <1>1, <1>2, <2>2, <2>3 DEF EndImage, webVars
<1>8. ASSUME NEW t \in Starts, ResetFlags(t) \/ Setup(t)
      PROVE  WebPhases'
  BY <1>3, <1>7, <1>8 DEF ResetFlags, Setup, Alive, MainPcs, OpenPhases
<1>9. ASSUME NEW t \in Starts, WebStart(t)
      PROVE  WebPhases'
  <2>1. t \in Alive /\ ~Open /\ ~Joining /\ Open' /\ ~Joining'
    BY <1>9, OnePhase, NextPhase DEF WebStart, Alive, OpenPhases
  <2>2. UNCHANGED webVars \/ (webRunning' /\ webSock')
    BY <1>9 DEF WebStart
  <2> QED
    BY <1>1, <1>2, <2>1, <2>2 DEF webVars
<1>10. ASSUME NEW t \in Starts, ListenersStart(t) \/ LeaveLoop(t)
       PROVE  WebPhases'
  BY <1>4, <1>10 DEF ListenersStart, LeaveLoop, Alive, OpenPhases
<1>11. ASSUME NEW t \in Starts, WebStop(t)
       PROVE  WebPhases'
  <2>1. t \in Alive /\ Open /\ ~Joining
    BY <1>11, OnePhase DEF WebStop, Alive, OpenPhases
  <2>2. CASE webRunning
    <3>1. Goto(t, "webjoin") /\ webRunning' = FALSE /\ webSock' = FALSE
      BY <1>11, <2>2 DEF WebStop
    <3>2. Joining'
      BY <2>1, <3>1, NextPhase
    <3> QED
      BY <1>2, <3>1, <3>2
  <2>3. CASE ~webRunning
    <3>1. Goto(t, "liststop") /\ UNCHANGED webVars
      BY <1>11, <2>3 DEF WebStop, webVars
    <3>2. ~Open' /\ ~Joining'
      BY <2>1, <3>1, NextPhase DEF OpenPhases
    <3> QED
      BY <1>1, <1>2, <2>1, <2>3, <3>1, <3>2 DEF webVars
  <2> QED
    BY <2>2, <2>3
<1>12. ASSUME NEW t \in Starts, WebJoin(t)
       PROVE  WebPhases'
  <2>1. t \in Alive /\ ~Open /\ Joining /\ ~Open' /\ ~Joining'
    BY <1>12, OnePhase, NextPhase DEF WebJoin, Alive, OpenPhases
  <2> QED
    BY <1>1, <1>2, <1>12, <2>1 DEF WebJoin, webVars
<1>13. ASSUME NEW t \in Starts, ListenersStop(t) \/ Drain(t) \/ Free(t)
       PROVE  WebPhases'
  <2>1. CASE Crash
    BY <1>5, <2>1 DEF Crash
  <2>2. CASE Goto(t, "drain") /\ spc[t] = "liststop" /\ UNCHANGED webVars
    BY <1>3, <2>2 DEF Alive, MainPcs, OpenPhases
  <2>3. CASE Drain(t) \/ Free(t)
    BY <1>3, <2>3 DEF Drain, Free, Alive, MainPcs, OpenPhases
  <2> QED
    BY <1>13, <2>1, <2>2, <2>3 DEF ListenersStop
<1>14. ASSUME NEW t \in Starts, Exec(t) \/ Return(t)
       PROVE  WebPhases'
  <2>1. CASE Exec(t)
    <3>1. ~Open' /\ ~Joining'
      BY <2>1, NextPhase DEF Exec, Alive, OpenPhases
    <3> QED
      BY <1>2, <2>1, <3>1 DEF Exec, EndImage
  <2> QED
    BY <1>7, <1>14, <2>1 DEF Return, Alive, OpenPhases
<1>15. ASSUME NEW t \in Starts, ClearStartMs(t)
       PROVE  WebPhases'
  <2>1. Open' = Open /\ Joining' = Joining
    BY <1>15 DEF ClearStartMs, Goto, Open, Joining, OpenPhases, TypeOK
  <2> QED
    BY <1>1, <1>2, <1>15, <2>1 DEF ClearStartMs, webVars
<1>16. ASSUME spc' = spc, UNCHANGED <<webRunning, webSock>>,
              hpc' \in {"none", "exited"} \/ hpc \notin {"none", "exited"}
              \/ webRunning
       PROVE  WebPhases'
  BY <1>16 DEF WebPhases
<1>17. CASE Http
  <2>1. CASE HttpTop \/ HttpFdSet \/ HttpIdle \/ HttpAccept
    BY <1>5, <1>16, <2>1
       DEF HttpTop, HttpFdSet, HttpIdle, HttpAccept, HttpGoto, Crash
  <2>2. ASSUME NEW c \in Conns, Spawn(c) \/ Inline(c)
        PROVE  WebPhases'
    BY <1>16, <2>2 DEF Spawn, Inline, HttpGoto
  <2> QED
    BY <1>17, <2>1, <2>2 DEF Http
<1>18. ASSUME NEW c \in Conns, Connect(c) \/ Post(c)
       PROVE  WebPhases'
  BY <1>5, <1>18 DEF Connect, Post
<1>19. ASSUME NEW c \in Conns, ReadRequest(c) \/ Serve(c)
       PROVE  WebPhases'
  <2>1. UNCHANGED webVars
        \/ (conn[c] \in {"iread", "iserve"} /\ HttpGoto("top"))
    BY <1>19 DEF ReadRequest, Serve, Finish
  <2>2. spc' = spc
    BY <1>19 DEF ReadRequest, Serve
  <2> QED
    BY <1>5, <1>16, <2>1, <2>2 DEF HttpGoto, ConnsExact
<1>20. CASE UNCHANGED vars
  BY <1>5, <1>20 DEF vars
<1> QED
  BY <1>6, <1>8, <1>9, <1>10, <1>11, <1>12, <1>13, <1>14, <1>15, <1>17, <1>18,
     <1>19, <1>20 DEF Next, Server, Request

-----------------------------------------------------------------------------
(* The backlog and the connection the accepting thread has.                *)
Waits == {"held", "iread", "iserve"}

LEMMA ConnsStep ==
  ASSUME TypeOK, OneAlive, WebPhases, ConnsExact, [Next]_vars
  PROVE  ConnsExact'
<1>1. conn \in [Conns -> ConnPcs] /\ backlog \in Seq(Conns)
      /\ Len(backlog) \in Nat
      /\ \A i \in 1 .. Len(backlog) : backlog[i] \in Conns
  BY DEF TypeOK
<1>2. ASSUME UNCHANGED <<webSock, hpc, conn, backlog>>
      PROVE  ConnsExact'
  BY <1>2 DEF ConnsExact
<1>3. ASSUME UNCHANGED <<webSock, conn, backlog>>,
             hpc \notin {"held", "inline"}
      PROVE  ConnsExact'
  BY <1>3 DEF ConnsExact
<1>4. ASSUME NEW c \in Conns, conn[c] # "pending",
             NEW p \in ConnPcs \ {"pending"}, conn' = [conn EXCEPT ![c] = p],
             p \in Waits => conn[c] \in Waits,
             p = "held" => hpc' = "held",
             p \in {"iread", "iserve"} => hpc' = "inline",
             hpc' = hpc \/ conn[c] \in Waits,
             UNCHANGED <<webSock, backlog>>
      PROVE  ConnsExact'
  <2>1. \A d \in Conns : conn'[d] = IF d = c THEN p ELSE conn[d]
    BY <1>1, <1>4
  <2>2. ~webSock' => backlog' = <<>> /\ \A d \in Conns : conn'[d] # "pending"
    BY <1>4, <2>1 DEF ConnsExact
  <2>3. /\ \A i \in 1 .. Len(backlog') : conn'[backlog'[i]] = "pending"
        /\ \A i, j \in 1 .. Len(backlog') : backlog'[i] = backlog'[j] => i = j
    BY <1>1, <1>4, <2>1 DEF ConnsExact
  <2>4. \A d, e \in Conns : {conn'[d], conn'[e]} \subseteq Waits => d = e
    BY <1>4, <2>1 DEF ConnsExact, Waits
  <2>5. ASSUME NEW d \in Conns, d # c, conn[d] \in Waits
        PROVE  hpc' = hpc
    BY <1>4, <2>5 DEF ConnsExact, Waits
  <2>6. \A d \in Conns : /\ conn'[d] = "held" => hpc' = "held"
                         /\ conn'[d] \in {"iread", "iserve"} => hpc' = "inline"
    BY <1>4, <2>1, <2>5 DEF ConnsExact, Waits
  <2> QED
    BY <2>2, <2>3, <2>4, <2>6 DEF ConnsExact, Waits
<1>5. ASSUME EndImage
      PROVE  ConnsExact'
  BY <1>5 DEF EndImage, ConnsExact
<1>6. CASE App
  BY <1>2, <1>6 DEF App, StartServer, CreateServerThread, StoreStartMs,
                    StopServer, webVars
<1>7. ASSUME NEW t \in Starts, LeaveMain(t)
      PROVE  ConnsExact'
  BY <1>2, <1>5, <1>7 DEF LeaveMain, webVars
<1>8. ASSUME NEW t \in Starts, ResetFlags(t) \/ Setup(t) \/ ListenersStart(t)
      PROVE  ConnsExact'
  BY <1>2, <1>7, <1>8 DEF ResetFlags, Setup, ListenersStart, webVars
<1>9. ASSUME NEW t \in Starts, WebStart(t)
      PROVE  ConnsExact'
  <2>1. CASE UNCHANGED webVars
    BY <1>2, <1>9, <2>1 DEF WebStart, webVars
  <2>2. CASE hpc' = "top" /\ webSock'
    <3>1. t \in Alive
      BY <1>9 DEF WebStart, Alive
    <3>2. ~Open /\ ~Joining
      BY <1>9, <3>1, OnePhase DEF WebStart, OpenPhases
    <3>3. ~webSock /\ hpc \in {"none", "exited"}
      BY <3>2 DEF WebPhases, Open, Joining
    <3>4. UNCHANGED <<conn, backlog>>
      BY <1>9 DEF WebStart
    <3> QED
      BY <2>2, <3>3, <3>4 DEF ConnsExact
  <2> QED
    BY <1>9, <2>1, <2>2 DEF WebStart
<1>10. ASSUME NEW t \in Starts, WebStop(t)
       PROVE  ConnsExact'
  <2>1. CASE webRunning
    <3>1. backlog' = <<>> /\ hpc' = hpc
      BY <1>10, <2>1 DEF WebStop
    <3>2. conn' = [c \in Conns |->
                     IF conn[c] = "pending" THEN "none" ELSE conn[c]]
      BY <1>10, <2>1 DEF WebStop
    <3>3. \A c \in Conns :
            conn'[c] = IF conn[c] = "pending" THEN "none" ELSE conn[c]
      BY <3>2
    <3> QED
      BY <3>1, <3>3 DEF ConnsExact
  <2>2. CASE ~webRunning
    <3>1. UNCHANGED <<webSock, hpc, conn, backlog>>
      BY <1>10, <2>2 DEF WebStop
    <3> QED
      BY <1>2, <3>1
  <2> QED
    BY <2>1, <2>2
<1>11. ASSUME NEW t \in Starts,
              LeaveLoop(t) \/ WebJoin(t) \/ ListenersStop(t) \/ Drain(t)
              \/ Free(t) \/ ClearStartMs(t)
       PROVE  ConnsExact'
  BY <1>2, <1>11 DEF LeaveLoop, WebJoin, ListenersStop, Drain, Free,
                     ClearStartMs, Crash, webVars
<1>12. ASSUME NEW t \in Starts, Exec(t) \/ Return(t)
       PROVE  ConnsExact'
  BY <1>5, <1>7, <1>12 DEF Exec, Return
<1>13. CASE HttpTop \/ HttpFdSet \/ HttpIdle
  BY <1>2, <1>3, <1>13 DEF HttpTop, HttpFdSet, HttpIdle, HttpGoto, Crash, webVars
<1>14. CASE HttpAccept
  <2> DEFINE h == Head(backlog)
  <2>1. backlog # <<>> /\ hpc = "select" /\ UNCHANGED webSock
        /\ backlog' = Tail(backlog)
    BY <1>14 DEF HttpAccept, HttpGoto
  <2>2. h = backlog[1] /\ Len(backlog') = Len(backlog) - 1 /\ h \in Conns
        /\ \A i \in 1 .. Len(backlog') : backlog'[i] = backlog[i + 1]
    BY <1>1, <2>1
  <2>3. /\ \A i \in 1 .. Len(backlog') : backlog'[i] # h
        /\ \A i, j \in 1 .. Len(backlog') : backlog'[i] = backlog'[j] => i = j
    BY <1>1, <2>2 DEF ConnsExact
  <2>4. \A i \in 1 .. Len(backlog') :
          backlog'[i] \in Conns /\ conn[backlog'[i]] = "pending"
    BY <1>1, <2>2 DEF ConnsExact
  <2>5. webSock
    BY <2>1 DEF ConnsExact
  <2>6. \A d \in Conns : conn[d] \notin Waits
    BY <2>1 DEF ConnsExact, Waits
  <2>7. PICK p \in {"held", "none"} :
          /\ conn' = [conn EXCEPT ![h] = p]
          /\ hpc' = IF p = "held" THEN "held" ELSE "top"
    BY <1>14 DEF HttpAccept, HttpGoto
  <2>8. \A d \in Conns : conn'[d] = IF d = h THEN p ELSE conn[d]
    BY <1>1, <2>2, <2>7
  <2>9. \A i \in 1 .. Len(backlog') : conn'[backlog'[i]] = "pending"
    BY <2>3, <2>4, <2>8
  <2>10. \A d \in Conns : conn'[d] \in Waits => d = h /\ conn'[d] = "held" /\ p = "held"
    BY <2>6, <2>7, <2>8 DEF Waits
  <2> HIDE DEF h
  <2> QED
    BY <2>1, <2>3, <2>5, <2>7, <2>9, <2>10 DEF ConnsExact, Waits
<1>15. ASSUME NEW c \in Conns, Connect(c)
       PROVE  ConnsExact'
  <2>1. webSock /\ conn[c] = "none" /\ UNCHANGED <<webSock, hpc>>
    BY <1>15 DEF Connect, webVars
  <2>2. conn' = [conn EXCEPT ![c] = "pending"] /\ backlog' = Append(backlog, c)
    BY <1>15 DEF Connect
  <2>3. \A d \in Conns : conn'[d] = IF d = c THEN "pending" ELSE conn[d]
    BY <1>1, <2>2
  <2>4. Len(backlog') = Len(backlog) + 1
        /\ \A i \in 1 .. Len(backlog') :
             backlog'[i] = IF i = Len(backlog') THEN c ELSE backlog[i]
    BY <1>1, <2>2
  <2>5. \A i \in 1 .. Len(backlog) : backlog[i] # c /\ backlog[i] \in Conns
                                     /\ conn[backlog[i]] = "pending"
    BY <1>1, <2>1 DEF ConnsExact
  <2>6. \A i \in 1 .. Len(backlog') : conn'[backlog'[i]] = "pending"
    BY <1>1, <2>3, <2>4, <2>5
  <2>7. \A i, j \in 1 .. Len(backlog') : backlog'[i] = backlog'[j] => i = j
    BY <1>1, <2>4, <2>5 DEF ConnsExact
  <2>8. \A d \in Conns : conn'[d] \in Waits => conn'[d] = conn[d]
    BY <2>3 DEF Waits
  <2> QED
    BY <2>1, <2>6, <2>7, <2>8 DEF ConnsExact, Waits
<1>16. ASSUME NEW c \in Conns, Spawn(c) \/ Inline(c)
       PROVE  ConnsExact'
  <2>1. PICK p \in {"read", "iread"} :
          /\ conn[c] = "held" /\ conn' = [conn EXCEPT ![c] = p]
          /\ hpc' = IF p = "iread" THEN "inline" ELSE "top"
          /\ UNCHANGED <<webSock, backlog>>
    BY <1>16 DEF Spawn, Inline, HttpGoto
  <2> QED
    BY <1>4, <2>1 DEF ConnPcs, Waits
<1>17. ASSUME NEW c \in Conns, Finish(c), UNCHANGED backlog,
              conn[c] \in {"read", "serve", "iread", "iserve"}
       PROVE  ConnsExact'
  <2>1. CASE conn[c] \in {"read", "serve"}
    BY <1>4, <1>17, <2>1 DEF Finish, webVars, ConnPcs, Waits
  <2>2. CASE conn[c] \in {"iread", "iserve"}
    <3>1. conn' = [conn EXCEPT ![c] = "none"] /\ UNCHANGED <<webSock, backlog>>
      BY <1>17, <2>2 DEF Finish, HttpGoto
    <3> QED
      BY <1>4, <2>2, <3>1 DEF ConnPcs, Waits
  <2> QED
    BY <1>17, <2>1, <2>2
<1>18. ASSUME NEW c \in Conns, ReadRequest(c)
       PROVE  ConnsExact'
  <2>1. CASE Finish(c)
    BY <1>17, <1>18, <2>1 DEF ReadRequest
  <2>2. CASE /\ conn' = [conn EXCEPT ![c] =
                           IF @ = "read" THEN "serve" ELSE "iserve"]
             /\ UNCHANGED webVars
    <3>1. CASE conn[c] = "read"
      BY <1>1, <1>4, <1>18, <2>2, <3>1 DEF ReadRequest, webVars, ConnPcs, Waits
    <3>2. CASE conn[c] = "iread"
      <4>1. conn' = [conn EXCEPT ![c] = "iserve"] /\ hpc = "inline"
        BY <1>1, <2>2, <3>2 DEF ConnsExact
      <4> QED
        BY <1>4, <1>18, <2>2, <3>2, <4>1 DEF ReadRequest, webVars, ConnPcs, Waits
    <3> QED
      BY <1>18, <3>1, <3>2 DEF ReadRequest
  <2> QED
    BY <1>18, <2>1, <2>2 DEF ReadRequest
<1>19. ASSUME NEW c \in Conns, Serve(c)
       PROVE  ConnsExact'
  BY <1>17, <1>19 DEF Serve
<1>20. ASSUME NEW c \in Conns, Post(c)
       PROVE  ConnsExact'
  BY <1>4, <1>20 DEF Post, webVars, ConnPcs, Waits
<1>21. CASE UNCHANGED vars
  BY <1>2, <1>21 DEF vars, webVars
<1> QED
  BY <1>6, <1>8, <1>9, <1>10, <1>11, <1>12, <1>13, <1>14, <1>15, <1>16, <1>18,
     <1>19, <1>20, <1>21 DEF Next, Server, Http, Request

-----------------------------------------------------------------------------
(* The places: a step leaves them alone, counts them anew, ends them with  *)
(* the process, or one thread takes one or gives one back.                 *)
LEMMA HoldersFinite ==
  ASSUME NEW S \in SUBSET Conns
  PROVE  IsFiniteSet(S) /\ Cardinality(S) \in Nat
<1>1. IsFiniteSet(S)
  BY FS_Subset, LifecycleAssumption DEF LifecycleAssumption
<1> QED
  BY <1>1, FS_CardinalityType

LEMMA PoolStep ==
  ASSUME TypeOK, OneAlive, WebPhases, ConnsExact, PoolExact, [Next]_vars
  PROVE  PoolExact'
<1>1. conn \in [Conns -> ConnPcs] /\ sem \in Nat /\ late \in Nat /\ Pool \in Nat
  BY LifecycleAssumption DEF TypeOK
<1>2. ASSUME Holders' = Holders, UNCHANGED poolVars,
             hpc' = "none" \/ hpc # "none"
      PROVE  PoolExact'
  BY <1>2 DEF PoolExact, PlacesExact, poolVars
<1>3. ASSUME UNCHANGED <<conn, poolVars>>, hpc' = "none" \/ hpc # "none"
      PROVE  PoolExact'
  <2>1. Holders' = Holders
    BY <1>3 DEF Holders
  <2> QED
    BY <1>2, <1>3, <2>1
<1>4. ASSUME EndImage
      PROVE  PoolExact'
  BY <1>4 DEF EndImage, PoolExact, PlacesExact
<1>5. CASE App
  BY <1>3, <1>5 DEF App, StartServer, CreateServerThread, StoreStartMs,
                    StopServer, webVars
<1>6. ASSUME NEW t \in Starts, LeaveMain(t)
      PROVE  PoolExact'
  BY <1>3, <1>4, <1>6 DEF LeaveMain, webVars
<1>7. ASSUME NEW t \in Starts, ResetFlags(t) \/ Setup(t) \/ ListenersStart(t)
      PROVE  PoolExact'
  BY <1>3, <1>6, <1>7 DEF ResetFlags, Setup, ListenersStart, webVars
<1>8. ASSUME NEW t \in Starts, WebStart(t)
      PROVE  PoolExact'
  <2>1. CASE UNCHANGED <<webVars, poolVars>>
    BY <1>3, <1>8, <2>1 DEF WebStart, webVars
  <2>2. CASE InitSemaphore
    <3>1. Holders' = Holders /\ old' = Holders
      BY <1>8, <2>2 DEF WebStart, Holders, InitSemaphore
    <3>2. Holders' \ old' = {}
      BY <3>1
    <3>3. Cardinality(Holders' \ old') = 0
      BY <3>2, FS_EmptySet
    <3> QED
      BY <1>1, <2>2, <3>1, <3>3 DEF InitSemaphore, PoolExact, PlacesExact
  <2> QED
    BY <1>8, <2>1, <2>2 DEF WebStart
<1>9. ASSUME NEW t \in Starts, WebStop(t)
      PROVE  PoolExact'
  <2>1. conn' = conn
        \/ conn' = [c \in Conns |->
                      IF conn[c] = "pending" THEN "none" ELSE conn[c]]
    BY <1>9 DEF WebStop
  <2>2. Holders' = Holders
    BY <2>1 DEF Holders
  <2>3. UNCHANGED <<hpc, poolVars>>
    BY <1>9 DEF WebStop
  <2> QED
    BY <1>2, <2>2, <2>3
<1>10. ASSUME NEW t \in Starts,
              LeaveLoop(t) \/ WebJoin(t) \/ ListenersStop(t) \/ Drain(t)
              \/ Free(t) \/ ClearStartMs(t)
       PROVE  PoolExact'
  BY <1>3, <1>10 DEF LeaveLoop, WebJoin, ListenersStop, Drain, Free,
                     ClearStartMs, Crash, webVars
<1>11. ASSUME NEW t \in Starts, Exec(t) \/ Return(t)
       PROVE  PoolExact'
  BY <1>4, <1>6, <1>11 DEF Exec, Return
<1>12. CASE HttpTop \/ HttpFdSet \/ HttpIdle
  BY <1>3, <1>12 DEF HttpTop, HttpFdSet, HttpIdle, HttpGoto, Crash, webVars
<1>13. ASSUME NEW c \in Conns, conn[c] \notin {"read", "serve", "post"},
              conn' = [conn EXCEPT ![c] = "none"]
              \/ conn' = [conn EXCEPT ![c] = "held"]
              \/ conn' = [conn EXCEPT ![c] = "pending"]
              \/ conn' = [conn EXCEPT ![c] = "iread"]
              \/ conn' = [conn EXCEPT ![c] = "iserve"]
       PROVE  Holders' = Holders
  BY <1>1, <1>13 DEF Holders
<1>14. CASE HttpAccept
  <2>1. 1 \in 1 .. Len(backlog) /\ Head(backlog) = backlog[1]
        /\ Head(backlog) \in Conns
    BY <1>14 DEF HttpAccept, TypeOK
  <2>2. conn[Head(backlog)] = "pending"
    BY <2>1 DEF ConnsExact
  <2>3. Holders' = Holders
    BY <1>13, <1>14, <2>1, <2>2 DEF HttpAccept
  <2> QED
    BY <1>2, <1>14, <2>3 DEF HttpAccept
<1>15. ASSUME NEW c \in Conns, Connect(c)
       PROVE  PoolExact'
  BY <1>2, <1>13, <1>15 DEF Connect, webVars
<1>16. ASSUME NEW c \in Conns, Inline(c)
       PROVE  PoolExact'
  BY <1>2, <1>13, <1>16 DEF Inline
<1>17. ASSUME NEW c \in Conns, Spawn(c)
       PROVE  PoolExact'
  <2>1. c \notin Holders /\ Holders' = Holders \cup {c} /\ old' = old
        /\ late' = late /\ sem' = sem - 1 /\ hpc # "none"
    BY <1>1, <1>17 DEF Spawn, Holders
  <2>2. c \notin Holders \ old /\ Holders' \ old' = (Holders \ old) \cup {c}
    BY <2>1 DEF PoolExact
  <2>3. IsFiniteSet(Holders \ old) /\ Cardinality(Holders \ old) \in Nat
    BY HoldersFinite DEF Holders
  <2>4. Cardinality(Holders' \ old') = Cardinality(Holders \ old) + 1
    BY <2>2, <2>3, FS_AddElement
  <2> QED
    BY <1>1, <2>1, <2>3, <2>4 DEF PoolExact, PlacesExact
<1>18. ASSUME NEW c \in Conns, Finish(c), UNCHANGED poolVars,
              conn[c] \in {"read", "serve", "iread", "iserve"}
       PROVE  PoolExact'
  <2>1. Holders' = Holders
    <3>1. CASE conn[c] \in {"read", "serve"}
      BY <1>1, <1>18, <3>1 DEF Finish, Holders
    <3>2. CASE conn[c] \in {"iread", "iserve"}
      <4>1. conn' = [conn EXCEPT ![c] = "none"]
        BY <1>18, <3>2 DEF Finish
      <4> QED
        BY <1>13, <3>2, <4>1
    <3> QED
      BY <1>18, <3>1, <3>2
  <2>2. hpc' = hpc \/ hpc = "inline"
    BY <1>18 DEF Finish, webVars, ConnsExact
  <2> QED
    BY <1>2, <1>18, <2>1, <2>2
<1>19. ASSUME NEW c \in Conns, ReadRequest(c)
       PROVE  PoolExact'
  <2>1. CASE Finish(c)
    BY <1>18, <1>19, <2>1 DEF ReadRequest
  <2>2. CASE /\ conn' = [conn EXCEPT ![c] =
                           IF @ = "read" THEN "serve" ELSE "iserve"]
             /\ UNCHANGED webVars
    <3>1. Holders' = Holders
      BY <1>1, <1>19, <2>2 DEF ReadRequest, Holders
    <3> QED
      BY <1>2, <1>19, <2>2, <3>1 DEF ReadRequest, webVars
  <2> QED
    BY <1>19, <2>1, <2>2 DEF ReadRequest
<1>20. ASSUME NEW c \in Conns, Serve(c)
       PROVE  PoolExact'
  BY <1>18, <1>20 DEF Serve
<1>21. ASSUME NEW c \in Conns, Post(c)
       PROVE  PoolExact'
  <2>1. c \in Holders /\ Holders' = Holders \ {c} /\ old' = old \ {c}
        /\ sem' = sem + 1 /\ hpc' = hpc
    BY <1>1, <1>21 DEF Post, Holders, webVars
  <2>2. IsFiniteSet(Holders \ old) /\ Cardinality(Holders \ old) \in Nat
    BY HoldersFinite DEF Holders
  <2>3. CASE c \in old
    <3>1. Holders' \ old' = Holders \ old /\ late' = late + 1
      BY <1>21, <2>1, <2>3 DEF Post
    <3>2. old' \subseteq Holders'
      BY <2>1 DEF PoolExact
    <3>3. Cardinality(Holders' \ old') = Cardinality(Holders \ old)
      BY <3>1
    <3>4. PlacesExact'
      BY <1>1, <2>1, <2>2, <3>1, <3>3 DEF PoolExact, PlacesExact
    <3> QED
      BY <3>2, <3>4 DEF PoolExact
  <2>4. CASE c \notin old
    <3>1. /\ c \in Holders \ old /\ late' = late
          /\ Holders' \ old' = (Holders \ old) \ {c}
      BY <1>21, <2>1, <2>4 DEF Post
    <3>2. Cardinality(Holders' \ old') = Cardinality(Holders \ old) - 1
      BY <2>2, <3>1, FS_RemoveElement
    <3> QED
      BY <1>1, <2>1, <2>2, <3>1, <3>2 DEF PoolExact, PlacesExact
  <2> QED
    BY <2>3, <2>4
<1>22. CASE UNCHANGED vars
  BY <1>3, <1>22 DEF vars, webVars
<1> QED
  BY <1>5, <1>7, <1>8, <1>9, <1>10, <1>11, <1>12, <1>14, <1>15, <1>16, <1>17,
     <1>19, <1>20, <1>21, <1>22 DEF Next, Server, Http, Request

-----------------------------------------------------------------------------
LEMMA Initially == Init => IndInv
<1> SUFFICES ASSUME Init PROVE IndInv
  OBVIOUS
<1>1. spc = [t \in Starts |->
               IF platform = "posix" /\ t = 1 THEN "setup" ELSE "none"]
      /\ conn = [c \in Conns |-> "none"] /\ backlog = <<>> /\ old = {}
      /\ platform \in Platforms /\ ~webRunning /\ hpc = "none" /\ ~webSock
      /\ apc = "idle" /\ serverRunning = FALSE
  BY DEF Init
<1>2. spc \in [Starts -> ServerPcs] /\ conn \in [Conns -> ConnPcs]
  BY <1>1 DEF ServerPcs, MainPcs, ConnPcs
<1>3. backlog \in Seq(Conns)
  BY <1>1
<1>4. TypeOK
  BY <1>2, <1>3 DEF Init, TypeOK, HttpPcs
<1>5. OneAlive
  BY <1>1 DEF OneAlive, Alive, Platforms
<1>6. WebPhases /\ ConnsExact
  BY <1>1 DEF WebPhases, ConnsExact
<1>7. PoolExact
  BY <1>1 DEF PoolExact, PlacesExact
<1> QED
  BY <1>4, <1>5, <1>6, <1>7 DEF IndInv

LEMMA Inductive == IndInv /\ [Next]_vars => IndInv'
  BY TypeStep, AliveInvariant, PhaseStep, ConnsStep, PoolStep DEF IndInv

LEMMA Invariant == Spec => []IndInv
  BY Initially, Inductive, PTL DEF Spec

LEMMA OneServerFollows ==
  ASSUME TypeOK, OneAlive
  PROVE  OneServer
<1>1. CASE Alive = {}
  BY <1>1, FS_EmptySet DEF OneServer, OneAlive
<1>2. ASSUME NEW t \in Alive
      PROVE  OneServer
  <2>1. Alive = {t}
    BY DEF OneAlive
  <2>2. Cardinality(Alive) = 1
    BY <2>1, FS_Singleton
  <2> QED
    BY <2>2 DEF OneServer, OneAlive
<1> QED
  BY <1>1, <1>2

LEMMA NoAcceptorFollows ==
  ASSUME IndInv
  PROVE  NoAcceptorLeft
<1> SUFFICES ASSUME NEW t \in Starts, spc[t] \in Stopped
             PROVE  /\ hpc \in {"none", "exited"}
                    /\ backlog = <<>>
                    /\ \A c \in Conns :
                         conn[c] \notin {"pending", "held", "iread", "iserve"}
  BY DEF NoAcceptorLeft
<1>1. t \in Alive /\ spc[t] \notin OpenPhases \cup {"webjoin"}
  BY DEF Stopped, Alive, OpenPhases
<1>2. ~Open /\ ~Joining
  BY <1>1, OnePhase DEF IndInv
<1>3. ~webSock /\ hpc \in {"none", "exited"}
  BY <1>2 DEF IndInv, WebPhases, Open, Joining
<1> QED
  BY <1>3 DEF IndInv, ConnsExact

(* The variables have their types in every reachable state.                *)
THEOREM TypeCorrect == Spec => []TypeOK
  BY Invariant, PTL DEF IndInv

(* The app never runs two servers in its process, whatever it presses and  *)
(* however the starts fail: startServer's mark and main()'s end agree.     *)
THEOREM OneServerCorrect == Spec => []OneServer
<1>1. IndInv => OneServer
  BY OneServerFollows DEF IndInv
<1> QED
  BY <1>1, Invariant, PTL

(* The semaphore and the threads account for every place of the pool in    *)
(* every run of the web server.                                            *)
THEOREM PlacesCorrect == Spec => []PlacesExact
  BY Invariant, PTL DEF IndInv, PoolExact

(* Without threads from before a run of the web server no more than        *)
(* WEBIF_MAX_THREADS requests have a thread.                               *)
THEOREM PoolBounded ==
  Spec => [](hpc # "none" /\ old = {} /\ late = 0 => Cardinality(Holders) <= Pool)
<1>1. ASSUME IndInv, hpc # "none", old = {}, late = 0
      PROVE  Cardinality(Holders) <= Pool
  <2>1. Holders \ old = Holders
    BY <1>1
  <2>2. Cardinality(Holders) \in Nat
    BY HoldersFinite DEF Holders
  <2> QED
    BY <1>1, <2>1, <2>2, LifecycleAssumption
       DEF IndInv, TypeOK, PoolExact, PlacesExact
<1> QED
  BY <1>1, Invariant, PTL

(* When main() frees the accounts, the bans and the channel names, the     *)
(* thread that accepts and serves inline has ended.                        *)
THEOREM NoAcceptorCorrect == Spec => []NoAcceptorLeft
<1>1. IndInv => NoAcceptorLeft
  BY NoAcceptorFollows
<1> QED
  BY <1>1, Invariant, PTL

-----------------------------------------------------------------------------
(* The join of webif_stop.  main() waits in it for a thread that is there  *)
(* (HttpThere), that is never stuck itself (HttpBusy), and that has only   *)
(* so many steps left (HttpTurns).                                         *)
HttpThere == webRunning \/ Joining => hpc # "none"

HttpBusy ==
  /\ hpc = "held" => \E c \in Conns : conn[c] = "held"
  /\ hpc = "inline" => \E c \in Conns : conn[c] \in {"iread", "iserve"}

HttpTurns ==
  [p \in HttpPcs |-> CASE p = "held" -> 3
                       [] p \in {"fdset", "select", "inline"} -> 2
                       [] p = "top" -> 1
                       [] OTHER -> 0]

ComesToJoin == Joining /\ hpc' # hpc => HttpTurns[hpc'] < HttpTurns[hpc]

(* While webif_stop waits, the accepting thread comes nearer to its end    *)
(* with each of its steps: it finishes the connection it holds, and        *)
(* accepts none any more, because the socket is closed.                    *)
JoinApproaches == [][ComesToJoin]_vars

LEMMA ThereStep ==
  ASSUME IndInv, HttpThere, [Next]_vars
  PROVE  HttpThere'
<1>1. TypeOK /\ OneAlive /\ spc \in [Starts -> ServerPcs]
  BY DEF IndInv, TypeOK
<1>2. ASSUME NEW t \in Starts, NEW p, p # "webjoin", Goto(t, p)
      PROVE  Joining' => Joining
  BY <1>1, <1>2 DEF Goto, Joining
<1>3. ASSUME webRunning' => webRunning, Joining' => Joining, hpc' = hpc
      PROVE  HttpThere'
  BY <1>3 DEF HttpThere
<1>4. ASSUME hpc' # "none"
      PROVE  HttpThere'
  BY <1>4 DEF HttpThere
<1>5. ASSUME NEW t \in Starts, spc[t] \in {"setup", "end"}, NEW p,
             p # "webjoin", Goto(t, p), EndImage
      PROVE  HttpThere'
  <2>1. t \in Alive /\ ~Joining
    BY <1>1, <1>5, OnePhase DEF Alive
  <2> QED
    BY <1>2, <1>5, <2>1 DEF EndImage, HttpThere
<1>6. ASSUME NEW t \in Starts, LeaveMain(t), spc[t] \in {"setup", "end"}
      PROVE  HttpThere'
  <2>1. CASE platform = "posix"
    BY <1>5, <1>6, <2>1 DEF LeaveMain
  <2>2. CASE platform # "posix"
    <3>1. Goto(t, "clear") /\ UNCHANGED webVars
      BY <1>6, <2>2 DEF LeaveMain
    <3> QED
      BY <1>2, <1>3, <3>1 DEF webVars
  <2> QED
    BY <2>1, <2>2
<1>7. CASE App
  <2>1. UNCHANGED webVars /\ (Joining' => Joining)
    BY <1>1, <1>2, <1>7 DEF App, StartServer, CreateServerThread, StoreStartMs,
                            StopServer, Joining
  <2> QED
    BY <1>3, <2>1 DEF webVars
<1>8. ASSUME NEW t \in Starts,
             ResetFlags(t) \/ ListenersStart(t) \/ LeaveLoop(t) \/ WebJoin(t)
             \/ Drain(t) \/ Free(t) \/ ClearStartMs(t)
      PROVE  HttpThere'
  <2>1. UNCHANGED webVars /\ (Joining' => Joining)
    BY <1>2, <1>8 DEF ResetFlags, ListenersStart, LeaveLoop, WebJoin, Drain,
                      Free, ClearStartMs
  <2> QED
    BY <1>3, <2>1 DEF webVars
<1>9. ASSUME NEW t \in Starts, Setup(t) \/ Return(t) \/ Exec(t)
      PROVE  HttpThere'
  <2>1. CASE Goto(t, "webstart") /\ UNCHANGED webVars
    BY <1>2, <1>3, <2>1 DEF webVars
  <2> QED
    BY <1>5, <1>6, <1>9, <2>1 DEF Setup, Return, Exec
<1>10. ASSUME NEW t \in Starts, WebStart(t) \/ ListenersStop(t)
       PROVE  HttpThere'
  <2>1. CASE UNCHANGED webVars /\ (Goto(t, "liststart") \/ Goto(t, "drain"))
    BY <1>2, <1>3, <2>1 DEF webVars
  <2>2. CASE UNCHANGED <<webVars, spc>>
    BY <1>3, <2>2 DEF webVars, Joining
  <2>3. CASE hpc' = "top"
    BY <1>4, <2>3
  <2> QED
    BY <1>10, <2>1, <2>2, <2>3 DEF WebStart, ListenersStop, Crash
<1>11. ASSUME NEW t \in Starts, WebStop(t)
       PROVE  HttpThere'
  <2>1. CASE webRunning
    BY <1>4, <1>11, <2>1 DEF WebStop, HttpThere
  <2>2. CASE ~webRunning
    BY <1>2, <1>3, <1>11, <2>2 DEF WebStop
  <2> QED
    BY <2>1, <2>2
<1>12. ASSUME UNCHANGED <<webRunning, spc>>, hpc' = hpc \/ hpc' # "none"
       PROVE  HttpThere'
  BY <1>12 DEF HttpThere, Joining
<1>13. CASE Http
  BY <1>12, <1>13 DEF Http, HttpTop, HttpFdSet, HttpIdle, HttpAccept, Spawn,
                      Inline, HttpGoto, Crash, webVars
<1>14. ASSUME NEW c \in Conns, Connect(c) \/ Request(c)
       PROVE  HttpThere'
  BY <1>12, <1>14 DEF Connect, Request, ReadRequest, Serve, Post, Finish,
                      HttpGoto, webVars
<1>15. CASE UNCHANGED vars
  BY <1>12, <1>15 DEF vars, webVars
<1> QED
  BY <1>7, <1>8, <1>9, <1>10, <1>11, <1>13, <1>14, <1>15 DEF Next, Server

LEMMA BusyStep ==
  ASSUME IndInv, HttpBusy, [Next]_vars
  PROVE  HttpBusy'
<1>1. /\ conn \in [Conns -> ConnPcs] /\ backlog \in Seq(Conns)
      /\ ConnsExact
  BY DEF IndInv, TypeOK
<1>2. ASSUME hpc' \notin {"held", "inline"}
      PROVE  HttpBusy'
  BY <1>2 DEF HttpBusy
<1>3. ASSUME hpc' = hpc,
             \A d \in Conns :
               /\ conn[d] = "held" => conn'[d] = "held"
               /\ conn[d] \in {"iread", "iserve"}
                    => conn'[d] \in {"iread", "iserve"}
      PROVE  HttpBusy'
  BY <1>3 DEF HttpBusy
<1>4. ASSUME UNCHANGED <<webVars, conn>>
      PROVE  HttpBusy'
  BY <1>3, <1>4 DEF webVars
<1>5. ASSUME EndImage
      PROVE  HttpBusy'
  BY <1>2, <1>5 DEF EndImage
<1>6. CASE App
  BY <1>4, <1>6 DEF App, StartServer, CreateServerThread, StoreStartMs,
                    StopServer
<1>7. ASSUME NEW t \in Starts, Server(t), ~WebStart(t), ~WebStop(t)
      PROVE  HttpBusy'
  BY <1>4, <1>5, <1>7
     DEF Server, ResetFlags, Setup, ListenersStart, LeaveLoop, WebJoin,
         ListenersStop, Drain, Free, Exec, Return, ClearStartMs, LeaveMain,
         Crash
<1>8. ASSUME NEW t \in Starts, WebStart(t)
      PROVE  HttpBusy'
  BY <1>2, <1>4, <1>8 DEF WebStart
<1>9. ASSUME NEW t \in Starts, WebStop(t)
      PROVE  HttpBusy'
  <2>1. hpc' = hpc
    BY <1>9 DEF WebStop
  <2>2. \A d \in Conns : conn'[d] = conn[d] \/ conn[d] = "pending"
    BY <1>1, <1>9 DEF WebStop
  <2> QED
    BY <1>3, <2>1, <2>2
<1>10. CASE HttpTop \/ HttpFdSet \/ HttpIdle
  BY <1>2, <1>4, <1>10 DEF HttpTop, HttpFdSet, HttpIdle, HttpGoto, Crash
<1>11. CASE HttpAccept
  <2>1. Head(backlog) \in Conns
    BY <1>1, <1>11 DEF HttpAccept
  <2>2. CASE hpc' = "held" /\ conn' = [conn EXCEPT ![Head(backlog)] = "held"]
    BY <1>1, <2>1, <2>2 DEF HttpBusy
  <2> QED
    BY <1>2, <1>11, <2>2 DEF HttpAccept, HttpGoto
<1>12. ASSUME NEW c \in Conns, Spawn(c)
       PROVE  HttpBusy'
  BY <1>2, <1>12 DEF Spawn, HttpGoto
<1>13. ASSUME NEW c \in Conns, Inline(c)
       PROVE  HttpBusy'
  BY <1>1, <1>13 DEF Inline, HttpGoto, HttpBusy
<1>14. ASSUME NEW c \in Conns, Finish(c)
       PROVE  HttpBusy'
  <2>1. CASE conn[c] \in {"read", "serve"}
    BY <1>1, <1>3, <1>14, <2>1 DEF Finish, webVars
  <2>2. CASE conn[c] \notin {"read", "serve"}
    BY <1>2, <1>14, <2>2 DEF Finish, HttpGoto
  <2> QED
    BY <2>1, <2>2
<1>15. ASSUME NEW c \in Conns, Request(c)
       PROVE  HttpBusy'
  <2>1. CASE UNCHANGED webVars /\ conn[c] \in {"read", "iread"}
             /\ conn' = [conn EXCEPT ![c] =
                           IF @ = "read" THEN "serve" ELSE "iserve"]
    BY <1>1, <1>3, <2>1 DEF webVars
  <2>2. CASE Post(c)
    BY <1>1, <1>3, <2>2 DEF Post, webVars
  <2> QED
    BY <1>14, <1>15, <2>1, <2>2 DEF Request, ReadRequest, Serve
<1>16. ASSUME NEW c \in Conns, Connect(c)
       PROVE  HttpBusy'
  BY <1>1, <1>3, <1>16 DEF Connect, webVars
<1>17. CASE UNCHANGED vars
  BY <1>4, <1>17 DEF vars
<1> QED
  BY <1>6, <1>7, <1>8, <1>9, <1>10, <1>11, <1>12, <1>13, <1>15, <1>16, <1>17
     DEF Next, Http

LEMMA JoinStep ==
  ASSUME IndInv, [Next]_vars
  PROVE  ComesToJoin
<1> SUFFICES ASSUME Joining, hpc' # hpc
             PROVE  HttpTurns[hpc'] < HttpTurns[hpc]
  BY DEF ComesToJoin
<1>1. TypeOK /\ OneAlive /\ ConnsExact
  BY DEF IndInv
<1>2. ~webSock /\ ~webRunning /\ backlog = <<>>
  <2>1. PICK t \in Alive : spc[t] = "webjoin"
    BY DEF Joining, Alive
  <2>2. ~Open
    BY <1>1, <2>1, OnePhase DEF OpenPhases
  <2> QED
    BY <2>2 DEF IndInv, WebPhases, Open, ConnsExact
<1>3. ASSUME NEW t \in Starts, Server(t)
      PROVE  FALSE
  <2>1. spc[t] \in {"webstart", "setup", "end"}
    BY <1>3 DEF Server, ResetFlags, Setup, WebStart, ListenersStart, LeaveLoop,
                WebStop, WebJoin, ListenersStop, Drain, Free, Exec, Return,
                ClearStartMs, Crash, webVars
  <2> QED
    BY <1>1, <2>1, OnePhase DEF Alive
<1>4. \/ hpc = "top" /\ hpc' = "exited"
      \/ hpc \in {"fdset", "select", "inline"} /\ hpc' = "top"
      \/ hpc = "held" /\ hpc' \in {"top", "inline"}
  <2>1. CASE App \/ UNCHANGED vars \/ \E c \in Conns : Connect(c)
    BY <2>1 DEF App, StartServer, CreateServerThread, StoreStartMs, StopServer,
                Connect, vars, webVars
  <2>2. CASE Http
    BY <1>2, <2>2 DEF Http, HttpTop, HttpFdSet, HttpIdle, HttpAccept, Spawn,
                      Inline, HttpGoto, Crash, webVars
  <2>3. ASSUME NEW c \in Conns, Request(c)
        PROVE  hpc = "inline" /\ hpc' = "top"
    BY <1>1, <2>3 DEF Request, ReadRequest, Serve, Post, Finish, HttpGoto,
                      webVars, ConnsExact
  <2> QED
    BY <1>3, <2>1, <2>2, <2>3 DEF Next
<1> QED
  BY <1>4 DEF HttpTurns, HttpPcs

(* webif_stop never waits for a thread that was not created, and the       *)
(* thread it waits for has a connection to serve whenever it is serving.   *)
THEOREM JoinAnswered == Spec => [](HttpThere /\ HttpBusy)
<1>1. Init => HttpThere /\ HttpBusy
  BY DEF Init, HttpThere, HttpBusy, Joining
<1>2. IndInv /\ HttpThere /\ HttpBusy /\ [Next]_vars => HttpThere' /\ HttpBusy'
  BY ThereStep, BusyStep
<1> QED
  BY <1>1, <1>2, Invariant, PTL DEF Spec

(* What StopEnds rests on besides the scheduler: the join comes nearer.    *)
THEOREM JoinCorrect == Spec => JoinApproaches
<1>1. IndInv /\ [Next]_vars => [ComesToJoin]_vars
  BY JoinStep
<1> QED
  BY <1>1, Invariant, PTL DEF Spec, JoinApproaches
=============================================================================
