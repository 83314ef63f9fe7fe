-------------------------------- MODULE Log --------------------------------
(***************************************************************************)
(* The logger: threads put lines into a bounded ring queue under s_wq_mtx,  *)
(* one writer thread takes them out without the mutex and keeps the latest  *)
(* ones in a second ring, which the web log page and the Android app poll   *)
(* by line id.  main() flushes the queue and stops the writer at the end,   *)
(* while detached handler threads may still be logging.                    *)
(*                                                                         *)
(* A line is a number, in the order in which the threads enter emit_line.   *)
(* Repeated lines, which emit_line only counts, are left out, and so is the *)
(* usage file, which is changed and written the way the log file is.       *)
(*                                                                         *)
(* A log file is the number of the call of log_set_file that asked for it; *)
(* the call may have asked for none, or its file may not open.  Only the   *)
(* writer opens, rotates and writes files, so a call leaves its path to it. *)
(***************************************************************************)
EXTENDS Naturals, Sequences

CONSTANTS
  Threads,  \* the threads that log, apart from main()
  Main,
  Readers,  \* the web log page, the Android app
  WqSize,   \* WQ_SIZE
  RingMax,  \* LOG_RING_MAX
  MaxPoll,  \* WEB_MAX_LINES_POLL, maxLines
  MaxLines, \* bound: lines that threads other than main() log
  MaxFiles, \* bound: calls of log_set_file
  None

ASSUME SizesAssumption ==
  /\ WqSize \in Nat \ {0}
  /\ RingMax \in Nat \ {0}
  /\ MaxPoll \in Nat \ {0}
  /\ MaxLines \in Nat
  /\ MaxFiles \in Nat \ {0}
ASSUME NamesAssumption ==
  /\ Main \notin Threads
  /\ None \notin Nat

VARIABLES
  wqRunning, \* s_wq_running
  wq,        \* s_wq
  head,      \* s_wq_head
  tail,      \* s_wq_tail
  tpc,       \* per thread: where it is in emit_line
  lines,     \* history: the number of lines logged
  line,      \* per thread: the line inside emit_line, or None
  asked,     \* the last call of log_set_file: s_pending_log
  pending,   \* s_pending_log_set
  file,      \* the call whose path the writer took last: s_log_path
  open,      \* s_log_fp is an open file
  wpc,       \* where the writer thread is
  mpc,       \* where main() is
  ring,      \* s_ring
  next,      \* per reader: the id it polls from
  got,       \* history, per reader: the pairs of id and line it received
  shown,     \* history: the lines that entered the ring, in order
  accepted,  \* history: the lines that entered the queue, in order
  owed,      \* history: how many of them while wqRunning was set
  mark,      \* history: how many when main() began its last flush
  due        \* history, per line in the queue: the oldest file it may go to

queueVars == <<wqRunning, wq, head, tail, accepted, owed>>
fileVars == <<asked, pending, file, open, due>>
ringVars == <<ring, shown>>
readerVars == <<next, got>>
loggerVars == <<tpc, line, lines>>
vars == <<queueVars, ringVars, readerVars, loggerVars, fileVars, wpc, mpc,
          mark>>

Loggers == Threads \cup {Main}
Lines == 1 .. MaxLines + 1
s_ring_total == Len(shown)

Init ==
  /\ wqRunning = TRUE
  /\ wq = [i \in 0 .. WqSize - 1 |-> None]
  /\ head = 0
  /\ tail = 0
  /\ tpc = [t \in Loggers |-> "idle"]
  /\ lines = 0
  /\ line = [t \in Loggers |-> None]
  /\ wpc = "top"
  /\ mpc = "running"
  /\ ring = [i \in 0 .. RingMax - 1 |-> None]
  /\ next = [r \in Readers |-> 0]
  /\ got = [r \in Readers |-> {}]
  /\ shown = <<>>
  /\ accepted = <<>>
  /\ owed = 0
  /\ mark = 0
  /\ asked \in {0, 1}
  /\ pending = (asked = 1)
  /\ file = 0
  /\ open = FALSE
  /\ due = <<>>

(* s_wq_mtx is held across steps only by a thread that fills a slot.        *)
MutexFree == \A t \in Loggers : tpc[t] # "publish"

(* pthread_cond_signal(&s_wq_cond) and pthread_cond_broadcast(&s_wq_empty): *)
(* who sleeps on the condition looks at its predicate again.                *)
WakeWriter == wpc' = IF wpc = "asleep" THEN "locked" ELSE wpc

EmitReturns(t) ==
  /\ tpc' = [tpc EXCEPT ![t] = "idle"]
  /\ line' = [line EXCEPT ![t] = None]
  /\ UNCHANGED lines

RingPush(l) ==
  /\ ring' = [ring EXCEPT ![s_ring_total % RingMax] = l]
  /\ shown' = Append(shown, l)

-----------------------------------------------------------------------------
(* emit_line: the thread reads s_wq_running and decides where the line goes. *)
Emit(t) ==
  /\ tpc[t] = "idle"
  /\ IF t = Main THEN mpc = "say" ELSE lines < MaxLines
  /\ lines' = lines + 1
  /\ line' = [line EXCEPT ![t] = lines + 1]
  /\ tpc' = [tpc EXCEPT ![t] = IF wqRunning THEN "push" ELSE "direct"]
  /\ mpc' = IF t = Main THEN "saying" ELSE mpc
  /\ UNCHANGED <<queueVars, ringVars, readerVars, fileVars, wpc, mark>>

FullNever == FALSE

Full == (head + 1) % WqSize = tail % WqSize

(* wq_push takes the mutex and, unless the queue is full, fills the slot.   *)
Fill(t) ==
  /\ tpc[t] = "push"
  /\ MutexFree
  /\ ~Full
  /\ wq' = [wq EXCEPT ![head % WqSize] = line[t]]
  /\ tpc' = [tpc EXCEPT ![t] = "publish"]
  /\ UNCHANGED <<wqRunning, head, tail, accepted, owed, fileVars, ringVars,
                 readerVars, lines, line, wpc, mpc, mark>>

DropLine(t) ==
  /\ tpc[t] = "push"
  /\ MutexFree
  /\ Full
  /\ EmitReturns(t)
  /\ UNCHANGED <<queueVars, ringVars, readerVars, fileVars, wpc, mpc, mark>>

(* From here the writer takes lines without looking for a new file.         *)
Drains ==
  {"drain", "written", "drain last", "written last", "drained last", "exited"}

PublishSilently(t) ==
  /\ tpc[t] = "publish"
  /\ head' = head + 1
  /\ accepted' = Append(accepted, line[t])
  /\ owed' = IF wqRunning THEN head + 1 ELSE owed
  /\ due' = Append(due, IF wpc \in Drains THEN file ELSE asked)
  /\ EmitReturns(t)
  /\ UNCHANGED <<wqRunning, wq, tail, asked, pending, file, open, ringVars,
                 readerVars, wpc, mpc, mark>>

(* The line becomes visible, the writer is signalled, the mutex released.   *)
Publish(t) ==
  /\ tpc[t] = "publish"
  /\ head' = head + 1
  /\ accepted' = Append(accepted, line[t])
  /\ owed' = IF wqRunning THEN head + 1 ELSE owed
  /\ due' = Append(due, IF wpc \in Drains THEN file ELSE asked)
  /\ EmitReturns(t)
  /\ WakeWriter
  /\ UNCHANGED <<wqRunning, wq, tail, asked, pending, file, open, ringVars,
                 readerVars, mpc, mark>>

(* Without a writer the thread puts the line into the ring itself.          *)
Direct(t) ==
  /\ tpc[t] = "direct"
  /\ RingPush(line[t])
  /\ EmitReturns(t)
  /\ UNCHANGED <<queueVars, readerVars, fileVars, wpc, mpc, mark>>

-----------------------------------------------------------------------------
(* writer_thread.  After it has seen s_wq_running cleared it drains once    *)
(* more; the places of that last round are marked "last".                  *)
WriterGoes(from, to) == wpc = from /\ wpc' = to
WriterOnly ==
  UNCHANGED <<queueVars, ringVars, readerVars, loggerVars, fileVars, mpc,
              mark>>

(* The thread returns as soon as it sees the flag cleared.                  *)
WriterTopExits ==
  /\ WriterGoes("top", IF wqRunning THEN "locked" ELSE "exited")
  /\ WriterOnly

WriterTop ==
  /\ WriterGoes("top", IF wqRunning THEN "locked" ELSE "apply last")
  /\ WriterOnly

(* The wait loop, entered with the mutex.                                  *)
WriterWaits ==
  /\ MutexFree
  /\ WriterGoes("locked",
                IF head = tail /\ wqRunning THEN "asleep" ELSE "apply")
  /\ WriterOnly

(* Only when no line waits.                                                *)
ApplyFileWhenIdle(apply, drain) ==
  /\ WriterGoes(apply, drain)
  /\ IF pending /\ head = tail
     THEN pending' = FALSE /\ file' = asked /\ open' \in BOOLEAN
     ELSE UNCHANGED <<pending, file, open>>
  /\ UNCHANGED <<queueVars, ringVars, readerVars, loggerVars, asked, due, mpc,
                 mark>>

(* apply_pending_files, under s_file_mtx: the path asked for last, if any.  *)
ApplyFile(apply, drain) ==
  /\ WriterGoes(apply, drain)
  /\ pending' = FALSE
  /\ IF pending
     THEN file' = asked /\ open' \in BOOLEAN
     ELSE UNCHANGED <<file, open>>
  /\ UNCHANGED <<queueVars, ringVars, readerVars, loggerVars, asked, due, mpc,
                 mark>>

(* The line goes to the file, if one is open; when it has reached its size  *)
(* it is renamed first, and the new one may not open.                      *)
WriteFile ==
  /\ \/ UNCHANGED open
     \/ open /\ open' = FALSE
  /\ due' = Tail(due)
  /\ UNCHANGED <<asked, pending, file>>

(* do ... while instead of while.                                          *)
WriteLineUnchecked(drain, written) ==
  /\ WriterGoes(drain, written)
  /\ RingPush(wq[tail % WqSize])
  /\ UNCHANGED <<queueVars, readerVars, loggerVars, fileVars, mpc, mark>>

(* writer_drain, one line: it goes out while its slot is still taken ...    *)
WriteLine(drain, written) ==
  /\ tail # head
  /\ WriterGoes(drain, written)
  /\ WriteFile
  /\ RingPush(wq[tail % WqSize])
  /\ UNCHANGED <<queueVars, readerVars, loggerVars, mpc, mark>>

(* ... and then the slot is cleared and given back.                        *)
AdvanceTail(written, drain) ==
  /\ WriterGoes(written, drain)
  /\ wq' = [wq EXCEPT ![tail % WqSize] = None]
  /\ tail' = tail + 1
  /\ UNCHANGED <<wqRunning, head, accepted, owed, fileVars, ringVars,
                 readerVars, loggerVars, mpc, mark>>

(* The queue was empty when the writer last looked.                         *)
DrainEnds(drain, drained) ==
  /\ tail = head
  /\ WriterGoes(drain, drained)
  /\ WriterOnly

(* By now it may not be; whoever waits in log_flush is woken anyhow.        *)
WakeFlush(drained, then) ==
  /\ MutexFree
  /\ WriterGoes(drained, then)
  /\ mpc' = CASE mpc = "asleep 1" -> "flush 1"
              [] mpc = "asleep 2" -> "flush 2"
              [] OTHER -> mpc
  /\ UNCHANGED <<queueVars, ringVars, readerVars, loggerVars, fileVars, mark>>

Writer ==
  \/ WriterTop
  \/ WriterWaits
  \/ ApplyFile("apply", "drain")
  \/ ApplyFile("apply last", "drain last")
  \/ WriteLine("drain", "written")
  \/ AdvanceTail("written", "drain")
  \/ DrainEnds("drain", "drained")
  \/ WakeFlush("drained", "top")
  \/ WriteLine("drain last", "written last")
  \/ AdvanceTail("written last", "drain last")
  \/ DrainEnds("drain last", "drained last")
  \/ WakeFlush("drained last", "exited")

-----------------------------------------------------------------------------
(* main() in its loop, and after it: log_flush, then log_shutdown.          *)
MainGoes(from, to) == mpc = from /\ mpc' = to
MainOnly ==
  UNCHANGED <<queueVars, ringVars, readerVars, loggerVars, fileVars, wpc, mark>>

(* log_set_file, when main() has reloaded the configuration: the path is    *)
(* left for the writer, and then the writer is signalled.                  *)
SetFile ==
  /\ asked < MaxFiles
  /\ MainGoes("running", "set")
  /\ asked' = asked + 1
  /\ pending' = TRUE
  /\ UNCHANGED <<queueVars, ringVars, readerVars, loggerVars, file, open, due,
                 wpc, mark>>

SignalFile ==
  /\ MutexFree
  /\ MainGoes("set", "running")
  /\ WakeWriter
  /\ UNCHANGED <<queueVars, ringVars, readerVars, loggerVars, fileVars, mark>>

BeginFlush ==
  /\ MainGoes("running", "flush 1")
  /\ MainOnly

FlushWaits(flush, asleep) ==
  /\ MutexFree
  /\ head # tail
  /\ MainGoes(flush, asleep)
  /\ MainOnly

FlushReturnsOneEarly(flush, then) ==
  /\ MutexFree
  /\ head <= tail + 1
  /\ MainGoes(flush, then)
  /\ MainOnly

FlushReturns(flush, then) ==
  /\ MutexFree
  /\ head = tail
  /\ MainGoes(flush, then)
  /\ MainOnly

(* The line "shutting down" is out of main()'s hands.                      *)
BeginLastFlush ==
  /\ tpc[Main] = "idle"
  /\ MainGoes("saying", "flush 2")
  /\ mark' = head
  /\ UNCHANGED <<queueVars, ringVars, readerVars, loggerVars, fileVars, wpc>>

StopWriter ==
  /\ MainGoes("stop", "signal")
  /\ wqRunning' = FALSE
  /\ UNCHANGED <<wq, head, tail, accepted, owed, fileVars, ringVars, readerVars,
                 loggerVars, wpc, mark>>

SignalWriter ==
  /\ MutexFree
  /\ MainGoes("signal", "join")
  /\ WakeWriter
  /\ UNCHANGED <<queueVars, ringVars, readerVars, loggerVars, fileVars, mark>>

(* ... and close the files.                                                *)
JoinWriter ==
  /\ wpc = "exited"
  /\ MainGoes("join", "closed")
  /\ open' = FALSE
  /\ UNCHANGED <<queueVars, ringVars, readerVars, loggerVars, asked, pending,
                 file, due, wpc, mark>>

MainThread ==
  \/ SetFile
  \/ SignalFile
  \/ BeginFlush
  \/ FlushWaits("flush 1", "asleep 1")
  \/ FlushReturns("flush 1", "say")
  \/ BeginLastFlush
  \/ FlushWaits("flush 2", "asleep 2")
  \/ FlushReturns("flush 2", "stop")
  \/ StopWriter
  \/ SignalWriter
  \/ JoinWriter

-----------------------------------------------------------------------------
Least(a, b) == IF a < b THEN a ELSE b
Most(a, b) == IF a < b THEN b ELSE a

OldestLate ==
  IF s_ring_total > RingMax THEN s_ring_total - RingMax - 1 ELSE 0

(* The oldest id the ring still holds.                                     *)
Oldest == IF s_ring_total > RingMax THEN s_ring_total - RingMax ELSE 0

(* log_ring_since, for a reader that continues from the id it was given:    *)
(* the newest one, also when the poll is cut short.                        *)
Poll(r) ==
  LET from == Most(next[r], Oldest)
      end == Least(s_ring_total, from + MaxPoll)
  IN /\ next' = [next EXCEPT ![r] = s_ring_total]
     /\ got' = [got EXCEPT ![r] =
                  @ \cup {<<i, ring[i % RingMax]>> : i \in from .. end - 1}]
     /\ UNCHANGED <<queueVars, ringVars, loggerVars, fileVars, wpc, mpc, mark>>

Logger(t) ==
  \/ Fill(t)
  \/ DropLine(t)
  \/ Publish(t)
  \/ Direct(t)

Next ==
  \/ \E t \in Loggers : Emit(t) \/ Logger(t)
  \/ Writer
  \/ MainThread
  \/ \E r \in Readers : Poll(r)

Spec == Init /\ [][Next]_vars

(* Every thread runs on; nobody is obliged to log, to poll or to stop the   *)
(* server.                                                                 *)
Fairness ==
  /\ WF_vars(Writer)
  /\ WF_vars(MainThread /\ mpc # "running")
  /\ WF_vars(Emit(Main))
  /\ \A t \in Loggers : WF_vars(Logger(t))

FairSpec == Spec /\ Fairness

-----------------------------------------------------------------------------
TypeOK ==
  /\ wqRunning \in BOOLEAN
  /\ wq \in [0 .. WqSize - 1 -> Lines \cup {None}]
  /\ head \in Nat /\ tail \in 0 .. head
  /\ tpc \in [Loggers -> {"idle", "push", "publish", "direct"}]
  /\ lines \in 0 .. MaxLines + 1
  /\ line \in [Loggers -> Lines \cup {None}]
  /\ asked \in 0 .. MaxFiles /\ file \in 0 .. asked
  /\ pending \in BOOLEAN /\ open \in BOOLEAN
  /\ wpc \in {"top", "locked", "asleep", "apply", "drain", "written", "drained",
              "apply last", "drain last", "written last", "drained last",
              "exited"}
  /\ mpc \in {"running", "set", "flush 1", "asleep 1", "say", "saying",
              "flush 2", "asleep 2", "stop", "signal", "join", "closed"}
  /\ ring \in [0 .. RingMax - 1 -> Lines \cup {None}]
  /\ next \in [Readers -> Nat]
  /\ shown \in Seq(Lines)
  /\ accepted \in Seq(Lines)
  /\ owed \in 0 .. head /\ mark \in 0 .. head
  /\ due \in Seq(0 .. MaxFiles)

(* The writer shows exactly the lines the queue accepted, in that order and *)
(* each once, although it reads the slots with no mutex while threads fill   *)
(* others and the indices go round.                                        *)
QueueIsFifo ==
  LET written == tail + (IF wpc \in {"written", "written last"} THEN 1 ELSE 0)
  IN wqRunning => shown = SubSeq(accepted, 1, written)

(* A line goes to no file older than it should: once log_set_file has left  *)
(* a path, that file gets every line that is accepted while the writer     *)
(* sleeps, or when it has finished a round; only a round that has begun    *)
(* before goes on with the old one.                                        *)
FileFollows ==
  wpc \in {"drain", "drain last"} /\ due # <<>> => file >= Head(due)

Shown(n) ==
  n <= Len(accepted) /\ \E i \in 1 .. Len(shown) : shown[i] = accepted[n]

(* When main() has come out of its last log_flush, every line accepted      *)
(* before it went in has been shown.                                       *)
FlushedMeansShown ==
  mpc \in {"stop", "signal", "join", "closed"} => \A n \in 1 .. mark : Shown(n)

(* A reader never takes a line for another one: next to an id it has the    *)
(* line of that id, although the ring has gone round under it and its polls *)
(* are shorter than the ring.                                              *)
ReaderExact ==
  \A r \in Readers :
    \A pair \in got[r] :
      \E i \in 0 .. s_ring_total - 1 : pair = <<i, shown[i + 1]>>

(* A line the queue accepted while the logger was running is shown, also    *)
(* when the shutdown begins at that moment.                                *)
OwedIsShown == \A n \in Lines : owed >= n ~> Shown(n)

(* main() gets through the flushes and the join, no wake-up is lost, and   *)
(* then no path is left that the writer has not looked at, and no file     *)
(* open.                                                                   *)
ShutdownEnds == (mpc = "flush 1") ~> (mpc = "closed" /\ ~pending /\ ~open)
=============================================================================
