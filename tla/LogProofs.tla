----------------------------- MODULE LogProofs ------------------------------
(***************************************************************************)
(* Proofs of the safety properties of Log, for any number of threads and   *)
(* readers and queues, rings and files of any number.                      *)
(*                                                                         *)
(* The indices of the queue only grow and are at most WqSize - 1 apart, so *)
(* the slots of the lines between them are all different (ModInj); each    *)
(* slot holds the line accepted under its index (QueueInv).  What the      *)
(* writer takes out is therefore the next accepted line (ShownInv), and it *)
(* goes to a file that is not older than it should be (FileInv).  The same *)
(* argument for the second ring (RingInv) gives what a reader gets         *)
(* (ReaderInv).  SleepInv and LastInv are about the condition variables    *)
(* and the end: no signal is missed and nothing is left.                   *)
(***************************************************************************)
EXTENDS Log, Integers, TLAPS

(* The number of lines the writer has put out.                             *)
Written == tail + (IF wpc \in {"written", "written last"} THEN 1 ELSE 0)

BeforeLastLine == {"running", "set", "flush 1", "asleep 1", "say"}

LinesInv ==
  /\ \A t \in Loggers : tpc[t] # "idle" => line[t] \in Lines
  /\ \A t \in Loggers : tpc[t] = "direct" => ~wqRunning
  /\ mpc \in BeforeLastLine => lines <= MaxLines

QueueInv ==
  /\ Len(accepted) = head
  /\ head < tail + WqSize
  /\ Written <= head
  /\ \A i \in tail .. head - 1 : wq[i % WqSize] = accepted[i + 1]
  /\ \A t \in Loggers :
       tpc[t] = "publish" =>
         head + 1 < tail + WqSize /\ wq[head % WqSize] = line[t]
  /\ \A s, t \in Loggers : tpc[s] = "publish" /\ tpc[t] = "publish" => s = t

ShownInv ==
  /\ wqRunning => /\ Len(shown) = Written
                  /\ \A i \in 1 .. Written : shown[i] = accepted[i]
  /\ \A n \in 1 .. Written : Shown(n)
  /\ mpc \in {"stop", "signal", "join", "closed"} => mark <= tail

FileInv ==
  /\ Len(due) = head - Written
  /\ ~pending => file = asked
  /\ \A i \in 1 .. Len(due) :
       due[i] <= (IF wpc \in Drains THEN file ELSE asked)

RingInv ==
  \A i \in 0 .. Len(shown) - 1 :
    i >= Oldest => ring[i % RingMax] = shown[i + 1]

-----------------------------------------------------------------------------
(* Remainders: two numbers less than w apart have different ones.          *)
LEMMA DivMod ==
  ASSUME NEW a \in Nat, NEW w \in Nat \ {0}
  PROVE  /\ a = (w * (a \div w)) + (a % w)
         /\ a \div w \in Nat
         /\ a % w \in 0 .. w - 1
  OBVIOUS

LEMMA NoMultiple ==
  ASSUME NEW w \in Nat \ {0}, NEW k \in Int, 0 < w * k, w * k < w
  PROVE  FALSE
<1>1. CASE k <= 0
  <2>1. w * k <= 0
    BY <1>1
  <2> QED
    BY <2>1
<1>2. CASE k >= 1
  <2>1. w * k >= w
    BY <1>2
  <2> QED
    BY <2>1
<1> QED
  BY <1>1, <1>2

LEMMA ModInj ==
  ASSUME NEW w \in Nat \ {0}, NEW a \in Nat, NEW b \in Nat, a < b, b < a + w
  PROVE  a % w # b % w
<1>1. SUFFICES ASSUME a % w = b % w
               PROVE  FALSE
  OBVIOUS
<1> DEFINE k == (b \div w) - (a \div w)
<1>2. k \in Int
  BY DivMod
<1>3. b - a = w * k
  BY <1>1, DivMod
<1>4. 0 < w * k /\ w * k < w
  BY <1>3
<1> HIDE DEF k
<1> QED
  BY <1>2, <1>4, NoMultiple

LEMMA ModAdd ==
  ASSUME NEW w \in Nat \ {0}, NEW a \in Nat
  PROVE  (a + w) % w = a % w
<1> DEFINE q == ((a \div w) + 1) - ((a + w) \div w)
           d == ((a + w) % w) - (a % w)
<1>1. a + w \in Nat
  OBVIOUS
<1>2. q \in Int /\ d \in Int /\ -w < d /\ d < w
  BY <1>1, DivMod
<1>3. d = w * q
  BY <1>1, DivMod
<1>4. a % w \in Int /\ (a + w) % w \in Int
  BY <1>1, DivMod
<1>5. d = 0
  <2> HIDE DEF q, d
  <2>1. CASE d > 0
    BY <1>2, <1>3, <2>1, NoMultiple
  <2>2. CASE d < 0
    <3> DEFINE p == -q
    <3>1. p \in Int /\ -d = w * p
      BY <1>2, <1>3
    <3>2. 0 < w * p /\ w * p < w
      BY <1>2, <2>2, <3>1
    <3> HIDE DEF p
    <3> QED
      BY <3>1, <3>2, NoMultiple
  <2> QED
    BY <1>2, <2>1, <2>2
<1> QED
  BY <1>4, <1>5

-----------------------------------------------------------------------------
(* The steps that touch neither the queue, nor the ring, nor a thread      *)
(* inside emit_line.                                                       *)
Elsewhere ==
  \/ WriterTop \/ WriterWaits
  \/ ApplyFile("apply", "drain") \/ ApplyFile("apply last", "drain last")
  \/ DrainEnds("drain", "drained") \/ DrainEnds("drain last", "drained last")
  \/ WakeFlush("drained", "top") \/ WakeFlush("drained last", "exited")
  \/ MainThread
  \/ \E r \in Readers : Poll(r)
  \/ UNCHANGED vars

WritesLine ==
  \/ WriteLine("drain", "written") \/ WriteLine("drain last", "written last")

Advances ==
  \/ AdvanceTail("written", "drain")
  \/ AdvanceTail("written last", "drain last")

LEMMA NextSplits ==
  ASSUME [Next]_vars
  PROVE  \/ Elsewhere \/ WritesLine \/ Advances
         \/ \E t \in Loggers :
              Emit(t) \/ Fill(t) \/ DropLine(t) \/ Publish(t) \/ Direct(t)
  BY DEF Next, Writer, Logger, Elsewhere, WritesLine, Advances

LEMMA ElsewhereKeeps ==
  ASSUME Elsewhere
  PROVE  /\ UNCHANGED <<wq, head, tail, accepted, owed, ringVars, loggerVars,
                        due>>
         /\ wqRunning' = wqRunning \/ wqRunning' = FALSE
         /\ Written' = Written
<1> USE DEF ringVars, loggerVars, queueVars, fileVars, readerVars, Written
<1>1. CASE WriterTop
  BY <1>1 DEF WriterTop, WriterGoes, WriterOnly
<1>2. CASE WriterWaits
  BY <1>2 DEF WriterWaits, WriterGoes, WriterOnly
<1>3. CASE \/ ApplyFile("apply", "drain")
           \/ ApplyFile("apply last", "drain last")
  BY <1>3 DEF ApplyFile, WriterGoes
<1>4. CASE \/ DrainEnds("drain", "drained")
           \/ DrainEnds("drain last", "drained last")
  BY <1>4 DEF DrainEnds, WriterGoes, WriterOnly
<1>5. CASE \/ WakeFlush("drained", "top") \/ WakeFlush("drained last", "exited")
  BY <1>5 DEF WakeFlush, WriterGoes
<1>6. CASE SetFile \/ SignalFile
  BY <1>6 DEF SetFile, SignalFile, MainGoes, WakeWriter
<1>7. CASE \/ BeginFlush \/ BeginLastFlush
           \/ FlushWaits("flush 1", "asleep 1")
           \/ FlushWaits("flush 2", "asleep 2")
           \/ FlushReturns("flush 1", "say") \/ FlushReturns("flush 2", "stop")
  BY <1>7 DEF BeginFlush, BeginLastFlush, FlushWaits, FlushReturns, MainGoes,
              MainOnly
<1>8. CASE StopWriter \/ SignalWriter \/ JoinWriter
  BY <1>8 DEF StopWriter, SignalWriter, JoinWriter, MainGoes, WakeWriter
<1>9. ASSUME NEW r \in Readers, Poll(r)
      PROVE  /\ UNCHANGED <<queueVars, ringVars, loggerVars, fileVars, wpc>>
             /\ Written' = Written
  BY <1>9 DEF Poll
<1>10. CASE UNCHANGED vars
  BY <1>10 DEF vars
<1> QED
  BY <1>1, <1>2, <1>3, <1>4, <1>5, <1>6, <1>7, <1>8, <1>9, <1>10
     DEF Elsewhere, MainThread

-----------------------------------------------------------------------------
(* Whoever is inside emit_line has a line, and there is a number left for  *)
(* the line main() has yet to say.                                         *)
LEMMA LinesStep ==
  ASSUME TypeOK, LinesInv, [Next]_vars
  PROVE  LinesInv'
<1> USE DEF LinesInv
<1>1. CASE Elsewhere
  <2>1. UNCHANGED loggerVars /\ (wqRunning' = wqRunning \/ wqRunning' = FALSE)
    BY <1>1, ElsewhereKeeps
  <2>2. mpc' \in BeforeLastLine => mpc \in BeforeLastLine
    <3> USE DEF BeforeLastLine
    <3>1. CASE mpc' = mpc
      BY <3>1
    <3>2. CASE \/ WakeFlush("drained", "top")
               \/ WakeFlush("drained last", "exited")
      BY <3>2 DEF WakeFlush
    <3>3. CASE MainThread
      BY <3>3 DEF MainThread, MainGoes, SetFile, SignalFile, BeginFlush,
         FlushWaits, FlushReturns, BeginLastFlush, StopWriter, SignalWriter,
         JoinWriter
    <3>4. WriterOnly => mpc' = mpc
      BY DEF WriterOnly
    <3> QED
      BY <1>1, <3>1, <3>2, <3>3, <3>4
         DEF Elsewhere, WriterTop, WriterWaits, ApplyFile, DrainEnds, Poll, vars
  <2> QED
    BY <2>1, <2>2 DEF loggerVars
<1>2. CASE WritesLine \/ Advances
  <2>1. UNCHANGED <<wqRunning, tpc, line, lines, mpc>>
    BY <1>2 DEF WritesLine, WriteLine, Advances, AdvanceTail, queueVars,
                loggerVars
  <2> QED
    BY <2>1
<1>3. ASSUME NEW t \in Loggers, Emit(t)
      PROVE  LinesInv'
  <2>1. lines < MaxLines + 1 /\ lines \in Nat /\ MaxLines \in Nat
    <3>1. lines \in Nat /\ MaxLines \in Nat
      <4>1. MaxLines \in Nat
        BY SizesAssumption
      <4>2. lines \in 0 .. MaxLines + 1
        BY DEF TypeOK
      <4> QED
        BY <4>1, <4>2
    <3>2. lines <= MaxLines
      <4>1. CASE t = Main
        BY <1>3, <4>1 DEF Emit, BeforeLastLine
      <4>2. CASE t # Main
        BY <1>3, <3>1, <4>2 DEF Emit
      <4> QED
        BY <4>1, <4>2
    <3> QED
      BY <3>1, <3>2
  <2>2. line' = [line EXCEPT ![t] = lines + 1] /\ lines + 1 \in Lines
    BY <1>3, <2>1 DEF Emit, Lines
  <2>3. tpc' = [tpc EXCEPT ![t] = IF wqRunning THEN "push" ELSE "direct"]
        /\ wqRunning' = wqRunning
    BY <1>3 DEF Emit, queueVars
  <2>4. mpc' \in BeforeLastLine => lines' <= MaxLines
    <3>1. CASE t = Main
      BY <1>3, <3>1 DEF Emit, BeforeLastLine
    <3>2. CASE t # Main
      <4>1. lines < MaxLines /\ lines' = lines + 1
        BY <1>3, <3>2 DEF Emit
      <4> QED
        BY <2>1, <4>1
    <3> QED
      BY <3>1, <3>2
  <2>5. \A s \in Loggers : tpc'[s] # "idle" => line'[s] \in Lines
    BY <2>2, <2>3 DEF TypeOK
  <2>6. \A s \in Loggers : tpc'[s] = "direct" => ~wqRunning'
    BY <2>3 DEF TypeOK
  <2>7. Lines' = Lines
    BY DEF Lines
  <2> QED
    BY <2>4, <2>5, <2>6, <2>7
<1>4. ASSUME NEW t \in Loggers, Fill(t)
      PROVE  LinesInv'
  BY <1>4 DEF Fill, TypeOK
<1>5. ASSUME NEW t \in Loggers,
             EmitReturns(t), UNCHANGED <<wqRunning, mpc>>
      PROVE  LinesInv'
  <2>1. tpc' = [tpc EXCEPT ![t] = "idle"] /\ line' = [line EXCEPT ![t] = None]
        /\ lines' = lines
    BY <1>5 DEF EmitReturns
  <2>2. \A s \in Loggers :
          tpc'[s] # "idle" => tpc'[s] = tpc[s] /\ line'[s] = line[s]
    BY <2>1 DEF TypeOK
  <2> QED
    BY <1>5, <2>1, <2>2
<1>6. ASSUME NEW t \in Loggers, DropLine(t) \/ Publish(t) \/ Direct(t)
      PROVE  LinesInv'
  BY <1>5, <1>6 DEF DropLine, Publish, Direct, queueVars
<1> QED
  BY <1>1, <1>2, <1>3, <1>4, <1>6, NextSplits

-----------------------------------------------------------------------------
(* The queue.                                                              *)
LEMMA QueueStep ==
  ASSUME TypeOK, LinesInv, QueueInv, [Next]_vars
  PROVE  QueueInv'
<1>1. /\ head \in Nat /\ tail \in Nat /\ tail <= head
      /\ WqSize \in Nat \ {0}
  <2>1. WqSize \in Nat \ {0}
    BY SizesAssumption
  <2>2. head \in Nat /\ tail \in 0 .. head
    BY DEF TypeOK
  <2> QED
    BY <2>1, <2>2
<1>2. /\ Len(accepted) = head /\ head < tail + WqSize /\ Written <= head
      /\ \A i \in tail .. head - 1 : wq[i % WqSize] = accepted[i + 1]
      /\ \A t \in Loggers :
           tpc[t] = "publish" =>
             head + 1 < tail + WqSize /\ wq[head % WqSize] = line[t]
      /\ \A s, t \in Loggers : tpc[s] = "publish" /\ tpc[t] = "publish" => s = t
  BY DEF QueueInv
<1> DEFINE Wide(i) == i % WqSize
<1>12. \A i \in Nat : Wide(i) \in 0 .. WqSize - 1
  BY <1>1, DivMod
<1>3. ASSUME UNCHANGED <<wq, head, tail, accepted, Written>>,
             \A t \in Loggers :
               tpc'[t] = "publish" => tpc[t] = "publish" /\ line'[t] = line[t]
      PROVE  QueueInv'
  BY <1>3 DEF QueueInv
<1>4. CASE Elsewhere
  BY <1>3, <1>4, ElsewhereKeeps DEF loggerVars
<1>5. CASE WritesLine
  <2>1. /\ tail # head
        /\ UNCHANGED <<wq, head, tail, accepted, tpc, line>>
    BY <1>5 DEF WritesLine, WriteLine, queueVars, loggerVars
  <2>4. /\ wpc \notin {"written", "written last"}
        /\ wpc' \in {"written", "written last"}
    BY <1>5 DEF WritesLine, WriteLine, WriterGoes
  <2>5. Written' = tail + 1
    BY <2>1, <2>4 DEF Written
  <2>2. Written' <= head
    BY <1>1, <2>1, <2>5
  <2> QED
    BY <2>1, <2>2 DEF QueueInv
<1>6. CASE Advances
  <2>1. /\ tail' = tail + 1
        /\ wq' = [wq EXCEPT ![tail % WqSize] = None]
        /\ UNCHANGED <<head, accepted, tpc, line>>
    BY <1>6 DEF Advances, AdvanceTail, loggerVars
  <2>6. /\ wpc \in {"written", "written last"}
        /\ wpc' \notin {"written", "written last"}
    BY <1>6 DEF Advances, AdvanceTail, WriterGoes
  <2>8. Written = tail + 1
    BY <2>6 DEF Written
  <2>9. Written' = tail + 1
    <3>1. Written' = tail' + 0
      BY <2>6 DEF Written
    <3> QED
      BY <1>1, <2>1, <3>1
  <2>7. Written = tail + 1 /\ Written' = tail + 1
    BY <2>8, <2>9
  <2>2. ASSUME NEW i \in tail + 1 .. head
        PROVE  wq'[i % WqSize] = wq[i % WqSize]
    <3>1. i \in Nat /\ tail < i /\ i < tail + WqSize
      BY <1>1, <1>2, <2>2
    <3>2. tail % WqSize # i % WqSize
      BY <1>1, <3>1, ModInj
    <3> QED
      BY <1>1, <1>12, <2>1, <3>1, <3>2 DEF TypeOK
  <2>3. tail + 1 <= head
    BY <1>2, <2>7
  <2>4. ASSUME NEW i \in tail + 1 .. head - 1
        PROVE  wq'[i % WqSize] = accepted'[i + 1]
    <3>1. i \in tail + 1 .. head /\ i \in tail .. head - 1
      BY <1>1
    <3> QED
      BY <1>2, <2>1, <2>2, <3>1
  <2>5. \A t \in Loggers :
          tpc'[t] = "publish" =>
            head' + 1 < tail' + WqSize /\ wq'[head' % WqSize] = line'[t]
    <3>1. head \in tail + 1 .. head
      BY <1>1, <2>3
    <3>2. wq'[head % WqSize] = wq[head % WqSize]
      BY <2>2, <3>1
    <3> QED
      BY <1>1, <1>2, <2>1, <3>2
  <2> QED
    BY <1>1, <1>2, <2>1, <2>3, <2>4, <2>5, <2>7 DEF QueueInv
<1>7. ASSUME NEW t \in Loggers, Fill(t)
      PROVE  QueueInv'
  <2>1. /\ ~Full /\ MutexFree
        /\ wq' = [wq EXCEPT ![head % WqSize] = line[t]]
        /\ tpc' = [tpc EXCEPT ![t] = "publish"]
        /\ UNCHANGED <<head, tail, accepted, line, wpc>>
    BY <1>7 DEF Fill
  <2>2. head + 1 < tail + WqSize
    <3>1. head + 1 <= tail + WqSize
      BY <1>1, <1>2
    <3>2. head + 1 # tail + WqSize
      BY <1>1, <2>1, ModAdd DEF Full
    <3> QED
      BY <1>1, <3>1, <3>2
  <2>3. ASSUME NEW i \in tail .. head - 1
        PROVE  wq'[i % WqSize] = wq[i % WqSize]
    <3>1. i \in Nat /\ i < head /\ head < i + WqSize
      BY <1>1, <2>2
    <3>2. i % WqSize # head % WqSize
      BY <1>1, <3>1, ModInj
    <3> QED
      BY <1>12, <2>1, <3>1, <3>2 DEF TypeOK
  <2>4. wq'[head % WqSize] = line[t]
    BY <1>1, <1>12, <2>1 DEF TypeOK
  <2>5. \A s \in Loggers : tpc'[s] = "publish" => s = t
    BY <2>1 DEF MutexFree, TypeOK
  <2>6. Written' = Written
    BY <2>1 DEF Written
  <2>7. \A i \in tail' .. head' - 1 : wq'[i % WqSize] = accepted'[i + 1]
    BY <2>1, <2>3 DEF QueueInv
  <2>8. \A s \in Loggers :
          tpc'[s] = "publish" =>
            head' + 1 < tail' + WqSize /\ wq'[head' % WqSize] = line'[s]
    BY <2>1, <2>2, <2>4, <2>5
  <2> QED
    BY <2>1, <2>5, <2>6, <2>7, <2>8 DEF QueueInv
<1>8. ASSUME NEW t \in Loggers, EmitReturns(t)
      PROVE  \A s \in Loggers :
               tpc'[s] = "publish" =>
                 s # t /\ tpc[s] = "publish" /\ line'[s] = line[s]
  BY <1>8 DEF EmitReturns, TypeOK
<1>9. ASSUME NEW t \in Loggers, Publish(t)
      PROVE  QueueInv'
  <2>1. /\ tpc[t] = "publish" /\ head' = head + 1
        /\ accepted' = Append(accepted, line[t])
        /\ UNCHANGED <<wq, tail>>
        /\ wpc' \in {wpc, "locked"} /\ (wpc' # wpc => wpc = "asleep")
    BY <1>9 DEF Publish, WakeWriter
  <2>2. Written' = Written
    BY <2>1 DEF Written
  <2>3. \A s \in Loggers : tpc'[s] # "publish"
    BY <1>2, <1>8, <1>9, <2>1 DEF Publish
  <2>4. /\ Len(accepted') = head + 1
        /\ accepted'[head + 1] = line[t]
        /\ \A i \in 1 .. head : accepted'[i] = accepted[i]
    <3>1. accepted \in Seq(Lines) /\ Len(accepted) = head
      BY <1>2 DEF TypeOK
    <3> QED
      BY <1>1, <2>1, <3>1
  <2>5. ASSUME NEW i \in tail .. head
        PROVE  wq[i % WqSize] = accepted'[i + 1]
    <3>1. CASE i = head
      BY <1>2, <2>1, <2>4, <3>1
    <3>2. CASE i # head
      <4>1. i \in tail .. head - 1 /\ i + 1 \in 1 .. head
        BY <1>1, <3>2
      <4> QED
        BY <1>2, <2>4, <4>1
    <3> QED
      BY <3>1, <3>2
  <2>6. \A i \in tail' .. head' - 1 : wq'[i % WqSize] = accepted'[i + 1]
    <3>1. \A i \in tail .. head : wq'[i % WqSize] = accepted'[i + 1]
      BY <2>1, <2>5
    <3>2. tail' .. head' - 1 = tail .. head
      BY <1>1, <2>1
    <3> QED
      BY <3>1, <3>2
  <2>7. head' < tail' + WqSize /\ Written' <= head'
    <3>1. Written \in Nat
      <4>1. Written = tail + 0 \/ Written = tail + 1
        BY DEF Written
      <4> QED
        BY <1>1, <4>1
    <3> QED
      BY <1>1, <1>2, <2>1, <2>2, <3>1
  <2> QED
    BY <2>1, <2>3, <2>4, <2>6, <2>7 DEF QueueInv
<1>10. ASSUME NEW t \in Loggers, DropLine(t) \/ Direct(t)
       PROVE  QueueInv'
  <2>1. UNCHANGED <<wq, head, tail, accepted, wpc>> /\ EmitReturns(t)
    BY <1>10 DEF DropLine, Direct, queueVars
  <2>2. Written' = Written
    BY <2>1 DEF Written
  <2> QED
    BY <1>3, <1>8, <2>1, <2>2
<1>11. ASSUME NEW t \in Loggers, Emit(t)
       PROVE  QueueInv'
  <2>1. /\ UNCHANGED <<wq, head, tail, accepted, wpc>>
        /\ tpc' = [tpc EXCEPT ![t] = IF wqRunning THEN "push" ELSE "direct"]
        /\ line' = [line EXCEPT ![t] = lines + 1]
    BY <1>11 DEF Emit, queueVars
  <2>2. Written' = Written
    BY <2>1 DEF Written
  <2>3. \A s \in Loggers :
          tpc'[s] = "publish" => tpc[s] = "publish" /\ line'[s] = line[s]
    BY <2>1 DEF TypeOK
  <2> QED
    BY <1>3, <2>1, <2>2, <2>3
<1> QED
  BY <1>4, <1>5, <1>6, <1>7, <1>9, <1>10, <1>11, NextSplits

-----------------------------------------------------------------------------
(* Types, one group of variables at a time.                                *)
WriterPlaces ==
  {"top", "locked", "asleep", "apply", "drain", "written", "drained",
   "apply last", "drain last", "written last", "drained last", "exited"}
MainPlaces ==
  {"running", "set", "flush 1", "asleep 1", "say", "saying", "flush 2",
   "asleep 2", "stop", "signal", "join", "closed"}

QueueTyped ==
  /\ wqRunning \in BOOLEAN
  /\ wq \in [0 .. WqSize - 1 -> Lines \cup {None}]
  /\ head \in Nat /\ tail \in 0 .. head
  /\ accepted \in Seq(Lines)
  /\ owed \in 0 .. head /\ mark \in 0 .. head
ThreadsTyped ==
  /\ tpc \in [Loggers -> {"idle", "push", "publish", "direct"}]
  /\ lines \in 0 .. MaxLines + 1
  /\ line \in [Loggers -> Lines \cup {None}]
FilesTyped ==
  /\ asked \in 0 .. MaxFiles /\ file \in 0 .. asked
  /\ pending \in BOOLEAN /\ open \in BOOLEAN
  /\ due \in Seq(0 .. MaxFiles)
PlacesTyped == wpc \in WriterPlaces /\ mpc \in MainPlaces
RingTyped ==
  /\ ring \in [0 .. RingMax - 1 -> Lines \cup {None}]
  /\ next \in [Readers -> Nat]
  /\ shown \in Seq(Lines)

LEMMA TypeParts ==
  TypeOK <=> /\ QueueTyped /\ ThreadsTyped /\ FilesTyped /\ PlacesTyped
             /\ RingTyped
  BY DEF TypeOK, QueueTyped, ThreadsTyped, FilesTyped, PlacesTyped, RingTyped,
         WriterPlaces, MainPlaces

LEMMA Sizes ==
  /\ WqSize \in Nat \ {0} /\ RingMax \in Nat \ {0} /\ MaxPoll \in Nat \ {0}
  /\ MaxLines \in Nat /\ MaxFiles \in Nat \ {0}
  BY SizesAssumption

(* What the steps of Elsewhere do to mark and to main()'s place: the flush  *)
(* begins with mark at head, and ends when the queue is empty.             *)
Closing == {"stop", "signal", "join", "closed"}

LEMMA ElsewhereMark ==
  ASSUME Elsewhere
  PROVE  /\ mark' = mark \/ (mark' = head /\ mpc' = "flush 2")
         /\ mpc' \in Closing =>
              mark' = mark /\ (mpc \in Closing \/ head = tail)
<1> USE DEF Closing
<1>1. CASE mpc' = mpc /\ mark' = mark
  BY <1>1
<1>2. WriterOnly => mpc' = mpc /\ mark' = mark
  BY DEF WriterOnly
<1>3. CASE \/ ApplyFile("apply", "drain")
           \/ ApplyFile("apply last", "drain last")
  BY <1>3 DEF ApplyFile
<1>4. CASE \/ WakeFlush("drained", "top") \/ WakeFlush("drained last", "exited")
  BY <1>4 DEF WakeFlush
<1>5. CASE SetFile \/ SignalFile \/ BeginFlush
  BY <1>5 DEF SetFile, SignalFile, BeginFlush, MainGoes, MainOnly
<1>6. CASE \/ FlushWaits("flush 1", "asleep 1")
           \/ FlushWaits("flush 2", "asleep 2")
           \/ FlushReturns("flush 1", "say") \/ FlushReturns("flush 2", "stop")
  BY <1>6 DEF FlushWaits, FlushReturns, MainGoes, MainOnly
<1>7. CASE BeginLastFlush
  BY <1>7 DEF BeginLastFlush, MainGoes
<1>8. CASE StopWriter \/ SignalWriter \/ JoinWriter
  BY <1>8 DEF StopWriter, SignalWriter, JoinWriter, MainGoes
<1>9. CASE UNCHANGED vars
  BY <1>9 DEF vars
<1>10. ASSUME NEW r \in Readers, Poll(r)
       PROVE  mpc' = mpc /\ mark' = mark
  BY <1>10 DEF Poll
<1> QED
  BY <1>1, <1>2, <1>3, <1>4, <1>5, <1>6, <1>7, <1>8, <1>9, <1>10
     DEF Elsewhere, MainThread, WriterTop, WriterWaits, DrainEnds

(* What they do to the files: three of them change something, and the rest *)
(* do not take the writer into a drain.                                    *)
Applies ==
  /\ wpc \notin Drains /\ wpc' \in Drains
  /\ pending' = FALSE /\ asked' = asked /\ due' = due
  /\ IF pending THEN file' = asked /\ open' \in BOOLEAN
                ELSE UNCHANGED <<file, open>>

QuietForFiles ==
  /\ UNCHANGED <<asked, pending, file, due>>
  /\ open' \in {open, FALSE}
  /\ wpc' \in Drains => wpc \in Drains

LEMMA ElsewhereFiles ==
  ASSUME Elsewhere
  PROVE  \/ Applies \/ QuietForFiles
         \/ SetFile /\ wpc' = wpc
<1> USE DEF QuietForFiles
<1>1. CASE WriterTop
  BY <1>1 DEF WriterTop, WriterGoes, WriterOnly, fileVars, Drains
<1>2. CASE WriterWaits
  BY <1>2 DEF WriterWaits, WriterGoes, WriterOnly, fileVars, Drains
<1>3. CASE \/ ApplyFile("apply", "drain")
           \/ ApplyFile("apply last", "drain last")
  BY <1>3 DEF ApplyFile, WriterGoes, Applies, Drains
<1>4. CASE \/ DrainEnds("drain", "drained")
           \/ DrainEnds("drain last", "drained last")
  BY <1>4 DEF DrainEnds, WriterGoes, WriterOnly, fileVars, Drains
<1>5. CASE \/ WakeFlush("drained", "top") \/ WakeFlush("drained last", "exited")
  BY <1>5 DEF WakeFlush, WriterGoes, fileVars, Drains
<1>6. CASE SetFile
  BY <1>6 DEF SetFile
<1>7. CASE SignalFile \/ SignalWriter
  BY <1>7 DEF SignalFile, SignalWriter, WakeWriter, fileVars, Drains
<1>8. CASE \/ BeginFlush \/ BeginLastFlush
           \/ FlushWaits("flush 1", "asleep 1")
           \/ FlushWaits("flush 2", "asleep 2")
           \/ FlushReturns("flush 1", "say") \/ FlushReturns("flush 2", "stop")
  BY <1>8 DEF BeginFlush, BeginLastFlush, FlushWaits, FlushReturns, MainOnly,
              fileVars
<1>9. CASE StopWriter \/ JoinWriter
  BY <1>9 DEF StopWriter, JoinWriter, fileVars
<1>10. ASSUME NEW r \in Readers, Poll(r)
       PROVE  UNCHANGED <<asked, pending, file, open, due, wpc>>
  BY <1>10 DEF Poll, fileVars
<1>11. CASE UNCHANGED vars
  BY <1>11 DEF vars, fileVars
<1> QED
  BY <1>1, <1>2, <1>3, <1>4, <1>5, <1>6, <1>7, <1>8, <1>9, <1>10, <1>11
     DEF Elsewhere, MainThread

(* Where the writer and main() can be.                                     *)
LEMMA PlacesStep ==
  ASSUME PlacesTyped, [Next]_vars
  PROVE  PlacesTyped'
<1>1. wpc \in WriterPlaces /\ mpc \in MainPlaces
  BY DEF PlacesTyped
<1>2. SUFFICES wpc' \in WriterPlaces /\ mpc' \in MainPlaces
  BY DEF PlacesTyped
<1> USE DEF WriterPlaces, MainPlaces
<1>3. CASE WriterTop \/ WriterWaits
  BY <1>1, <1>3 DEF WriterTop, WriterWaits, WriterGoes, WriterOnly
<1>4. CASE \/ ApplyFile("apply", "drain")
           \/ ApplyFile("apply last", "drain last")
  BY <1>1, <1>4 DEF ApplyFile, WriterGoes
<1>5. CASE \/ DrainEnds("drain", "drained")
           \/ DrainEnds("drain last", "drained last")
  BY <1>1, <1>5 DEF DrainEnds, WriterGoes, WriterOnly
<1>6. CASE \/ WakeFlush("drained", "top") \/ WakeFlush("drained last", "exited")
  <2>1. wpc' \in {"top", "exited"}
    BY <1>6 DEF WakeFlush, WriterGoes
  <2>2. mpc' \in {mpc, "flush 1", "flush 2"}
    BY <1>6 DEF WakeFlush
  <2> QED
    BY <1>1, <2>1, <2>2
<1>7. CASE WritesLine \/ Advances
  BY <1>1, <1>7
     DEF WritesLine, WriteLine, Advances, AdvanceTail, WriterGoes
<1>8. CASE SetFile \/ BeginFlush \/ BeginLastFlush \/ StopWriter \/ JoinWriter
  BY <1>1, <1>8 DEF SetFile, BeginFlush, BeginLastFlush, StopWriter, JoinWriter,
                    MainGoes, MainOnly
<1>9. CASE SignalFile \/ SignalWriter
  BY <1>1, <1>9 DEF SignalFile, SignalWriter, MainGoes, WakeWriter
<1>10. CASE \/ FlushWaits("flush 1", "asleep 1")
            \/ FlushWaits("flush 2", "asleep 2")
            \/ FlushReturns("flush 1", "say") \/ FlushReturns("flush 2", "stop")
  BY <1>1, <1>10 DEF FlushWaits, FlushReturns, MainGoes, MainOnly
<1>11. ASSUME NEW t \in Loggers, Emit(t)
       PROVE  wpc' = wpc /\ mpc' \in {mpc, "saying"}
  BY <1>11 DEF Emit
<1>12. ASSUME NEW t \in Loggers,
              Fill(t) \/ DropLine(t) \/ Publish(t) \/ Direct(t)
       PROVE  mpc' = mpc /\ wpc' \in {wpc, "locked"}
  BY <1>12 DEF Fill, DropLine, Publish, Direct, WakeWriter
<1>13. ASSUME NEW r \in Readers, Poll(r)
       PROVE  wpc' = wpc /\ mpc' = mpc
  BY <1>13 DEF Poll
<1>14. CASE UNCHANGED vars
  BY <1>1, <1>14 DEF vars
<1>15. CASE Elsewhere
  BY <1>1, <1>3, <1>4, <1>5, <1>6, <1>8, <1>9, <1>10, <1>13, <1>14, <1>15
     DEF Elsewhere, MainThread
<1>16. CASE \E t \in Loggers :
              Emit(t) \/ Fill(t) \/ DropLine(t) \/ Publish(t) \/ Direct(t)
  BY <1>1, <1>11, <1>12, <1>16
<1> QED
  BY <1>7, <1>15, <1>16, NextSplits

LEMMA ThreadsStep ==
  ASSUME ThreadsTyped, LinesInv, LinesInv', [Next]_vars
  PROVE  ThreadsTyped'
<1> USE DEF ThreadsTyped
<1>1. CASE Elsewhere
  <2>1. UNCHANGED <<tpc, line, lines>>
    BY <1>1, ElsewhereKeeps DEF loggerVars
  <2>2. Loggers' = Loggers /\ Lines' = Lines
    BY DEF Loggers, Lines
  <2> QED
    BY <2>1, <2>2
<1>2. CASE WritesLine \/ Advances
  BY <1>2 DEF WritesLine, WriteLine, Advances, AdvanceTail, loggerVars
<1>3. ASSUME NEW t \in Loggers, Emit(t)
      PROVE  ThreadsTyped'
  <2>1. /\ lines' = lines + 1
        /\ line' = [line EXCEPT ![t] = lines + 1]
        /\ tpc' = [tpc EXCEPT ![t] = IF wqRunning THEN "push" ELSE "direct"]
    BY <1>3 DEF Emit
  <2>2. tpc' \in [Loggers -> {"idle", "push", "publish", "direct"}]
    BY <2>1
  <2>3. lines + 1 \in Lines
    <3>1. tpc'[t] # "idle"
      BY <2>1
    <3>2. line'[t] \in Lines
      <4>1. Lines' = Lines
        BY DEF Lines
      <4> QED
        BY <3>1, <4>1 DEF LinesInv
    <3>3. line'[t] = lines + 1
      BY <2>1
    <3> QED
      BY <3>2, <3>3
  <2>4. line' \in [Loggers -> Lines \cup {None}]
    BY <2>1, <2>3
  <2>5. lines' \in 0 .. MaxLines + 1
    <3>1. lines' \in 1 .. MaxLines + 1
      BY <2>1, <2>3 DEF Lines
    <3> QED
      BY <3>1, Sizes
  <2> QED
    BY <2>2, <2>4, <2>5
<1>4. ASSUME NEW t \in Loggers, Fill(t)
      PROVE  ThreadsTyped'
  BY <1>4 DEF Fill
<1>5. ASSUME NEW t \in Loggers, DropLine(t) \/ Publish(t) \/ Direct(t)
      PROVE  ThreadsTyped'
  BY <1>5 DEF DropLine, Publish, Direct, EmitReturns
<1> QED
  BY <1>1, <1>2, <1>3, <1>4, <1>5, NextSplits

(* The line the writer puts out, and its entry in due.                     *)
LEMMA WritesNext ==
  ASSUME QueueTyped, QueueInv, WritesLine
  PROVE  /\ tail + 1 \in 1 .. head
         /\ wq[tail % WqSize] = accepted[tail + 1]
         /\ wq[tail % WqSize] \in Lines
         /\ Written = tail /\ Written' = tail + 1
<1>1. head \in Nat /\ tail \in 0 .. head /\ accepted \in Seq(Lines)
  BY DEF QueueTyped
<1>2. tail # head /\ tail' = tail
  BY DEF WritesLine, WriteLine, queueVars
<1>3. /\ wpc \notin {"written", "written last"}
      /\ wpc' \in {"written", "written last"}
  BY DEF WritesLine, WriteLine, WriterGoes
<1>4. Written = tail + 0 /\ Written' = tail + 1
  BY <1>2, <1>3 DEF Written
<1>5. tail + 1 \in 1 .. head /\ tail \in tail .. head - 1
  <2>1. head \in Nat /\ tail \in 0 .. head /\ tail # head
    BY <1>1, <1>2
  <2> QED
    BY <2>1
<1>6. Len(accepted) = head /\ wq[tail % WqSize] = accepted[tail + 1]
  BY <1>5 DEF QueueInv
<1>7. accepted[tail + 1] \in Lines
  BY <1>1, <1>5, <1>6
<1>8. Written = tail
  BY <1>1, <1>4
<1> QED
  BY <1>4, <1>5, <1>6, <1>7, <1>8

LEMMA QueueTypedStep ==
  ASSUME QueueTyped, ThreadsTyped, LinesInv, QueueInv, [Next]_vars
  PROVE  QueueTyped'
<1>1. /\ wqRunning \in BOOLEAN
      /\ wq \in [0 .. WqSize - 1 -> Lines \cup {None}]
      /\ head \in Nat /\ tail \in 0 .. head
      /\ accepted \in Seq(Lines)
      /\ owed \in 0 .. head /\ mark \in 0 .. head
  BY DEF QueueTyped
<1>2. Lines' = Lines
  BY DEF Lines
<1>3. CASE Elsewhere
  <2>1. /\ UNCHANGED <<wq, head, tail, accepted, owed>>
        /\ wqRunning' = wqRunning \/ wqRunning' = FALSE
    BY <1>3, ElsewhereKeeps
  <2>2. mark' \in 0 .. head
    <3>1. mark' = mark \/ mark' = head
      BY <1>3, ElsewhereMark
    <3>2. head \in Nat /\ mark \in 0 .. head
      BY <1>1
    <3> QED
      BY <3>1, <3>2
  <2> QED
    BY <1>1, <1>2, <2>1, <2>2 DEF QueueTyped
<1>4. CASE WritesLine
  BY <1>1, <1>2, <1>4 DEF WritesLine, WriteLine, queueVars, QueueTyped
<1>5. CASE Advances
  <2>1. /\ wq' = [wq EXCEPT ![tail % WqSize] = None]
        /\ tail' = tail + 1
        /\ wpc \in {"written", "written last"}
        /\ UNCHANGED <<wqRunning, head, accepted, owed, mark>>
    BY <1>5 DEF Advances, AdvanceTail, WriterGoes
  <2>2. tail + 1 <= head
    <3>1. Written = tail + 1
      BY <2>1 DEF Written
    <3> QED
      BY <3>1 DEF QueueInv
  <2>3. tail' \in 0 .. head
    <3>1. head \in Nat /\ tail \in 0 .. head
      BY <1>1
    <3>2. tail' = tail + 1
      BY <2>1
    <3> QED
      BY <2>2, <3>1, <3>2
  <2>4. wq' \in [0 .. WqSize - 1 -> Lines \cup {None}]
    BY <1>1, <2>1
  <2> QED
    BY <1>1, <1>2, <2>1, <2>3, <2>4 DEF QueueTyped
<1>6. ASSUME NEW t \in Loggers, Fill(t)
      PROVE  QueueTyped'
  <2>1. line[t] \in Lines
    BY <1>6 DEF Fill, LinesInv
  <2>2. wq' \in [0 .. WqSize - 1 -> Lines \cup {None}]
    BY <1>1, <1>6, <2>1 DEF Fill
  <2> QED
    BY <1>1, <1>2, <1>6, <2>2 DEF Fill, QueueTyped
<1>7. ASSUME NEW t \in Loggers, Publish(t)
      PROVE  QueueTyped'
  <2>1. line[t] \in Lines
    BY <1>7 DEF Publish, LinesInv
  <2>2. /\ head' = head + 1
        /\ accepted' = Append(accepted, line[t])
        /\ owed' \in {owed, head + 1}
        /\ UNCHANGED <<wqRunning, wq, tail, mark>>
    BY <1>7 DEF Publish
  <2>3. accepted' \in Seq(Lines)
    BY <1>1, <2>1, <2>2
  <2>4. /\ head' \in Nat /\ tail' \in 0 .. head'
        /\ mark' \in 0 .. head' /\ owed' \in 0 .. head'
    <3>1. /\ head \in Nat /\ tail \in 0 .. head
          /\ owed \in 0 .. head /\ mark \in 0 .. head
      BY <1>1
    <3>2. /\ head' = head + 1 /\ tail' = tail /\ mark' = mark
          /\ owed' \in {owed, head + 1}
      BY <2>2
    <3> QED
      BY <3>1, <3>2
  <2> QED
    BY <1>1, <1>2, <2>2, <2>3, <2>4 DEF QueueTyped
<1>8. ASSUME NEW t \in Loggers, Emit(t) \/ DropLine(t) \/ Direct(t)
      PROVE  QueueTyped'
  <2>1. UNCHANGED <<queueVars, mark>>
    BY <1>8 DEF Emit, DropLine, Direct
  <2> QED
    BY <1>1, <1>2, <2>1 DEF queueVars, QueueTyped
<1> QED
  BY <1>3, <1>4, <1>5, <1>6, <1>7, <1>8, NextSplits

(* A line enters the ring.                                                 *)
LEMMA RingTypedStep ==
  ASSUME RingTyped, QueueTyped, LinesInv, QueueInv, [Next]_vars
  PROVE  RingTyped'
<1>1. /\ ring \in [0 .. RingMax - 1 -> Lines \cup {None}]
      /\ next \in [Readers -> Nat]
      /\ shown \in Seq(Lines)
  BY DEF RingTyped
<1>2. Lines' = Lines
  BY DEF Lines
<1>3. ASSUME NEW l \in Lines, RingPush(l), next' = next
      PROVE  RingTyped'
  <2>1. shown' \in Seq(Lines)
    BY <1>1, <1>3 DEF RingPush
  <2>2. ring' \in [0 .. RingMax - 1 -> Lines \cup {None}]
    BY <1>1, <1>3 DEF RingPush
  <2> QED
    BY <1>1, <1>2, <1>3, <2>1, <2>2 DEF RingTyped
<1>4. CASE WritesLine
  <2>1. wq[tail % WqSize] \in Lines
    BY <1>4, WritesNext
  <2>2. RingPush(wq[tail % WqSize]) /\ next' = next
    BY <1>4 DEF WritesLine, WriteLine, readerVars
  <2> QED
    BY <1>3, <2>1, <2>2
<1>5. ASSUME NEW t \in Loggers, Direct(t)
      PROVE  RingTyped'
  <2>1. line[t] \in Lines
    BY <1>5 DEF Direct, LinesInv
  <2>2. RingPush(line[t]) /\ next' = next
    BY <1>5 DEF Direct, readerVars
  <2> QED
    BY <1>3, <2>1, <2>2
<1>6. ASSUME UNCHANGED ringVars, next' \in [Readers -> Nat]
      PROVE  RingTyped'
  BY <1>1, <1>2, <1>6 DEF ringVars, RingTyped
<1>7. ASSUME NEW r \in Readers, Poll(r)
      PROVE  next' \in [Readers -> Nat]
  <2>1. Len(shown) \in Nat
    BY <1>1
  <2>2. next' = [next EXCEPT ![r] = Len(shown)]
    BY <1>7 DEF Poll, s_ring_total
  <2> QED
    BY <1>1, <2>1, <2>2
<1>8. CASE Elsewhere
  <2>1. UNCHANGED ringVars
    BY <1>8, ElsewhereKeeps
  <2>2. next' = next \/ \E r \in Readers : Poll(r)
    BY <1>8 DEF Elsewhere, MainThread, WriterTop, WriterWaits, WriterOnly,
       ApplyFile, DrainEnds, WakeFlush, SetFile, SignalFile, BeginFlush,
       MainOnly, FlushWaits, FlushReturns, BeginLastFlush, StopWriter,
       SignalWriter, JoinWriter, readerVars, vars
  <2> QED
    BY <1>1, <1>6, <1>7, <2>1, <2>2
<1>9. CASE Advances
  BY <1>1, <1>6, <1>9 DEF Advances, AdvanceTail, readerVars
<1>10. ASSUME NEW t \in Loggers,
              Emit(t) \/ Fill(t) \/ DropLine(t) \/ Publish(t)
       PROVE  RingTyped'
  <2>1. UNCHANGED <<ringVars, readerVars>>
    BY <1>10 DEF Emit, Fill, DropLine, Publish
  <2> QED
    BY <1>1, <1>6, <2>1 DEF readerVars
<1> QED
  BY <1>4, <1>5, <1>8, <1>9, <1>10, NextSplits

-----------------------------------------------------------------------------
LEMMA SeqElements ==
  ASSUME NEW S, NEW q \in Seq(S)
  PROVE  Len(q) \in Nat /\ \A i \in 1 .. Len(q) : q[i] \in S
  OBVIOUS

LEMMA SeqEqual ==
  ASSUME NEW S, NEW p \in Seq(S), NEW q \in Seq(S), Len(p) = Len(q),
         \A i \in 1 .. Len(p) : p[i] = q[i]
  PROVE  p = q
  OBVIOUS

(* The files.                                                              *)
LEMMA FilesStep ==
  ASSUME FilesTyped, FileInv, QueueTyped, QueueInv, [Next]_vars
  PROVE  FilesTyped' /\ FileInv'
<1>1. /\ asked \in 0 .. MaxFiles /\ file \in 0 .. asked
      /\ pending \in BOOLEAN /\ open \in BOOLEAN
      /\ due \in Seq(0 .. MaxFiles)
  BY DEF FilesTyped
<1>2. /\ MaxFiles \in Nat /\ asked \in Nat /\ file \in Nat
      /\ asked <= MaxFiles /\ file <= asked
  BY <1>1, Sizes
<1> DEFINE newest == IF wpc \in Drains THEN file ELSE asked
<1>3. /\ Len(due) = head - Written
      /\ ~pending => file = asked
      /\ \A i \in 1 .. Len(due) : due[i] <= newest
  BY DEF FileInv
<1>4. /\ newest \in 0 .. MaxFiles /\ newest <= asked
      /\ wpc \in Drains => newest = file
  <2>1. (newest = file \/ newest = asked) /\ (wpc \in Drains => newest = file)
    OBVIOUS
  <2>2. file \in 0 .. MaxFiles
    BY <1>2
  <2> HIDE DEF newest
  <2>3. newest \in 0 .. MaxFiles
    BY <1>1, <2>1, <2>2
  <2>4. newest <= asked
    BY <1>2, <2>1
  <2> QED
    BY <2>1, <2>3, <2>4
<1>5. \A i \in 1 .. Len(due) : due[i] \in Nat /\ due[i] <= asked
  <2>1. \A i \in 1 .. Len(due) : due[i] \in 0 .. MaxFiles
    BY <1>1, SeqElements
  <2> HIDE DEF newest
  <2> QED
    BY <1>2, <1>3, <1>4, <2>1
<1> HIDE DEF newest
(* The entries stay as they are, and the writer does not begin a round.    *)
<1>6. ASSUME UNCHANGED <<asked, pending, file, due>>, open' \in BOOLEAN,
             head' - Written' = head - Written,
             wpc' \in Drains => wpc \in Drains
      PROVE  FilesTyped' /\ FileInv'
  <2>1. FilesTyped'
    BY <1>1, <1>6 DEF FilesTyped
  <2>2. ASSUME NEW i \in 1 .. Len(due')
        PROVE  due'[i] <= (IF wpc' \in Drains THEN file' ELSE asked')
    <3>1. CASE wpc' \in Drains
      BY <1>3, <1>4, <1>6, <3>1
    <3>2. CASE wpc' \notin Drains
      BY <1>5, <1>6, <3>2
    <3> QED
      BY <3>1, <3>2
  <2> QED
    BY <1>3, <1>6, <2>1, <2>2 DEF FileInv, Drains
<1>7. CASE Elsewhere
  <2>1. head' - Written' = head - Written /\ due' = due
    BY <1>7, ElsewhereKeeps
  <2>2. CASE QuietForFiles
    <3>1. open' \in BOOLEAN
      BY <1>1, <2>2 DEF QuietForFiles
    <3> QED
      BY <1>6, <2>1, <2>2, <3>1 DEF QuietForFiles
  <2>3. CASE Applies
    <3>1. file' = asked /\ asked' = asked /\ pending' = FALSE
          /\ wpc' \in Drains /\ open' \in BOOLEAN
      BY <1>1, <1>3, <2>3 DEF Applies
    <3>2. asked \in 0 .. asked
      BY <1>2
    <3>3. FilesTyped'
      BY <1>1, <2>1, <3>1, <3>2 DEF FilesTyped
    <3>4. FileInv'
      BY <1>3, <1>5, <2>1, <3>1 DEF FileInv, Drains
    <3> QED
      BY <3>3, <3>4
  <2>4. CASE SetFile /\ wpc' = wpc
    <3>1. /\ asked' = asked + 1 /\ asked < MaxFiles /\ pending' = TRUE
          /\ UNCHANGED <<file, open>>
      BY <2>4 DEF SetFile
    <3>2. asked' \in 0 .. MaxFiles /\ file' \in 0 .. asked'
      BY <1>2, <3>1
    <3>3. FilesTyped'
      BY <1>1, <2>1, <3>1, <3>2 DEF FilesTyped
    <3>4. ASSUME NEW i \in 1 .. Len(due)
          PROVE  due[i] <= (IF wpc \in Drains THEN file ELSE asked')
      <4>1. CASE wpc \in Drains
        BY <1>3, <1>4, <4>1
      <4>2. CASE wpc \notin Drains
        <5>1. due[i] \in Nat /\ due[i] <= asked
          BY <1>5
        <5>2. due[i] <= asked'
          BY <1>2, <3>1, <5>1
        <5> QED
          BY <4>2, <5>2
      <4> QED
        BY <4>1, <4>2
    <3>5. FileInv'
      BY <1>3, <2>1, <2>4, <3>1, <3>4 DEF FileInv, Drains
    <3> QED
      BY <3>3, <3>5
  <2> QED
    BY <1>7, <2>2, <2>3, <2>4, ElsewhereFiles
(* The oldest entry goes with its line.                                    *)
<1>8. CASE WritesLine
  <2>1. /\ due' = Tail(due) /\ UNCHANGED <<asked, pending, file, head>>
        /\ wpc \in Drains /\ wpc' \in Drains
    BY <1>8 DEF WritesLine, WriteLine, WriteFile, WriterGoes, queueVars, Drains
  <2>2. open' \in BOOLEAN
    BY <1>1, <1>8 DEF WritesLine, WriteLine, WriteFile
  <2>3. Written = tail /\ Written' = tail + 1 /\ tail + 1 \in 1 .. head
    BY <1>8, WritesNext
  <2>4. tail \in Nat /\ head \in Nat
    <3>1. head \in Nat /\ tail \in 0 .. head
      BY DEF QueueTyped
    <3> QED
      BY <3>1
  <2>5. Len(due) \in Nat /\ Len(due) > 0 /\ Len(due) = head - tail
    BY <1>3, <2>3, <2>4
  <2>6. /\ due' \in Seq(0 .. MaxFiles)
        /\ Len(due') = Len(due) - 1
        /\ \A i \in 1 .. Len(due) - 1 : due'[i] = due[i + 1]
    <3>1. due # <<>>
      BY <2>5
    <3> QED
      BY <1>1, <2>1, <3>1
  <2>7. ASSUME NEW i \in 1 .. Len(due')
        PROVE  due'[i] <= file
    <3>1. i + 1 \in 1 .. Len(due) /\ i \in 1 .. Len(due) - 1
      BY <2>5, <2>6
    <3> QED
      BY <1>3, <1>4, <2>1, <2>6, <3>1
  <2>8. Len(due') = head' - Written'
    BY <2>1, <2>3, <2>4, <2>5, <2>6
  <2>9. FilesTyped'
    BY <1>1, <2>1, <2>2, <2>6 DEF FilesTyped
  <2> QED
    BY <1>3, <2>1, <2>7, <2>8, <2>9 DEF FileInv, Drains
<1>9. CASE Advances
  <2>1. /\ UNCHANGED <<asked, pending, file, open, due, head>>
        /\ tail' = tail + 1
        /\ wpc \in {"written", "written last"}
        /\ wpc' \in {"drain", "drain last"}
    BY <1>9 DEF Advances, AdvanceTail, WriterGoes, fileVars
  <2>2. Written' = Written
    <3>1. Written = tail + 1
      BY <2>1 DEF Written
    <3>2. Written' = tail' + 0
      BY <2>1 DEF Written
    <3>3. tail \in Nat
      <4>1. head \in Nat /\ tail \in 0 .. head
        BY DEF QueueTyped
      <4> QED
        BY <4>1
    <3>4. tail' = tail + 1
      BY <2>1
    <3> QED
      BY <3>1, <3>2, <3>3, <3>4
  <2> QED
    BY <1>1, <1>6, <2>1, <2>2 DEF Drains
(* A new entry: the newest file that a round which runs does not miss.     *)
<1>10. ASSUME NEW t \in Loggers, Publish(t)
       PROVE  FilesTyped' /\ FileInv'
  <2>1. /\ head' = head + 1 /\ tail' = tail
        /\ due' = Append(due, newest)
        /\ UNCHANGED <<asked, pending, file, open>>
        /\ wpc' = wpc \/ (wpc = "asleep" /\ wpc' = "locked")
    BY <1>10 DEF Publish, WakeWriter, newest
  <2>2. Written' = Written /\ (wpc' \in Drains <=> wpc \in Drains)
    BY <2>1 DEF Written, Drains
  <2>3. Written \in Nat /\ head \in Nat
    <3>1. head \in Nat /\ tail \in 0 .. head
      BY DEF QueueTyped
    <3>2. Written = tail + 0 \/ Written = tail + 1
      BY DEF Written
    <3> QED
      BY <3>1, <3>2
  <2>4. /\ due' \in Seq(0 .. MaxFiles)
        /\ Len(due') = Len(due) + 1
        /\ \A i \in 1 .. Len(due) : due'[i] = due[i]
        /\ due'[Len(due) + 1] = newest
    BY <1>1, <1>4, <2>1
  <2>5. newest \in Nat
    BY <1>2, <1>4
  <2>6. ASSUME NEW i \in 1 .. Len(due')
        PROVE  due'[i] <= newest
    <3>1. Len(due) \in Nat
      BY <1>1
    <3>2. i \in 1 .. Len(due) \/ i = Len(due) + 1
      BY <2>4, <3>1
    <3> QED
      BY <1>3, <2>4, <2>5, <3>2
  <2>7. Len(due') = head' - Written'
    BY <1>3, <2>1, <2>2, <2>3, <2>4
  <2>8. newest = (IF wpc' \in Drains THEN file' ELSE asked')
    BY <2>1, <2>2 DEF newest
  <2>9. FilesTyped'
    BY <1>1, <2>1, <2>4 DEF FilesTyped
  <2> QED
    BY <1>3, <2>1, <2>6, <2>7, <2>8, <2>9 DEF FileInv, Drains
<1>11. ASSUME NEW t \in Loggers,
              Emit(t) \/ Fill(t) \/ DropLine(t) \/ Direct(t)
       PROVE  FilesTyped' /\ FileInv'
  <2>1. UNCHANGED <<asked, pending, file, open, due, head, tail, wpc>>
    BY <1>11 DEF Emit, Fill, DropLine, Direct, queueVars, fileVars
  <2>2. Written' = Written
    BY <2>1 DEF Written
  <2> QED
    BY <1>1, <1>6, <2>1, <2>2
<1> QED
  BY <1>7, <1>8, <1>9, <1>10, <1>11, NextSplits

-----------------------------------------------------------------------------
(* A line more at the end of a sequence.                                   *)
LEMMA AppendElements ==
  ASSUME NEW S, NEW q \in Seq(S), NEW e \in S
  PROVE  /\ Append(q, e) \in Seq(S) /\ Len(Append(q, e)) = Len(q) + 1
         /\ \A i \in 1 .. Len(q) : Append(q, e)[i] = q[i]
         /\ Append(q, e)[Len(q) + 1] = e
  OBVIOUS

(* Each step leaves shown as it is or puts a line at its end.              *)
LEMMA ShownGrows ==
  ASSUME RingTyped, QueueTyped, LinesInv, QueueInv, [Next]_vars
  PROVE  \/ UNCHANGED <<ring, shown>>
         \/ \E l \in Lines : RingPush(l)
<1>1. CASE Elsewhere
  BY <1>1, ElsewhereKeeps DEF ringVars
<1>2. CASE WritesLine
  <2>1. wq[tail % WqSize] \in Lines
    BY <1>2, WritesNext
  <2> QED
    BY <1>2, <2>1 DEF WritesLine, WriteLine
<1>3. CASE Advances
  BY <1>3 DEF Advances, AdvanceTail, ringVars
<1>4. ASSUME NEW t \in Loggers, Direct(t)
      PROVE  \E l \in Lines : RingPush(l)
  BY <1>4 DEF Direct, LinesInv
<1>5. ASSUME NEW t \in Loggers,
             Emit(t) \/ Fill(t) \/ DropLine(t) \/ Publish(t)
      PROVE  UNCHANGED <<ring, shown>>
  BY <1>5 DEF Emit, Fill, DropLine, Publish, ringVars
<1> QED
  BY <1>1, <1>2, <1>3, <1>4, <1>5, NextSplits

LEMMA ShownKeeps ==
  ASSUME RingTyped, NEW l \in Lines, RingPush(l)
  PROVE  /\ Len(shown) \in Nat /\ Len(shown') = Len(shown) + 1
         /\ \A i \in 1 .. Len(shown) : shown'[i] = shown[i]
         /\ shown'[Len(shown) + 1] = l
<1>1. shown \in Seq(Lines)
  BY DEF RingTyped
<1>2. shown' = Append(shown, l)
  BY DEF RingPush
<1> QED
  BY <1>1, <1>2, AppendElements, SeqElements

(* The ring holds the lines that were shown last.                          *)
LEMMA RingStep ==
  ASSUME RingTyped, QueueTyped, LinesInv, QueueInv, RingInv, [Next]_vars
  PROVE  RingInv'
<1>1. CASE UNCHANGED <<ring, shown>>
  BY <1>1 DEF RingInv, Oldest, s_ring_total
<1>2. ASSUME NEW l \in Lines, RingPush(l)
      PROVE  RingInv'
  <2> DEFINE n == Len(shown)
  <2>1. /\ n \in Nat /\ Len(shown') = n + 1
        /\ \A i \in 1 .. n : shown'[i] = shown[i]
        /\ shown'[n + 1] = l
    BY <1>2, ShownKeeps
  <2>2. /\ ring \in [0 .. RingMax - 1 -> Lines \cup {None}]
        /\ ring' = [ring EXCEPT ![n % RingMax] = l]
    BY <1>2 DEF RingTyped, RingPush, s_ring_total
  <2>3. RingMax \in Nat \ {0}
    BY Sizes
  <2>4. Oldest' = IF n + 1 > RingMax THEN n + 1 - RingMax ELSE 0
    <3>1. Oldest' = IF Len(shown') > RingMax THEN Len(shown') - RingMax ELSE 0
      BY DEF Oldest, s_ring_total
    <3>2. Len(shown') = n + 1 /\ n \in Nat
      BY <2>1
    <3> HIDE DEF n
    <3> DEFINE m == Len(shown')
    <3>3. m = n + 1 /\ Oldest' = IF m > RingMax THEN m - RingMax ELSE 0
      BY <3>1, <3>2
    <3> HIDE DEF m
    <3> QED
      BY <2>3, <3>2, <3>3
  <2>5. Oldest = IF n > RingMax THEN n - RingMax ELSE 0
    BY DEF Oldest, s_ring_total
  <2> HIDE DEF n
  <2>6. ASSUME NEW i \in 0 .. n, i >= Oldest'
        PROVE  ring'[i % RingMax] = shown'[i + 1]
    <3>1. n % RingMax \in 0 .. RingMax - 1 /\ i % RingMax \in 0 .. RingMax - 1
      <4>1. n \in Nat /\ i \in Nat
        BY <2>1, <2>6
      <4> QED
        BY <2>3, <4>1, DivMod
    <3>2. CASE i = n
      <4>1. ring'[n % RingMax] = l
        BY <2>2, <3>1
      <4> QED
        BY <2>1, <3>2, <4>1
    <3>3. CASE i # n
      <4>1. i \in Nat /\ i < n /\ n < i + RingMax
        BY <2>1, <2>3, <2>4, <2>6, <3>3
      <4>2. i >= Oldest
        BY <2>1, <2>3, <2>5, <4>1
      <4>3. i % RingMax # n % RingMax
        BY <2>1, <2>3, <4>1, ModInj
      <4>4. ring'[i % RingMax] = ring[i % RingMax]
        BY <2>2, <3>1, <4>3
      <4>5. i \in 0 .. n - 1 /\ i + 1 \in 1 .. n
        BY <2>1, <4>1
      <4>6. ring[i % RingMax] = shown[i + 1]
        BY <4>2, <4>5 DEF RingInv, n
      <4>7. shown'[i + 1] = shown[i + 1]
        BY <2>1, <4>5
      <4> QED
        BY <4>4, <4>6, <4>7
    <3> QED
      BY <3>2, <3>3
  <2>7. Len(shown') - 1 = n
    BY <2>1
  <2> QED
    BY <2>6, <2>7 DEF RingInv
<1> QED
  BY <1>1, <1>2, ShownGrows

-----------------------------------------------------------------------------
(* What the writer has shown are the lines that were accepted.             *)
LEMMA ShownStep ==
  ASSUME RingTyped, QueueTyped, LinesInv, QueueInv, ShownInv, [Next]_vars
  PROVE  ShownInv'
<1>1. /\ head \in Nat /\ tail \in Nat /\ tail <= head
      /\ mark \in Nat /\ mark <= head
      /\ accepted \in Seq(Lines) /\ Len(accepted) = head
  <2>1. head \in Nat /\ tail \in 0 .. head /\ mark \in 0 .. head
    BY DEF QueueTyped
  <2>2. accepted \in Seq(Lines) /\ Len(accepted) = head
    BY DEF QueueTyped, QueueInv
  <2> QED
    BY <2>1, <2>2
<1>2. Written \in Nat /\ Written <= head
  <2>1. Written = tail + 0 \/ Written = tail + 1
    BY DEF Written
  <2>2. Written <= head
    BY DEF QueueInv
  <2> QED
    BY <1>1, <2>1, <2>2
<1>3. /\ wqRunning => /\ Len(shown) = Written
                      /\ \A i \in 1 .. Written : shown[i] = accepted[i]
      /\ \A n \in 1 .. Written : Shown(n)
      /\ mpc \in Closing => mark <= tail
  BY DEF ShownInv, Closing
<1>4. /\ Len(shown) \in Nat
      /\ \A i \in 1 .. Len(shown) : shown[i] \in Lines
  BY SeqElements DEF RingTyped
(* Nothing is shown.                                                       *)
<1>5. ASSUME shown' = shown, Written' = Written,
             wqRunning' => wqRunning,
             \A i \in 1 .. head : accepted'[i] = accepted[i],
             Len(accepted') \in Nat, Len(accepted') >= head,
             mpc' \in Closing => mark' <= tail'
      PROVE  ShownInv'
  <2>1. ASSUME NEW n \in 1 .. Written
        PROVE  Shown(n)'
    <3>1. n \in 1 .. head /\ n <= Len(accepted')
      BY <1>1, <1>2, <1>5
    <3>2. \E i \in 1 .. Len(shown) : shown[i] = accepted[n]
      BY <1>3 DEF Shown
    <3> QED
      BY <1>5, <3>1, <3>2 DEF Shown
  <2>2. \A i \in 1 .. Written : accepted'[i] = accepted[i]
    BY <1>1, <1>2, <1>5
  <2> QED
    BY <1>3, <1>5, <2>1, <2>2 DEF ShownInv, Closing
<1>6. CASE Elsewhere
  <2>1. UNCHANGED <<head, tail, accepted, shown>> /\ Written' = Written
    BY <1>6, ElsewhereKeeps DEF ringVars
  <2>4. wqRunning' => wqRunning
    <3>1. wqRunning' = wqRunning \/ wqRunning' = FALSE
      BY <1>6, ElsewhereKeeps
    <3> QED
      BY <3>1
  <2>2. ASSUME mpc' \in Closing
        PROVE  mark' <= tail'
    <3>1. mark' = mark /\ (mpc \in Closing \/ head = tail)
      BY <1>6, <2>2, ElsewhereMark
    <3>2. CASE mpc \in Closing
      BY <1>3, <2>1, <3>1, <3>2
    <3>3. CASE head = tail
      BY <1>1, <2>1, <3>1, <3>3
    <3> QED
      BY <3>1, <3>2, <3>3
  <2>3. Len(accepted') \in Nat /\ Len(accepted') >= head
    BY <1>1, <2>1
  <2> QED
    BY <1>5, <2>1, <2>2, <2>3, <2>4
(* The next line is shown.                                                 *)
<1>7. CASE WritesLine
  <2>1. /\ tail + 1 \in 1 .. head
        /\ wq[tail % WqSize] = accepted[tail + 1]
        /\ accepted[tail + 1] \in Lines
        /\ Written = tail /\ Written' = tail + 1
    BY <1>7, WritesNext
  <2>2. /\ RingPush(accepted[tail + 1])
        /\ UNCHANGED <<wqRunning, head, tail, accepted, mpc, mark>>
    BY <1>7, <2>1 DEF WritesLine, WriteLine, queueVars
  <2>3. /\ Len(shown') = Len(shown) + 1
        /\ \A i \in 1 .. Len(shown) : shown'[i] = shown[i]
        /\ shown'[Len(shown) + 1] = accepted[tail + 1]
    BY <2>1, <2>2, ShownKeeps
  <2>4. ASSUME wqRunning
        PROVE  /\ Len(shown') = tail + 1
               /\ \A i \in 1 .. tail + 1 : shown'[i] = accepted[i]
    <3>1. Len(shown) = tail /\ \A i \in 1 .. tail : shown[i] = accepted[i]
      BY <1>3, <2>1, <2>4
    <3>2. \A i \in 1 .. tail + 1 : i \in 1 .. tail \/ i = tail + 1
      BY <1>1
    <3> QED
      BY <2>3, <3>1, <3>2
  <2>5. ASSUME NEW n \in 1 .. tail + 1
        PROVE  Shown(n)'
    <3>1. \E i \in 1 .. Len(shown') : shown'[i] = accepted[n]
      <4>1. CASE n = tail + 1
        <5>1. Len(shown) + 1 \in 1 .. Len(shown')
          BY <1>4, <2>3
        <5> QED
          BY <2>3, <4>1, <5>1
      <4>2. CASE n # tail + 1
        <5>1. n \in 1 .. Written
          BY <1>1, <2>1, <4>2
        <5>2. PICK i \in 1 .. Len(shown) : shown[i] = accepted[n]
          BY <1>3, <5>1 DEF Shown
        <5>3. i \in 1 .. Len(shown') /\ shown'[i] = accepted[n]
          BY <1>4, <2>3, <5>2
        <5> QED
          BY <5>3
      <4> QED
        BY <4>1, <4>2
    <3>2. n <= Len(accepted)
      BY <1>1, <2>1
    <3> QED
      BY <2>2, <3>1, <3>2 DEF Shown
  <2> QED
    BY <1>3, <2>1, <2>2, <2>4, <2>5 DEF ShownInv, Closing
<1>8. CASE Advances
  <2>1. /\ UNCHANGED <<wqRunning, head, accepted, shown, mpc, mark>>
        /\ tail' = tail + 1
        /\ wpc \in {"written", "written last"}
        /\ wpc' \in {"drain", "drain last"}
    BY <1>8 DEF Advances, AdvanceTail, WriterGoes, ringVars
  <2>2. Written' = Written
    <3>1. Written = tail + 1
      BY <2>1 DEF Written
    <3>2. Written' = tail' + 0
      BY <2>1 DEF Written
    <3>3. tail' = tail + 1
      BY <2>1
    <3> QED
      BY <1>1, <3>1, <3>2, <3>3
  <2>3. mpc' \in Closing => mark' <= tail'
    <3>1. mpc \in Closing => mark <= tail
      BY <1>3
    <3>2. mpc' = mpc /\ mark' = mark /\ tail' = tail + 1
      BY <2>1
    <3>3. mark \in Nat /\ tail \in Nat
      BY <1>1
    <3> QED
      BY <3>1, <3>2, <3>3
  <2>4. Len(accepted') \in Nat /\ Len(accepted') >= head
    <3>1. accepted' = accepted /\ Len(accepted) = head /\ head \in Nat
      BY <1>1, <2>1
    <3> QED
      BY <3>1
  <2> QED
    BY <1>5, <2>1, <2>2, <2>3, <2>4
<1>9. ASSUME NEW t \in Loggers, Publish(t)
      PROVE  ShownInv'
  <2>1. line[t] \in Lines
    BY <1>9 DEF Publish, LinesInv
  <2>2. /\ accepted' = Append(accepted, line[t])
        /\ UNCHANGED <<wqRunning, tail, shown, mpc, mark>>
        /\ wpc' = wpc \/ (wpc = "asleep" /\ wpc' = "locked")
    BY <1>9 DEF Publish, WakeWriter, ringVars
  <2>3. Written' = Written
    BY <2>2 DEF Written
  <2>4. /\ Len(accepted') = head + 1
        /\ \A i \in 1 .. head : accepted'[i] = accepted[i]
    BY <1>1, <2>1, <2>2, AppendElements
  <2>5. Len(accepted') \in Nat /\ Len(accepted') >= head
    BY <1>1, <2>4
  <2> QED
    BY <1>3, <1>5, <2>2, <2>3, <2>4, <2>5
(* A thread that shows its line itself does so when the writer is stopped. *)
<1>10. ASSUME NEW t \in Loggers, Direct(t)
       PROVE  ShownInv'
  <2>1. line[t] \in Lines /\ ~wqRunning
    BY <1>10 DEF Direct, LinesInv
  <2>2. /\ RingPush(line[t])
        /\ UNCHANGED <<wqRunning, head, tail, accepted, wpc, mpc, mark>>
    BY <1>10 DEF Direct, queueVars
  <2>3. Written' = Written
    BY <2>2 DEF Written
  <2>4. /\ Len(shown') = Len(shown) + 1
        /\ \A i \in 1 .. Len(shown) : shown'[i] = shown[i]
    BY <2>1, <2>2, ShownKeeps
  <2>5. ASSUME NEW n \in 1 .. Written
        PROVE  Shown(n)'
    <3>1. PICK i \in 1 .. Len(shown) :
                 shown[i] = accepted[n] /\ n <= Len(accepted)
      BY <1>3 DEF Shown
    <3>2. i \in 1 .. Len(shown') /\ shown'[i] = accepted[n]
      BY <1>4, <2>4, <3>1
    <3> QED
      BY <2>2, <3>1, <3>2 DEF Shown
  <2> QED
    BY <1>3, <2>1, <2>2, <2>3, <2>5 DEF ShownInv, Closing
<1>11. ASSUME NEW t \in Loggers, Emit(t) \/ Fill(t) \/ DropLine(t)
       PROVE  ShownInv'
  <2>1. /\ UNCHANGED <<wqRunning, head, tail, accepted, shown, wpc, mark>>
        /\ mpc' \in {mpc, "saying"}
    BY <1>11 DEF Emit, Fill, DropLine, queueVars, ringVars
  <2>2. Written' = Written
    BY <2>1 DEF Written
  <2>3. mpc' \in Closing => mark' <= tail'
    BY <1>3, <2>1 DEF Closing
  <2>4. Len(accepted') \in Nat /\ Len(accepted') >= head
    BY <1>1, <2>1
  <2> QED
    BY <1>5, <2>1, <2>2, <2>3, <2>4
<1> QED
  BY <1>6, <1>7, <1>8, <1>9, <1>10, <1>11, NextSplits

-----------------------------------------------------------------------------
(* What a reader has: next to each id the line that belongs to it.         *)
ReaderInv ==
  \A r \in Readers :
    /\ next[r] <= Len(shown)
    /\ \A pair \in got[r] :
         \E i \in 0 .. Len(shown) - 1 : pair = <<i, shown[i + 1]>>

ReadersTyped ==
  got \in [Readers -> SUBSET (Nat \X (Lines \cup {None}))]

(* The range a poll reads.                                                 *)
From(r) == Most(next[r], Oldest)
End(r) == Least(s_ring_total, From(r) + MaxPoll)

LEMMA PollRange ==
  ASSUME RingTyped, NEW r \in Readers
  PROVE  /\ From(r) \in Nat /\ End(r) \in Nat
         /\ From(r) >= next[r] /\ From(r) >= Oldest /\ Oldest \in Nat
         /\ End(r) <= Len(shown)
<1> DEFINE n == Len(shown)
           k == next[r]
<1>1. n \in Nat /\ k \in Nat
  BY SeqElements DEF RingTyped
<1>2. Oldest = IF n > RingMax THEN n - RingMax ELSE 0
  BY DEF Oldest, s_ring_total
<1>3. From(r) = IF k < Oldest THEN Oldest ELSE k
  BY DEF From, Most
<1>4. End(r) = IF n < From(r) + MaxPoll THEN n ELSE From(r) + MaxPoll
  BY DEF End, Least, s_ring_total
<1> DEFINE o == Oldest
           f == From(r)
           e == End(r)
<1>5. /\ o = IF n > RingMax THEN n - RingMax ELSE 0
      /\ f = IF k < o THEN o ELSE k
      /\ e = IF n < f + MaxPoll THEN n ELSE f + MaxPoll
  BY <1>2, <1>3, <1>4
<1>6. SUFFICES /\ f \in Nat /\ e \in Nat /\ f >= k /\ f >= o /\ o \in Nat
               /\ e <= n
  OBVIOUS
<1> HIDE DEF n, k, o, f, e
<1>7. RingMax \in Nat \ {0} /\ MaxPoll \in Nat \ {0}
  BY Sizes
<1>8. o \in Nat /\ o + RingMax >= n
  BY <1>1, <1>5, <1>7
<1>9. f \in Nat /\ f >= k /\ f >= o /\ (f = k \/ f = o)
  BY <1>1, <1>5, <1>8
<1>10. e \in Nat /\ e <= n
  BY <1>1, <1>5, <1>7, <1>8, <1>9
<1> QED
  BY <1>8, <1>9, <1>10

LEMMA ReaderStep ==
  ASSUME RingTyped, RingTyped', RingInv, ReadersTyped, ReaderInv, QueueTyped,
         LinesInv, QueueInv, [Next]_vars
  PROVE  ReadersTyped' /\ ReaderInv'
<1>1. Len(shown) \in Nat /\ \A r \in Readers : next[r] \in Nat
  BY SeqElements DEF RingTyped
<1>2. /\ Len(shown') \in Nat /\ Len(shown') >= Len(shown)
      /\ \A i \in 1 .. Len(shown) : shown'[i] = shown[i]
  <2>1. CASE UNCHANGED <<ring, shown>>
    BY <1>1, <2>1
  <2>2. ASSUME NEW l \in Lines, RingPush(l)
        PROVE  <1>2
    BY <2>2, ShownKeeps
  <2> QED
    BY <2>1, <2>2, ShownGrows
<1>3. CASE UNCHANGED readerVars
  <2>1. ReadersTyped'
    BY <1>3 DEF readerVars, ReadersTyped, Lines
  <2>2. ASSUME NEW r \in Readers
        PROVE  next[r] <= Len(shown')
    <3>1. next[r] <= Len(shown) /\ next[r] \in Nat
      BY <1>1 DEF ReaderInv
    <3> QED
      BY <1>1, <1>2, <3>1
  <2>3. ASSUME NEW r \in Readers, NEW pair \in got[r]
        PROVE  \E i \in 0 .. Len(shown') - 1 : pair = <<i, shown'[i + 1]>>
    <3>1. PICK i \in 0 .. Len(shown) - 1 : pair = <<i, shown[i + 1]>>
      BY DEF ReaderInv
    <3>2. i \in 0 .. Len(shown') - 1 /\ i + 1 \in 1 .. Len(shown)
      BY <1>1, <1>2
    <3>3. pair = <<i, shown'[i + 1]>>
      BY <1>2, <3>1, <3>2
    <3> QED
      BY <3>2, <3>3
  <2> QED
    BY <1>3, <2>1, <2>2, <2>3 DEF readerVars, ReaderInv
<1>4. ASSUME NEW r \in Readers, Poll(r)
      PROVE  ReadersTyped' /\ ReaderInv'
  <2> DEFINE f == From(r)
             e == End(r)
             new == {<<i, ring[i % RingMax]>> : i \in f .. e - 1}
  <2>1. /\ next' = [next EXCEPT ![r] = Len(shown)]
        /\ got' = [got EXCEPT ![r] = @ \cup new]
        /\ shown' = shown
    BY <1>4 DEF Poll, From, End, s_ring_total, ringVars
  <2>2. /\ f \in Nat /\ e \in Nat /\ f >= Oldest /\ Oldest \in Nat
        /\ e <= Len(shown)
    BY PollRange
  <2> HIDE DEF f, e
  <2>3. ASSUME NEW i \in f .. e - 1
        PROVE  /\ i \in 0 .. Len(shown) - 1
               /\ ring[i % RingMax] = shown[i + 1]
    <3>1. i \in 0 .. Len(shown) - 1 /\ i >= Oldest
      BY <1>1, <2>2
    <3> QED
      BY <3>1 DEF RingInv
  <2>4. \A pair \in new :
          \E i \in 0 .. Len(shown) - 1 : pair = <<i, shown[i + 1]>>
    BY <2>3
  <2>5. new \subseteq Nat \X (Lines \cup {None})
    <3>1. ASSUME NEW i \in 0 .. Len(shown) - 1
          PROVE  <<i, shown[i + 1]>> \in Nat \X (Lines \cup {None})
      <4>1. i \in Nat /\ i + 1 \in 1 .. Len(shown)
        BY <1>1
      <4>2. shown[i + 1] \in Lines
        BY <4>1, SeqElements DEF RingTyped
      <4> QED
        BY <4>1, <4>2
    <3> HIDE DEF new
    <3> QED
      BY <2>4, <3>1
  <2>6. ReadersTyped'
    <3>1. got \in [Readers -> SUBSET (Nat \X (Lines \cup {None}))]
      BY DEF ReadersTyped
    <3> HIDE DEF new
    <3>2. got' \in [Readers -> SUBSET (Nat \X (Lines \cup {None}))]
      BY <2>1, <2>5, <3>1
    <3>3. Lines' = Lines
      BY DEF Lines
    <3> QED
      BY <3>2, <3>3 DEF ReadersTyped
  <2> HIDE DEF new
  <2>7. /\ next'[r] = Len(shown)
        /\ got'[r] = got[r] \cup new
    <3>1. r \in DOMAIN next /\ r \in DOMAIN got
      BY DEF RingTyped, ReadersTyped
    <3> QED
      BY <2>1, <3>1
  <2>8. \A s \in Readers \ {r} :
          next'[s] = next[s] /\ got'[s] = got[s]
    BY <2>1 DEF RingTyped, ReadersTyped
  <2>9. ASSUME NEW s \in Readers
         PROVE  /\ next'[s] <= Len(shown)
                /\ \A pair \in got'[s] :
                     \E i \in 0 .. Len(shown) - 1 : pair = <<i, shown[i + 1]>>
    <3>1. CASE s = r
      <4>1. next'[s] <= Len(shown)
        BY <1>1, <2>7, <3>1
      <4> QED
        BY <2>4, <2>7, <3>1, <4>1 DEF ReaderInv
    <3>2. CASE s # r
      BY <2>8, <3>2 DEF ReaderInv
    <3> QED
      BY <3>1, <3>2
  <2> QED
    BY <2>1, <2>6, <2>9 DEF ReaderInv
<1>5. UNCHANGED readerVars \/ \E r \in Readers : Poll(r)
  <2>1. CASE Elsewhere
    BY <2>1 DEF Elsewhere, MainThread, WriterTop, WriterWaits, WriterOnly,
       ApplyFile, DrainEnds, WakeFlush, SetFile, SignalFile, BeginFlush,
       MainOnly, FlushWaits, FlushReturns, BeginLastFlush, StopWriter,
       SignalWriter, JoinWriter, vars, readerVars
  <2>2. CASE WritesLine \/ Advances
    BY <2>2 DEF WritesLine, WriteLine, Advances, AdvanceTail
  <2>3. CASE \E t \in Loggers :
               Emit(t) \/ Fill(t) \/ DropLine(t) \/ Publish(t) \/ Direct(t)
    BY <2>3 DEF Emit, Fill, DropLine, Publish, Direct
  <2> QED
    BY <2>1, <2>2, <2>3, NextSplits
<1> QED
  BY <1>3, <1>4, <1>5

-----------------------------------------------------------------------------
(* The end: who sleeps on a condition, and what is left for the last round. *)
LastRound ==
  {"apply last", "drain last", "written last", "drained last", "exited"}

SleepInv ==
  /\ wpc = "asleep" => head = tail /\ (wqRunning \/ mpc = "signal")
  /\ mpc \in {"asleep 1", "asleep 2"} =>
       head # tail \/ wpc \in {"drain", "drained"}

LastInv ==
  /\ wqRunning <=> mpc \notin {"signal", "join", "closed"}
  /\ wpc \in LastRound => ~wqRunning
  /\ wpc \in LastRound \ {"apply last"} => ~pending
  /\ wpc \in {"drained last", "exited"} => owed <= tail
  /\ mpc = "closed" => wpc = "exited" /\ ~open

LEMMA LoggerEnds ==
  ASSUME TypeOK, SleepInv, LastInv, NEW t \in Loggers,
         Emit(t) \/ Fill(t) \/ DropLine(t) \/ Publish(t) \/ Direct(t)
  PROVE  SleepInv' /\ LastInv'
<1>1. head \in Nat /\ tail \in 0 .. head /\ owed \in 0 .. head
  BY TypeParts DEF QueueTyped
<1>2. CASE Emit(t)
  <2>1. UNCHANGED <<wqRunning, head, tail, owed, pending, open, wpc>>
    BY <1>2 DEF Emit, queueVars, fileVars
  <2>2. mpc' = mpc \/ (mpc = "say" /\ mpc' = "saying")
    BY <1>2 DEF Emit
  <2> QED
    BY <2>1, <2>2 DEF SleepInv, LastInv
<1>3. CASE Fill(t) \/ DropLine(t) \/ Direct(t)
  <2>1. UNCHANGED <<wqRunning, head, tail, owed, pending, open, wpc, mpc>>
    BY <1>3 DEF Fill, DropLine, Direct, queueVars, fileVars
  <2> QED
    BY <2>1 DEF SleepInv, LastInv
<1>4. CASE Publish(t)
  <2>1. /\ UNCHANGED <<wqRunning, tail, pending, open, mpc>>
        /\ head' = head + 1 /\ (~wqRunning => owed' = owed)
        /\ wpc' = IF wpc = "asleep" THEN "locked" ELSE wpc
    BY <1>4 DEF Publish, WakeWriter
  <2>2. head' # tail'
    BY <1>1, <2>1
  <2>3. SleepInv'
    BY <2>1, <2>2 DEF SleepInv
  <2>4. LastInv'
    BY <2>1 DEF LastInv, LastRound
  <2> QED
    BY <2>3, <2>4
<1> QED
  BY <1>2, <1>3, <1>4

LEMMA WriterEnds ==
  ASSUME TypeOK, SleepInv, LastInv, Writer
  PROVE  SleepInv' /\ LastInv'
<1>1. head \in Nat /\ tail \in 0 .. head /\ owed \in 0 .. head
  BY TypeParts DEF QueueTyped
<1> USE DEF WriterGoes
<1>2. CASE WriterTop \/ WriterWaits
  <2>1. UNCHANGED <<wqRunning, head, tail, owed, pending, open, mpc>>
    BY <1>2 DEF WriterTop, WriterWaits, WriterOnly, queueVars, fileVars
  <2>2. \/ wpc = "top" /\ wpc' \in {"locked", "apply last"}
             /\ (wpc' = "apply last" => ~wqRunning)
        \/ wpc = "locked" /\ wpc' \in {"asleep", "apply"}
             /\ (wpc' = "asleep" => head = tail /\ wqRunning)
    BY <1>2 DEF WriterTop, WriterWaits
  <2> QED
    BY <2>1, <2>2 DEF SleepInv, LastInv, LastRound
<1>3. CASE \/ ApplyFile("apply", "drain")
           \/ ApplyFile("apply last", "drain last")
  <2>1. UNCHANGED <<wqRunning, head, tail, owed, mpc>> /\ ~pending'
    BY <1>3 DEF ApplyFile, queueVars
  <2>2. \/ wpc = "apply" /\ wpc' = "drain"
        \/ wpc = "apply last" /\ wpc' = "drain last"
    BY <1>3 DEF ApplyFile
  <2> QED
    BY <2>1, <2>2 DEF SleepInv, LastInv, LastRound
<1>4. CASE WritesLine
  <2>1. /\ UNCHANGED <<wqRunning, head, tail, owed, pending, mpc>>
        /\ head # tail
    BY <1>4 DEF WritesLine, WriteLine, WriteFile, queueVars
  <2>2. \/ wpc = "drain" /\ wpc' = "written"
        \/ wpc = "drain last" /\ wpc' = "written last"
    BY <1>4 DEF WritesLine, WriteLine
  <2> QED
    BY <2>1, <2>2 DEF SleepInv, LastInv, LastRound
<1>5. CASE Advances
  <2>1. UNCHANGED <<wqRunning, head, owed, pending, open, mpc>>
    BY <1>5 DEF Advances, AdvanceTail, fileVars
  <2>2. \/ wpc = "written" /\ wpc' = "drain"
        \/ wpc = "written last" /\ wpc' = "drain last"
    BY <1>5 DEF Advances, AdvanceTail
  <2> QED
    BY <2>1, <2>2 DEF SleepInv, LastInv, LastRound
<1>6. CASE \/ DrainEnds("drain", "drained")
           \/ DrainEnds("drain last", "drained last")
  <2>1. /\ UNCHANGED <<wqRunning, head, tail, owed, pending, open, mpc>>
        /\ tail = head
    BY <1>6 DEF DrainEnds, WriterOnly, queueVars, fileVars
  <2>2. \/ wpc = "drain" /\ wpc' = "drained"
        \/ wpc = "drain last" /\ wpc' = "drained last"
    BY <1>6 DEF DrainEnds
  <2>3. owed <= tail
    BY <1>1, <2>1
  <2> QED
    BY <2>1, <2>2, <2>3 DEF SleepInv, LastInv, LastRound
<1>7. CASE \/ WakeFlush("drained", "top") \/ WakeFlush("drained last", "exited")
  <2>1. UNCHANGED <<wqRunning, head, tail, owed, pending, open>>
    BY <1>7 DEF WakeFlush, queueVars, fileVars
  <2>2. \/ wpc = "drained" /\ wpc' = "top"
        \/ wpc = "drained last" /\ wpc' = "exited"
    BY <1>7 DEF WakeFlush
  <2>3. \/ mpc = "asleep 1" /\ mpc' = "flush 1"
        \/ mpc = "asleep 2" /\ mpc' = "flush 2"
        \/ mpc \notin {"asleep 1", "asleep 2"} /\ mpc' = mpc
    BY <1>7 DEF WakeFlush
  <2> QED
    BY <2>1, <2>2, <2>3 DEF SleepInv, LastInv, LastRound
<1> QED
  BY <1>2, <1>3, <1>4, <1>5, <1>6, <1>7 DEF Writer, WritesLine, Advances

LEMMA MainEnds ==
  ASSUME SleepInv, LastInv, MainThread
  PROVE  SleepInv' /\ LastInv'
<1> USE DEF MainGoes
<1>1. CASE SetFile
  <2>1. /\ UNCHANGED <<wqRunning, head, tail, owed, open, wpc>>
        /\ mpc = "running" /\ mpc' = "set"
    BY <1>1 DEF SetFile, queueVars
  <2> QED
    BY <2>1 DEF SleepInv, LastInv, LastRound
<1>2. CASE SignalFile \/ SignalWriter
  <2>1. /\ UNCHANGED <<wqRunning, head, tail, owed, pending, open>>
        /\ wpc' = IF wpc = "asleep" THEN "locked" ELSE wpc
        /\ \/ mpc = "set" /\ mpc' = "running"
           \/ mpc = "signal" /\ mpc' = "join"
    BY <1>2 DEF SignalFile, SignalWriter, WakeWriter, queueVars, fileVars
  <2> QED
    BY <2>1 DEF SleepInv, LastInv, LastRound
<1>3. CASE \/ BeginFlush \/ BeginLastFlush
           \/ FlushReturns("flush 1", "say") \/ FlushReturns("flush 2", "stop")
  <2>1. UNCHANGED <<wqRunning, head, tail, owed, pending, open, wpc>>
    BY <1>3 DEF BeginFlush, BeginLastFlush, FlushReturns, MainOnly, queueVars,
                fileVars
  <2>2. /\ mpc \in {"running", "saying", "flush 1", "flush 2"}
        /\ mpc' \in {"flush 1", "flush 2", "say", "stop"}
    BY <1>3 DEF BeginFlush, BeginLastFlush, FlushReturns
  <2> QED
    BY <2>1, <2>2 DEF SleepInv, LastInv, LastRound
<1>4. CASE \/ FlushWaits("flush 1", "asleep 1")
           \/ FlushWaits("flush 2", "asleep 2")
  <2>1. UNCHANGED <<wqRunning, head, tail, owed, pending, open, wpc>>
    BY <1>4 DEF FlushWaits, MainOnly, queueVars, fileVars
  <2>2. /\ mpc \in {"flush 1", "flush 2"}
        /\ mpc' \in {"asleep 1", "asleep 2"} /\ head # tail
    BY <1>4 DEF FlushWaits
  <2> QED
    BY <2>1, <2>2 DEF SleepInv, LastInv, LastRound
<1>5. CASE StopWriter
  <2>1. /\ UNCHANGED <<head, tail, owed, pending, open, wpc>>
        /\ mpc = "stop" /\ mpc' = "signal" /\ wqRunning' = FALSE
    BY <1>5 DEF StopWriter, fileVars
  <2> QED
    BY <2>1 DEF SleepInv, LastInv, LastRound
<1>6. CASE JoinWriter
  <2>1. /\ UNCHANGED <<wqRunning, head, tail, owed, pending, wpc>>
        /\ mpc = "join" /\ mpc' = "closed" /\ wpc = "exited" /\ open' = FALSE
    BY <1>6 DEF JoinWriter, queueVars
  <2> QED
    BY <2>1 DEF SleepInv, LastInv, LastRound
<1> QED
  BY <1>1, <1>2, <1>3, <1>4, <1>5, <1>6 DEF MainThread

LEMMA EndsStep ==
  ASSUME TypeOK, SleepInv, LastInv, [Next]_vars
  PROVE  SleepInv' /\ LastInv'
<1>1. CASE UNCHANGED vars \/ \E r \in Readers : Poll(r)
  <2>1. UNCHANGED <<wqRunning, head, tail, owed, pending, open, wpc, mpc>>
    BY <1>1 DEF vars, Poll, queueVars, fileVars
  <2> QED
    BY <2>1 DEF SleepInv, LastInv
<1> QED
  BY <1>1, LoggerEnds, WriterEnds, MainEnds DEF Next, Logger

-----------------------------------------------------------------------------
IInv ==
  /\ TypeOK /\ LinesInv /\ QueueInv /\ ShownInv /\ FileInv /\ RingInv
  /\ ReadersTyped /\ ReaderInv /\ SleepInv /\ LastInv

LEMMA Initially ==
  ASSUME Init
  PROVE  IInv
<1>1. WqSize \in Nat \ {0} /\ RingMax \in Nat \ {0} /\ MaxLines \in Nat
      /\ MaxFiles \in Nat \ {0}
  BY Sizes
<1>2. /\ head = 0 /\ tail = 0 /\ owed = 0 /\ mark = 0 /\ accepted = <<>>
      /\ wqRunning = TRUE /\ wq = [i \in 0 .. WqSize - 1 |-> None]
      /\ shown = <<>> /\ ring = [i \in 0 .. RingMax - 1 |-> None]
      /\ wpc = "top" /\ mpc = "running" /\ lines = 0
      /\ tpc = [t \in Loggers |-> "idle"] /\ line = [t \in Loggers |-> None]
      /\ asked \in {0, 1} /\ pending = (asked = 1) /\ file = 0 /\ open = FALSE
      /\ due = <<>>
      /\ next = [r \in Readers |-> 0] /\ got = [r \in Readers |-> {}]
  BY DEF Init
<1>3. QueueTyped
  BY <1>2 DEF QueueTyped
<1>4. ThreadsTyped
  BY <1>1, <1>2 DEF ThreadsTyped
<1>5. FilesTyped
  <2>1. asked \in 0 .. MaxFiles /\ file \in 0 .. asked
    BY <1>1, <1>2
  <2>2. pending \in BOOLEAN /\ open \in BOOLEAN
    BY <1>2
  <2>3. due \in Seq(0 .. MaxFiles)
    BY <1>2
  <2> QED
    BY <2>1, <2>2, <2>3 DEF FilesTyped
<1>6. PlacesTyped
  BY <1>2 DEF PlacesTyped, WriterPlaces, MainPlaces
<1>7. RingTyped
  BY <1>2 DEF RingTyped
<1>8. LinesInv
  BY <1>1, <1>2 DEF LinesInv
<1>9. Written = 0
  BY <1>2 DEF Written
<1>10. QueueInv
  <2>1. \A i \in tail .. head - 1 : FALSE
    BY <1>2
  <2>2. head < tail + WqSize /\ Written <= head /\ Len(accepted) = head
    BY <1>1, <1>2, <1>9
  <2> QED
    BY <1>2, <2>1, <2>2 DEF QueueInv
<1>11. ShownInv
  <2>1. \A n \in 1 .. Written : FALSE
    BY <1>9
  <2>2. Len(shown) = Written
    BY <1>2, <1>9
  <2> QED
    BY <1>2, <2>1, <2>2 DEF ShownInv
<1>12. FileInv
  <2>1. Len(due) = 0 /\ head - Written = 0
    BY <1>2, <1>9
  <2>2. ~pending => file = asked
    BY <1>2
  <2> QED
    BY <2>1, <2>2 DEF FileInv
<1>13. RingInv
  <2>1. \A i \in 0 .. Len(shown) - 1 : FALSE
    BY <1>2
  <2> QED
    BY <2>1 DEF RingInv
<1>14. ReadersTyped
  BY <1>2 DEF ReadersTyped
<1>15. ReaderInv
  BY <1>2 DEF ReaderInv
<1>16. SleepInv /\ LastInv
  BY <1>2 DEF SleepInv, LastInv, LastRound
<1> QED
  BY <1>3, <1>4, <1>5, <1>6, <1>7, <1>8, <1>10, <1>11, <1>12, <1>13, <1>14,
     <1>15, <1>16, TypeParts DEF IInv

LEMMA Inductive ==
  ASSUME IInv, [Next]_vars
  PROVE  IInv'
<1>1. /\ QueueTyped /\ ThreadsTyped /\ FilesTyped /\ PlacesTyped /\ RingTyped
      /\ TypeOK
  BY TypeParts DEF IInv
<1>2. /\ LinesInv /\ QueueInv /\ ShownInv /\ FileInv /\ RingInv
      /\ ReadersTyped /\ ReaderInv /\ SleepInv /\ LastInv
  BY DEF IInv
<1>3. LinesInv'
  BY <1>1, <1>2, LinesStep
<1>4. QueueInv'
  BY <1>1, <1>2, QueueStep
<1>5. QueueTyped'
  BY <1>1, <1>2, QueueTypedStep
<1>6. ThreadsTyped'
  BY <1>1, <1>2, <1>3, ThreadsStep
<1>7. FilesTyped' /\ FileInv'
  BY <1>1, <1>2, FilesStep
<1>8. PlacesTyped'
  BY <1>1, PlacesStep
<1>9. RingTyped'
  BY <1>1, <1>2, RingTypedStep
<1>10. ShownInv'
  BY <1>1, <1>2, ShownStep
<1>11. RingInv'
  BY <1>1, <1>2, RingStep
<1>12. ReadersTyped' /\ ReaderInv'
  BY <1>1, <1>2, <1>9, ReaderStep
<1>13. TypeOK'
  BY <1>5, <1>6, <1>7, <1>8, <1>9
     DEF TypeOK, QueueTyped, ThreadsTyped, FilesTyped, PlacesTyped, RingTyped,
         WriterPlaces, MainPlaces
<1>14. SleepInv' /\ LastInv'
  BY <1>1, <1>2, EndsStep
<1> QED
  BY <1>3, <1>4, <1>7, <1>10, <1>11, <1>12, <1>13, <1>14 DEF IInv

LEMMA Invariant == Spec => []IInv
<1>1. Init => IInv
  BY Initially
<1>2. IInv /\ [Next]_vars => IInv'
  BY Inductive
<1> QED
  BY <1>1, <1>2, PTL DEF Spec

-----------------------------------------------------------------------------
(* Every variable of the logger keeps its type: no index, line number or   *)
(* file number leaves its range.                                           *)
THEOREM TypeCorrect == Spec => []TypeOK
<1>1. IInv => TypeOK
  BY DEF IInv
<1> QED
  BY <1>1, Invariant, PTL

(* writer_drain shows the lines that wq_push accepted, in that order and    *)
(* each once, for any number of threads and a queue of any size: no slot   *)
(* is filled again before the writer is done with it.                      *)
THEOREM FifoCorrect == Spec => []QueueIsFifo
<1>1. IInv => QueueIsFifo
  <2>1. SUFFICES ASSUME IInv, wqRunning
                 PROVE  shown = SubSeq(accepted, 1, Written)
    BY DEF QueueIsFifo, Written
  <2>2. /\ QueueTyped /\ RingTyped /\ QueueInv /\ ShownInv
    BY <2>1, TypeParts DEF IInv
  <2>3. /\ accepted \in Seq(Lines) /\ shown \in Seq(Lines)
        /\ Len(accepted) = head
    BY <2>2 DEF QueueTyped, RingTyped, QueueInv
  <2>4. Written \in Nat /\ Written <= Len(accepted)
    <3>1. head \in Nat /\ tail \in 0 .. head
      BY <2>2 DEF QueueTyped
    <3>2. Written = tail + 0 \/ Written = tail + 1
      BY DEF Written
    <3>3. Written <= head
      BY <2>2 DEF QueueInv
    <3> QED
      BY <2>3, <3>1, <3>2, <3>3
  <2>5. Len(shown) = Written /\ \A i \in 1 .. Written : shown[i] = accepted[i]
    BY <2>1, <2>2 DEF ShownInv
  <2> HIDE DEF Written
  <2> DEFINE q == SubSeq(accepted, 1, Written)
  <2>6. /\ q \in Seq(Lines) /\ Len(q) = Written
        /\ \A i \in 1 .. Written : q[i] = accepted[i]
    BY <2>3, <2>4
  <2> HIDE DEF q
  <2>7. shown = q
    BY <2>3, <2>4, <2>5, <2>6, SeqEqual
  <2> QED
    BY <2>7 DEF q
<1> QED
  BY <1>1, Invariant, PTL

(* log_set_file: no line goes to a file older than the one that was asked   *)
(* for when the line was accepted, unless a round was already under way.   *)
THEOREM FileCorrect == Spec => []FileFollows
<1>1. IInv => FileFollows
  <2>1. SUFFICES ASSUME IInv, wpc \in {"drain", "drain last"}, due # <<>>
                 PROVE  file >= Head(due)
    BY DEF FileFollows
  <2>2. FilesTyped /\ FileInv
    BY <2>1, TypeParts DEF IInv
  <2>3. due \in Seq(0 .. MaxFiles)
    BY <2>2 DEF FilesTyped
  <2>4. 1 \in 1 .. Len(due) /\ Head(due) = due[1]
    <3>1. Len(due) \in Nat
      BY <2>3, SeqElements
    <3>2. CASE Len(due) = 0
      <4>1. <<>> \in Seq(0 .. MaxFiles) /\ Len(<<>>) = 0
        OBVIOUS
      <4>2. \A i \in 1 .. Len(due) : FALSE
        BY <3>2
      <4>3. due = <<>>
        BY <2>3, <3>2, <4>1, <4>2, SeqEqual
      <4> QED
        BY <2>1, <4>3
    <3>3. CASE Len(due) # 0
      <4>1. Len(due) >= 1
        BY <3>1, <3>3
      <4> QED
        BY <2>3, <3>1, <4>1
    <3> QED
      BY <3>2, <3>3
  <2>5. due[1] <= file
    <3>1. wpc \in Drains
      BY <2>1 DEF Drains
    <3> QED
      BY <2>2, <2>4, <3>1 DEF FileInv
  <2>6. file \in Nat /\ due[1] \in Nat
    <3>1. asked \in 0 .. MaxFiles /\ file \in 0 .. asked
      BY <2>2 DEF FilesTyped
    <3>2. due[1] \in 0 .. MaxFiles
      BY <2>3, <2>4, SeqElements
    <3> QED
      BY <3>1, <3>2, Sizes
  <2> QED
    BY <2>4, <2>5, <2>6
<1> QED
  BY <1>1, Invariant, PTL

(* log_flush: when the second one has returned, every line accepted before  *)
(* it began has been shown.                                                *)
THEOREM FlushCorrect == Spec => []FlushedMeansShown
<1>1. IInv => FlushedMeansShown
  <2>1. SUFFICES ASSUME IInv, mpc \in {"stop", "signal", "join", "closed"},
                        NEW n \in 1 .. mark
                 PROVE  Shown(n)
    BY DEF FlushedMeansShown
  <2>2. QueueTyped /\ ShownInv
    BY <2>1, TypeParts DEF IInv
  <2>3. head \in Nat /\ tail \in 0 .. head /\ mark \in 0 .. head
    BY <2>2 DEF QueueTyped
  <2>4. mark <= tail
    BY <2>1, <2>2 DEF ShownInv
  <2>5. Written = tail + 0 \/ Written = tail + 1
    BY DEF Written
  <2>6. n \in 1 .. Written
    BY <2>3, <2>4, <2>5
  <2> QED
    BY <2>2, <2>6 DEF ShownInv
<1> QED
  BY <1>1, Invariant, PTL

(* log_ring_since: whatever the size of a poll, a reader never takes a line *)
(* for another one: it has the line of an id, although the ring has gone   *)
(* round meanwhile.                                                        *)
THEOREM ReaderExactCorrect == Spec => []ReaderExact
<1>1. IInv => ReaderExact
  BY DEF IInv, ReaderInv, ReaderExact, s_ring_total
<1> QED
  BY <1>1, Invariant, PTL

(* No wake-up is lost: the writer sleeps only over an empty queue, and not  *)
(* while main() sleeps in log_flush until it is empty or waits for the     *)
(* writer in pthread_join.                                                 *)
NoLostWakeup ==
  wpc = "asleep" => head = tail /\ mpc \notin {"asleep 1", "asleep 2", "join"}

THEOREM WakeupCorrect == Spec => []NoLostWakeup
<1>1. IInv => NoLostWakeup
  BY DEF IInv, SleepInv, LastInv, NoLostWakeup
<1> QED
  BY <1>1, Invariant, PTL

(* When the writer has ended, every line that was accepted while the       *)
(* logger was running is shown, also those that came after main()'s last   *)
(* flush; and when log_shutdown has returned, no file is open and no path  *)
(* is left that the writer has not looked at.                              *)
NothingLeft ==
  /\ wpc = "exited" => \A n \in 1 .. owed : Shown(n)
  /\ mpc = "closed" => wpc = "exited" /\ ~open /\ ~pending

THEOREM NothingLeftCorrect == Spec => []NothingLeft
<1>1. IInv => NothingLeft
  <2>1. ASSUME IInv, wpc = "exited", NEW n \in 1 .. owed
        PROVE  Shown(n)
    <3>1. QueueTyped /\ ShownInv /\ owed <= tail
      BY <2>1, TypeParts DEF IInv, LastInv
    <3>2. tail \in Nat /\ owed \in Nat
      BY <3>1 DEF QueueTyped
    <3>3. Written = tail
      BY <2>1, <3>2 DEF Written
    <3>4. n \in 1 .. Written
      BY <3>1, <3>2, <3>3
    <3> QED
      BY <3>1, <3>4 DEF ShownInv
  <2>2. ASSUME IInv, mpc = "closed"
        PROVE  wpc = "exited" /\ ~open /\ ~pending
    BY <2>2 DEF IInv, LastInv, LastRound
  <2> QED
    BY <2>1, <2>2 DEF NothingLeft
<1> QED
  BY <1>1, Invariant, PTL
=============================================================================
