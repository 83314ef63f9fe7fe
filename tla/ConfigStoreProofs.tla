------------------------- MODULE ConfigStoreProofs -------------------------
(***************************************************************************)
(* Theorems of ConfigStore, for any number of web threads, settings, users *)
(* and saves: type correctness, that no request for a reload is lost, that *)
(* no temporary file is left behind and that the file loads as memory      *)
(* would when nobody is at work.                                           *)
(***************************************************************************)
EXTENDS ConfigStore, TLAPS

(* What a job has in hand at each of its steps, whatever the others do.    *)
JobOK(w) ==
  /\ Idle(w) <=> job[w].kind = "none"
  /\ job[w].pc \in {"reopen", "copy", "remove"} => Page(w)
  /\ job[w].pc \in {"verify", "write"} => job[w].kind = "file"
  /\ job[w].kind = "file" => job[w].text \in Config
  /\ job[w].pc = "flush" => job[w].text \in Config /\ job[w].file \in Inodes
  /\ job[w].pc \in {"truncate", "copy"} /\ Page(w) => job[w].file \in Inodes

Typed == TypeOK /\ \A w \in Threads : JobOK(w)

LEMMA InitTyped == Init => Typed
<1> SUFFICES ASSUME Init
             PROVE  Typed
  OBVIOUS
<1> USE ConfigStoreAssumption DEF Init
<1>1. NoJob \in Job
  BY DEF NoJob, Job, Text
<1>2. TypeOK
  <2>1. job \in [Threads -> Job]
    BY <1>1
  <2>2. conf \in Text /\ data \in [Inodes -> Text]
    BY DEF Text
  <2>3. jobs \in 0 .. MaxJobs
    OBVIOUS
  <2> QED
    BY <2>1, <2>2, <2>3 DEF TypeOK
<1>3. \A w \in Threads : JobOK(w)
  BY DEF JobOK, NoJob, Idle, Page
<1> QED
  BY <1>2, <1>3 DEF Typed

(* A step of one thread leaves the jobs of the others alone.               *)
LEMMA JobStep ==
  ASSUME Typed, NEW w \in Threads, NEW j \in Job, Becomes(w, j)
  PROVE  /\ job' \in [Threads -> Job]
         /\ job'[w] = j
         /\ \A v \in Threads : v # w => job'[v] = job[v] /\ JobOK(v)'
<1>1. job \in [Threads -> Job]
  BY DEF Typed, TypeOK
<1>2. job' \in [Threads -> Job] /\ job'[w] = j
  BY <1>1 DEF Becomes
<1>3. \A v \in Threads : v # w => job'[v] = job[v]
  BY <1>1 DEF Becomes
<1> QED
  BY <1>2, <1>3 DEF Typed, JobOK, Idle, Page

LEMMA NoJobTyped ==
  NoJob \in Job /\ NoJob.pc = "idle" /\ NoJob.kind = "none"
BY ConfigStoreAssumption DEF NoJob, Job, Text

(* A job whose next step is only a matter of place.                        *)
LEMMA Placed ==
  ASSUME Typed, NEW w \in Threads, NEW j,
         NEW pc \in {"truncate", "copy", "write", "remove"},
         j = [job[w] EXCEPT !.pc = pc]
  PROVE  /\ j \in Job /\ j.pc = pc /\ j.kind = job[w].kind
         /\ j.text = job[w].text /\ j.file = job[w].file
<1>1. job[w] \in Job
  BY DEF Typed, TypeOK
<1> QED
  BY <1>1 DEF Job

LEMMA BeginTyped ==
  ASSUME Typed, NEW w \in Threads, NEW kind \in {"form", "user", "file"},
         NEW text \in Text, kind = "file" => text \in Config, Begin(w, kind, text)
  PROVE  /\ job' \in [Threads -> Job]
         /\ \A v \in Threads : JobOK(v)'
         /\ clash' \in BOOLEAN
         /\ jobs' \in 0 .. MaxJobs
<1> DEFINE j == [pc |-> "open", kind |-> kind, text |-> text, file |-> None]
<1>1. j \in Job
  BY DEF Job
<1>2. Becomes(w, j)
  BY DEF Begin
<1>3. /\ job' \in [Threads -> Job]
      /\ job'[w] = j
      /\ \A v \in Threads : v # w => JobOK(v)'
  BY <1>1, <1>2, JobStep
<1>4. JobOK(w)'
  BY <1>3 DEF JobOK, Idle, Page
<1>5. clash' \in BOOLEAN /\ jobs' \in 0 .. MaxJobs
  BY ConfigStoreAssumption DEF Begin, Typed, TypeOK
<1> QED
  BY <1>3, <1>4, <1>5

LEMMA WrittenTyped ==
  ASSUME NEW old \in Text, NEW text \in Text
  PROVE  Written(old, text) \subseteq Text
BY DEF Written, Text

LEMMA LoadsTyped ==
  ASSUME NEW text \in Text
  PROVE  Loads(text) \subseteq Config
<1>1. AsRead \in [Config -> Config]
  BY ConfigStoreAssumption
<1>2. [opt |-> Default, accs |-> {}] \in Config
  <2>1. Default \in Settings
    BY ConfigStoreAssumption
  <2> QED
    BY <2>1 DEF Config
<1>3. \A c \in Config : AsRead[c] \in Config
  BY <1>1
<1>4. CASE text = Mixed
  <2>1. Loads(text) = {AsRead[c] : c \in Config}
    BY <1>4 DEF Loads
  <2> QED
    BY <1>3, <2>1
<1>5. CASE text # Mixed /\ text = Empty
  <2>1. Loads(text) = {[opt |-> Default, accs |-> {}]}
    BY <1>5 DEF Loads
  <2> QED
    BY <1>2, <2>1
<1>6. CASE text # Mixed /\ text # Empty
  <2>1. Loads(text) = {AsRead[text]} /\ text \in Config
    BY <1>6 DEF Loads, Text
  <2> QED
    BY <1>3, <2>1
<1> QED
  BY <1>4, <1>5, <1>6

LEMMA TypedStep ==
  ASSUME Typed, [Next]_vars
  PROVE  Typed'
<1> USE ConfigStoreAssumption
<1>0. /\ mem \in Config /\ conf \in Text /\ tmp \in Inodes \cup {None}
      /\ data \in [Inodes -> Text] /\ job \in [Threads -> Job]
      /\ ncfg \in Config
  BY DEF Typed, TypeOK
<1>1. ASSUME NEW w \in Threads, FormChange(w)
      PROVE  Typed'
  <2>1. mem' \in Config
    BY <1>0, <1>1 DEF FormChange, Config
  <2>2. Begin(w, "form", Empty)
    BY <1>1 DEF FormChange
  <2>3. /\ job' \in [Threads -> Job] /\ clash' \in BOOLEAN /\ jobs' \in 0 .. MaxJobs
        /\ \A v \in Threads : JobOK(v)'
    BY <2>2, BeginTyped DEF Text
  <2> QED
    BY <1>1, <2>1, <2>3 DEF FormChange, Typed, TypeOK
<1>2. ASSUME NEW w \in Threads, UserChange(w)
      PROVE  Typed'
  <2>1. PICK before \in Users \cup {None}, after \in Users \cup {None} :
          mem' = [mem EXCEPT !.accs = (@ \ {before}) \cup ({after} \ {None})]
    BY <1>2 DEF UserChange
  <2>2. mem' \in Config
    BY <1>0, <2>1 DEF Config
  <2>3. Begin(w, "user", Empty)
    BY <1>2 DEF UserChange
  <2>4. /\ job' \in [Threads -> Job] /\ clash' \in BOOLEAN /\ jobs' \in 0 .. MaxJobs
        /\ \A v \in Threads : JobOK(v)'
    BY <2>3, BeginTyped DEF Text
  <2> QED
    BY <1>2, <2>2, <2>4 DEF UserChange, Typed, TypeOK
<1>3. ASSUME NEW w \in Threads, FileSave(w)
      PROVE  Typed'
  <2>1. PICK text \in Config : Begin(w, "file", text)
    BY <1>3 DEF FileSave
  <2>2. /\ job' \in [Threads -> Job] /\ clash' \in BOOLEAN /\ jobs' \in 0 .. MaxJobs
        /\ \A v \in Threads : JobOK(v)'
    BY <2>1, BeginTyped DEF Text
  <2> QED
    BY <1>3, <2>2 DEF FileSave, Typed, TypeOK
<1>4. ASSUME NEW w \in Threads, OpenTmp(w)
      PROVE  Typed'
  <2> DEFINE opened(f) == [pc |-> "flush", kind |-> job[w].kind, file |-> f,
                           text |-> IF Page(w) THEN [opt |-> mem.opt, accs |-> {}]
                                    ELSE job[w].text]
  <2>1. PICK f \in Inodes : /\ tmp' = f
                            /\ data' = [data EXCEPT ![f] = Empty]
                            /\ Becomes(w, opened(f))
    BY <1>4 DEF OpenTmp
  <2>2. JobOK(w) /\ job[w] \in Job /\ job[w].pc = "open"
    BY <1>0, <1>4 DEF Typed, OpenTmp
  <2>3. opened(f).text \in Config
    <3>1. CASE Page(w)
      BY <1>0, <3>1 DEF Config
    <3>2. CASE ~Page(w)
      BY <2>2, <3>2 DEF JobOK, Page, Idle, Job
    <3> QED
      BY <3>1, <3>2
  <2>4. opened(f) \in Job
    BY <2>2, <2>3 DEF Job, Text
  <2> HIDE DEF opened
  <2>5. /\ job' \in [Threads -> Job] /\ job'[w] = opened(f)
        /\ \A v \in Threads : v # w => JobOK(v)'
    BY <2>1, <2>4, JobStep
  <2>6. opened(f).pc = "flush" /\ opened(f).kind = job[w].kind /\ opened(f).file = f
    BY DEF opened
  <2>7. JobOK(w)'
    BY <2>2, <2>3, <2>5, <2>6 DEF JobOK, Page, Idle
  <2>8. data' \in [Inodes -> Text] /\ tmp' \in Inodes
    BY <1>0, <2>1 DEF Text
  <2> QED
    BY <1>4, <2>5, <2>7, <2>8 DEF OpenTmp, Typed, TypeOK
<1>5. ASSUME NEW w \in Threads, FlushTmp(w)
      PROVE  Typed'
  <2> DEFINE text == IF Page(w) THEN [opt |-> job[w].text.opt, accs |-> mem.accs]
                     ELSE job[w].text
             next == [pc |-> IF Page(w) THEN "reopen" ELSE "verify",
                      kind |-> job[w].kind, file |-> None,
                      text |-> IF Page(w) THEN Empty ELSE text]
  <2>1. JobOK(w) /\ job[w] \in Job /\ job[w].pc = "flush"
    BY <1>0, <1>5 DEF Typed, FlushTmp
  <2>2. job[w].text \in Config /\ job[w].file \in Inodes
    BY <2>1 DEF JobOK
  <2>3. text \in Config
    BY <1>0, <2>2 DEF Config
  <2>4. PICK t \in Written(data[job[w].file], text) :
          data' = [data EXCEPT ![job[w].file] = t]
    BY <1>5 DEF FlushTmp
  <2>5. data[job[w].file] \in Text /\ text \in Text
    BY <1>0, <2>2, <2>3 DEF Text
  <2>6. t \in Text
    BY <2>4, <2>5, WrittenTyped
  <2>7. data' \in [Inodes -> Text]
    BY <1>0, <2>4, <2>6
  <2>8. next \in Job
    BY <2>1, <2>5 DEF Job, Text
  <2>9. Becomes(w, next)
    BY <1>5 DEF FlushTmp
  <2>10. /\ next.pc = IF Page(w) THEN "reopen" ELSE "verify"
         /\ next.kind = job[w].kind
         /\ ~Page(w) => next.text \in Config
    BY <2>3
  <2> HIDE DEF next
  <2>11. /\ job' \in [Threads -> Job] /\ job'[w] = next
         /\ \A v \in Threads : v # w => JobOK(v)'
    BY <2>8, <2>9, JobStep
  <2>12. job[w].kind \in {"form", "user", "file"}
    BY <2>1 DEF JobOK, Idle, Job
  <2>13. JobOK(w)'
    BY <2>1, <2>10, <2>11, <2>12 DEF JobOK, Page, Idle
  <2> QED
    BY <1>5, <2>7, <2>11, <2>13 DEF FlushTmp, Typed, TypeOK
<1>6. ASSUME NEW w \in Threads, Reopen(w)
      PROVE  Typed'
  <2> DEFINE next == [job[w] EXCEPT !.pc = "truncate", !.file = tmp]
  <2>1. Becomes(w, next) /\ tmp \in Inodes
    BY <1>0, <1>6 DEF Reopen
  <2>2. /\ next \in Job /\ next.pc = "truncate" /\ next.kind = job[w].kind
        /\ next.file = tmp /\ next.text = job[w].text
    BY <1>0, <2>1 DEF Job
  <2> HIDE DEF next
  <2>3. /\ job' \in [Threads -> Job] /\ job'[w] = next
        /\ \A v \in Threads : v # w => JobOK(v)'
    BY <2>1, <2>2, JobStep
  <2>4. JobOK(w)'
    BY <1>6, <2>1, <2>2, <2>3 DEF Reopen, Typed, JobOK, Page, Idle
  <2> QED
    BY <1>6, <2>3, <2>4 DEF Reopen, Typed, TypeOK
<1>7. ASSUME NEW w \in Threads, Verify(w)
      PROVE  Typed'
  <2> DEFINE next == [job[w] EXCEPT !.pc = "truncate"]
  <2>1. Becomes(w, next)
    BY <1>7 DEF Verify, Move
  <2>2. /\ next \in Job /\ next.pc = "truncate" /\ next.kind = job[w].kind
        /\ next.text = job[w].text
    BY Placed
  <2> HIDE DEF next
  <2>3. /\ job' \in [Threads -> Job] /\ job'[w] = next
        /\ \A v \in Threads : v # w => JobOK(v)'
    BY <2>1, <2>2, JobStep
  <2>4. JobOK(w) /\ job[w].pc = "verify"
    BY <1>7 DEF Verify, Typed
  <2>5. JobOK(w)'
    BY <2>2, <2>3, <2>4 DEF JobOK, Page, Idle
  <2> QED
    BY <1>7, <2>3, <2>5 DEF Verify, Typed, TypeOK
<1>8. ASSUME NEW w \in Threads, Ends(w)
      PROVE  job' \in [Threads -> Job] /\ \A v \in Threads : JobOK(v)'
  <2>1. /\ job' \in [Threads -> Job] /\ job'[w] = NoJob
        /\ \A v \in Threads : v # w => JobOK(v)'
    BY <1>8, NoJobTyped, JobStep DEF Ends
  <2>2. JobOK(w)'
    BY <2>1, NoJobTyped DEF JobOK, Page, Idle
  <2> QED
    BY <2>1, <2>2
<1>9. ASSUME NEW w \in Threads, SaveFails(w)
      PROVE  Typed'
  BY <1>8, <1>9 DEF SaveFails, Typed, TypeOK
<1>10. ASSUME NEW w \in Threads, Truncate(w)
       PROVE  Typed'
  <2> DEFINE pc == IF Page(w) THEN "copy" ELSE "write"
             next == [job[w] EXCEPT !.pc = pc]
  <2>1. Becomes(w, next)
    BY <1>10 DEF Truncate, Move
  <2>2. /\ next \in Job /\ next.pc = pc /\ next.kind = job[w].kind
        /\ next.file = job[w].file /\ next.text = job[w].text
    BY Placed
  <2> HIDE DEF next
  <2>3. /\ job' \in [Threads -> Job] /\ job'[w] = next
        /\ \A v \in Threads : v # w => JobOK(v)'
    BY <2>1, <2>2, JobStep
  <2>4. job[w].kind \in {"form", "user", "file"}
    BY <1>0, <1>10 DEF Truncate, Typed, JobOK, Idle, Job
  <2>5. JobOK(w)'
    BY <1>10, <2>2, <2>3, <2>4 DEF Truncate, Typed, JobOK, Page, Idle
  <2> QED
    BY <1>10, <2>3, <2>5 DEF Truncate, Typed, TypeOK, Text
<1>11. ASSUME NEW w \in Threads, Copy(w)
       PROVE  Typed'
  <2> DEFINE next == [job[w] EXCEPT !.pc = "remove", !.file = None]
  <2>1. Becomes(w, next)
    BY <1>11 DEF Copy
  <2>2. /\ next \in Job /\ next.pc = "remove" /\ next.kind = job[w].kind
        /\ next.text = job[w].text
    BY <1>0 DEF Job
  <2> HIDE DEF next
  <2>3. /\ job' \in [Threads -> Job] /\ job'[w] = next
        /\ \A v \in Threads : v # w => JobOK(v)'
    BY <2>1, <2>2, JobStep
  <2>4. JobOK(w) /\ job[w].pc = "copy"
    BY <1>11 DEF Copy, Typed
  <2>5. JobOK(w)'
    BY <2>2, <2>3, <2>4 DEF JobOK, Page, Idle
  <2>6. data[job[w].file] \in Text
    BY <1>0, <2>4 DEF JobOK
  <2>7. conf' \in Text
    BY <1>0, <1>11, <2>6, WrittenTyped DEF Copy
  <2> QED
    BY <1>11, <2>3, <2>5, <2>7 DEF Copy, Typed, TypeOK
<1>12. ASSUME NEW w \in Threads, RemoveTmp(w)
       PROVE  Typed'
  BY <1>8, <1>12 DEF RemoveTmp, AskReload, Typed, TypeOK
<1>13. ASSUME NEW w \in Threads, WriteConf(w)
       PROVE  Typed'
  <2>1. job[w].text \in Text
    BY <1>0 DEF Job
  <2>2. conf' \in Text
    BY <1>0, <1>13, <2>1, WrittenTyped DEF WriteConf
  <2> QED
    BY <1>8, <1>13, <2>2 DEF WriteConf, AskReload, Typed, TypeOK
<1>14. ASSUME UNCHANGED job
       PROVE  \A w \in Threads : JobOK(w)'
  BY <1>14 DEF Typed, JobOK, Page, Idle
<1>15. CASE ReloadPage
  BY <1>14, <1>15 DEF ReloadPage, AskReload, Typed, TypeOK
<1>16. CASE ReloadStart
  BY <1>14, <1>16 DEF ReloadStart, Typed, TypeOK
<1>17. CASE ReloadLoad
  <2>1. ncfg' \in Config
    BY <1>0, <1>17, LoadsTyped DEF ReloadLoad
  <2> QED
    BY <1>14, <1>17, <2>1 DEF ReloadLoad, Typed, TypeOK
<1>18. CASE ReloadSwap
  BY <1>0, <1>14, <1>18 DEF ReloadSwap, Typed, TypeOK
<1>19. CASE UNCHANGED vars
  BY <1>14, <1>19 DEF vars, Typed, TypeOK
<1> QED
  BY <1>1, <1>2, <1>3, <1>4, <1>5, <1>6, <1>7, <1>9, <1>10, <1>11, <1>12, <1>13,
     <1>15, <1>16, <1>17, <1>18, <1>19 DEF Next, PageStep

(* Every variable keeps its type, whoever saves over whom.                 *)
THEOREM TypeCorrect == Spec => []TypeOK
<1>1. Typed => TypeOK
  BY DEF Typed
<1> QED
  BY <1>1, InitTyped, TypedStep, PTL DEF Spec

-----------------------------------------------------------------------------
(* Where an action takes the job of its thread.                            *)
Goes(w, pc, kind, file) ==
  /\ job'[w].pc = pc /\ job'[w].kind = kind /\ job'[w].file = file
  /\ \A v \in Threads : v # w => job'[v] = job[v]

LEMMA BeginGoes ==
  ASSUME Typed, NEW w \in Threads, NEW kind \in {"form", "user", "file"},
         NEW text \in Text, Begin(w, kind, text)
  PROVE  Goes(w, "open", kind, None)
<1> DEFINE j == [pc |-> "open", kind |-> kind, text |-> text, file |-> None]
<1>1. j \in Job /\ Becomes(w, j)
  BY DEF Begin, Job
<1> QED
  BY <1>1, JobStep DEF Goes

LEMMA OpenGoes ==
  ASSUME Typed, NEW w \in Threads, OpenTmp(w)
  PROVE  /\ tmp' \in Inodes
         /\ Goes(w, "flush", job[w].kind, tmp')
         /\ data' = [data EXCEPT ![tmp'] = Empty]
         /\ Page(w) => job'[w].text.opt = mem.opt
<1>1. PICK f \in Inodes :
        /\ tmp' = f
        /\ data' = [data EXCEPT ![f] = Empty]
        /\ Becomes(w, [pc |-> "flush", kind |-> job[w].kind, file |-> f,
                       text |-> IF Page(w) THEN [opt |-> mem.opt, accs |-> {}]
                                ELSE job[w].text])
  BY DEF OpenTmp
<1>2. job \in [Threads -> Job]
  BY DEF Typed, TypeOK
<1> QED
  BY <1>1, <1>2 DEF Becomes, Goes

LEMMA FlushGoes ==
  ASSUME Typed, NEW w \in Threads, FlushTmp(w)
  PROVE  Goes(w, IF Page(w) THEN "reopen" ELSE "verify", job[w].kind, None)
<1>1. job \in [Threads -> Job]
  BY DEF Typed, TypeOK
<1>2. PICK t : Becomes(w, [pc |-> IF Page(w) THEN "reopen" ELSE "verify",
                           kind |-> job[w].kind, file |-> None, text |-> t])
  BY DEF FlushTmp
<1> QED
  BY <1>1, <1>2 DEF Becomes, Goes

LEMMA ReopenGoes ==
  ASSUME Typed, NEW w \in Threads, Reopen(w)
  PROVE  Goes(w, "truncate", job[w].kind, tmp)
<1>1. job \in [Threads -> Job] /\ job[w] \in Job
  BY DEF Typed, TypeOK
<1> QED
  BY <1>1 DEF Reopen, Becomes, Goes, Job

LEMMA MoveGoes ==
  ASSUME Typed, NEW w \in Threads, NEW pc, Move(w, pc)
  PROVE  Goes(w, pc, job[w].kind, job[w].file)
<1>1. job \in [Threads -> Job] /\ job[w] \in Job
  BY DEF Typed, TypeOK
<1> QED
  BY <1>1 DEF Move, Becomes, Goes, Job

LEMMA CopyGoes ==
  ASSUME Typed, NEW w \in Threads, Copy(w)
  PROVE  Goes(w, "remove", job[w].kind, None)
<1>1. job \in [Threads -> Job] /\ job[w] \in Job
  BY DEF Typed, TypeOK
<1> QED
  BY <1>1 DEF Copy, Becomes, Goes, Job

LEMMA EndsGoes ==
  ASSUME Typed, NEW w \in Threads, Ends(w)
  PROVE  Goes(w, "idle", "none", None)
<1>1. job \in [Threads -> Job]
  BY DEF Typed, TypeOK
<1> QED
  BY <1>1 DEF Ends, NoJob, Becomes, Goes

-----------------------------------------------------------------------------
(* The flag is inductive by itself: only ReloadStart lowers it, and the    *)
(* reading that settles the debt follows at once.                          *)
LEMMA RequestStep ==
  ASSUME RequestKept, [Next]_vars
  PROVE  RequestKept'
<1>1. ASSUME NEW w \in Threads, PageStep(w)
      PROVE  RequestKept'
  BY <1>1 DEF PageStep, RequestKept, FormChange, UserChange, FileSave, OpenTmp, FlushTmp,
              Begin, Reopen, Verify, SaveFails, Truncate, Copy, RemoveTmp, WriteConf,
              AskReload
<1>2. CASE ReloadPage
  BY <1>2 DEF ReloadPage, AskReload, RequestKept
<1>3. CASE ReloadStart
  BY <1>3 DEF ReloadStart, RequestKept
<1>4. CASE ReloadLoad
  BY <1>4 DEF ReloadLoad, RequestKept
<1>5. CASE ReloadSwap
  BY <1>5 DEF ReloadSwap, RequestKept
<1>6. CASE UNCHANGED vars
  BY <1>6 DEF vars, RequestKept
<1> QED
  BY <1>1, <1>2, <1>3, <1>4, <1>5, <1>6 DEF Next

(* No request for a reload is lost to the clearing of the flag.            *)
THEOREM RequestCorrect == Spec => []RequestKept
<1>1. Init => RequestKept
  BY DEF Init, RequestKept
<1> QED
  BY <1>1, RequestStep, PTL DEF Spec

-----------------------------------------------------------------------------
(* As long as there is a temporary file, somebody is on the way to         *)
(* removing it.                                                            *)
Owes(w) ==
  \/ job[w].pc \in {"flush", "reopen", "verify", "copy", "remove"}
  \/ job[w].pc = "truncate" /\ Page(w)

TmpOwed == tmp # None => \E w \in Threads : Owes(w)

LEMMA TmpStep ==
  ASSUME Typed, TmpOwed, [Next]_vars
  PROVE  TmpOwed'
<1> USE ConfigStoreAssumption
<1>1. ASSUME NEW w \in Threads, NEW kind \in {"form", "user", "file"}, NEW text \in Text,
             Begin(w, kind, text), UNCHANGED tmp
      PROVE  TmpOwed'
  BY <1>1, BeginGoes DEF TmpOwed, Owes, Page, Begin, Idle, Goes
<1>2. ASSUME NEW w \in Threads, FormChange(w) \/ UserChange(w) \/ FileSave(w)
      PROVE  TmpOwed'
  BY <1>1, <1>2 DEF FormChange, UserChange, FileSave, Text
<1>3. ASSUME NEW w \in Threads, OpenTmp(w)
      PROVE  TmpOwed'
  BY <1>3, OpenGoes DEF TmpOwed, Owes, Page, Goes
<1>4. ASSUME NEW w \in Threads, FlushTmp(w)
      PROVE  TmpOwed'
  <2>1. Owes(w)'
    BY <1>4, FlushGoes DEF Owes, Goes
  <2> QED
    BY <2>1 DEF TmpOwed
<1>5. ASSUME NEW w \in Threads, Reopen(w)
      PROVE  TmpOwed'
  <2>1. Page(w)
    BY <1>5 DEF Reopen, Typed, JobOK
  <2>2. Owes(w)'
    BY <1>5, <2>1, ReopenGoes DEF Owes, Goes, Page
  <2> QED
    BY <2>2 DEF TmpOwed
<1>6. ASSUME NEW w \in Threads, Verify(w) \/ RemoveTmp(w)
      PROVE  TmpOwed'
  BY <1>6 DEF Verify, RemoveTmp, TmpOwed
<1>7. ASSUME NEW w \in Threads, SaveFails(w)
      PROVE  TmpOwed'
  BY <1>7 DEF SaveFails, TmpOwed
<1>8. ASSUME NEW w \in Threads, Truncate(w)
      PROVE  TmpOwed'
  <2>1. Goes(w, IF Page(w) THEN "copy" ELSE "write", job[w].kind, job[w].file)
    BY <1>8, MoveGoes DEF Truncate
  <2>2. Owes(w) => Owes(w)'
    BY <1>8, <2>1 DEF Owes, Goes, Truncate
  <2>3. \A v \in Threads : v # w => (Owes(v) => Owes(v)')
    BY <2>1 DEF Owes, Goes, Page
  <2> QED
    BY <1>8, <2>2, <2>3 DEF TmpOwed, Truncate
<1>9. ASSUME NEW w \in Threads, Copy(w)
      PROVE  TmpOwed'
  <2>1. Owes(w)'
    BY <1>9, CopyGoes DEF Owes, Goes
  <2> QED
    BY <2>1 DEF TmpOwed
<1>10. ASSUME NEW w \in Threads, WriteConf(w)
       PROVE  TmpOwed'
  <2>1. ~Owes(w)
    BY <1>10 DEF Owes, WriteConf
  <2>2. \A v \in Threads : v # w => (Owes(v) => Owes(v)')
    BY <1>10, EndsGoes DEF Owes, Goes, Page, WriteConf
  <2> QED
    BY <1>10, <2>1, <2>2 DEF TmpOwed, WriteConf
<1>11. ASSUME UNCHANGED <<tmp, job>>
       PROVE  TmpOwed'
  BY <1>11 DEF TmpOwed, Owes, Page
<1> QED
  BY <1>2, <1>3, <1>4, <1>5, <1>6, <1>7, <1>8, <1>9, <1>10, <1>11
     DEF Next, PageStep, ReloadPage, ReloadStart, ReloadLoad, ReloadSwap, vars

(* No temporary file outlives the last save, in whatever order the saves   *)
(* find it gone.                                                           *)
THEOREM TmpCorrect == Spec => []NoTmpLeft
<1>1. Init => TmpOwed
  BY DEF Init, TmpOwed
<1>2. Typed /\ TmpOwed => NoTmpLeft
  BY DEF TmpOwed, Owes, NoTmpLeft, Idle
<1> QED
  BY <1>1, <1>2, InitTyped, TypedStep, TmpStep, PTL DEF Spec

-----------------------------------------------------------------------------
(* Without a clash there is one save at a time, and no user page while     *)
(* main() reloads.  The saving thread then finds in the files what it has  *)
(* put there; a user page with nobody beside it moreover writes out memory *)
(* as it stands, for it asks for no reload that would mend a difference.   *)
OneSaver == \A v, w \in Threads : Saving(v) /\ Saving(w) => v = w

NoUserReload == Reloading => \A w \in Threads : job[w].kind # "user"

Sound(w) ==
  /\ job[w].pc = "flush" => data[job[w].file] = Empty /\ tmp = job[w].file
  /\ job[w].pc = "reopen" => tmp \in Inodes /\ data[tmp] \in Config
  /\ job[w].pc = "verify" => tmp # None
  /\ job[w].pc \in {"truncate", "copy"} /\ Page(w) => data[job[w].file] \in Config
  /\ job[w].pc \in {"copy", "write"} => conf = Empty

Alone(w) == \A v \in Threads : v # w => Idle(v)

UpToDate(w) ==
  /\ job[w].pc = "flush" => job[w].text.opt = mem.opt
  /\ job[w].pc = "reopen" => data[tmp] = mem
  /\ job[w].pc \in {"truncate", "copy"} => data[job[w].file] = mem
  /\ job[w].pc = "remove" => conf = mem

AllSound == \A w \in Threads : Saving(w) => Sound(w)

UserUpToDate ==
  \A w \in Threads : Saving(w) /\ job[w].kind = "user" /\ Alone(w) => UpToDate(w)

Whole == conf \in Config \/ \E w \in Threads : job[w].pc \in {"copy", "write"}

AllIdle == \A w \in Threads : Idle(w)

Settled ==
  AllIdle /\ ~g_reload_cfg =>
    /\ conf \in Config
    /\ mpc = "poll" => AsRead[conf] = AsRead[mem]
    /\ mpc = "swap" => AsRead[conf] = AsRead[ncfg]

Good == OneSaver /\ NoUserReload /\ AllSound /\ UserUpToDate /\ Whole /\ Settled
Rest == ~clash => Good

LEMMA TypedFacts ==
  ASSUME Typed
  PROVE  /\ mem \in Config /\ conf \in Text /\ tmp \in Inodes \cup {None}
         /\ data \in [Inodes -> Text] /\ job \in [Threads -> Job] /\ ncfg \in Config
         /\ Empty \notin Config /\ Mixed \notin Config /\ None \notin Inodes
         /\ \A c \in Config : AsRead[AsRead[c]] = AsRead[c]
         /\ \A w \in Threads : JobOK(w)
BY ConfigStoreAssumption DEF Typed, TypeOK

(* A page or the editor begins: its job is not Saving yet, and whoever is  *)
(* Saving is no longer alone.                                              *)
LEMMA BeginGood ==
  ASSUME Typed, Good, NEW w \in Threads, NEW kind \in {"form", "user", "file"},
         NEW text \in Text, Begin(w, kind, text), ~clash',
         UNCHANGED <<conf, tmp, data, mpc, ncfg, g_reload_cfg>>
  PROVE  Good'
<1> USE DEF Good
<1>1. Goes(w, "open", kind, None) /\ Idle(w)
  BY BeginGoes DEF Begin
<1>2. \A v \in Threads : Saving(v)' => v # w /\ Saving(v) /\ job'[v] = job[v]
  BY <1>1 DEF Goes, Saving
<1>3. OneSaver'
  BY <1>2 DEF OneSaver
<1>4. NoUserReload'
  BY <1>1 DEF NoUserReload, Begin, Reloading, Goes
<1>5. AllSound'
  BY <1>2 DEF AllSound, Sound, Page
<1>6. UserUpToDate'
  BY <1>1, <1>2 DEF UserUpToDate, Alone, Goes, Idle
<1>7. Whole'
  BY <1>1 DEF Whole, Goes, Idle
<1>8. Settled'
  BY <1>1 DEF Settled, AllIdle, Goes, Idle
<1> QED
  BY <1>3, <1>4, <1>5, <1>6, <1>7, <1>8

LEMMA OpenGood ==
  ASSUME Typed, Good, NEW w \in Threads, OpenTmp(w), ~clash'
  PROVE  Good'
<1> USE DEF Good
<1>1. /\ tmp' \in Inodes
      /\ Goes(w, "flush", job[w].kind, tmp')
      /\ data' = [data EXCEPT ![tmp'] = Empty]
      /\ Page(w) => job'[w].text.opt = mem.opt
  BY OpenGoes
<1>2. \A v \in Threads : ~Saving(v)
  BY DEF OpenTmp
<1>3. \A v \in Threads : Saving(v)' => v = w
  BY <1>1, <1>2 DEF Saving, Goes
<1>4. job[w].pc = "open" /\ UNCHANGED <<mem, conf, mpc, ncfg, g_reload_cfg>>
  BY DEF OpenTmp
<1>5. OneSaver'
  BY <1>3 DEF OneSaver
<1>6. NoUserReload'
  BY <1>1, <1>4 DEF NoUserReload, Reloading, Goes
<1>7. AllSound'
  <2>1. data'[tmp'] = Empty
    BY <1>1, TypedFacts
  <2>2. Sound(w)'
    BY <1>1, <2>1 DEF Sound, Goes
  <2> QED
    BY <1>3, <2>2 DEF AllSound
<1>8. UserUpToDate'
  BY <1>1, <1>3, <1>4 DEF UserUpToDate, UpToDate, Goes, Page
<1>9. Whole'
  BY <1>1, <1>2, <1>4 DEF Whole, Saving
<1>10. Settled'
  BY <1>1 DEF Settled, AllIdle, Goes, Idle
<1> QED
  BY <1>5, <1>6, <1>7, <1>8, <1>9, <1>10

(* The thread that is Saving is the only one: what holds of it holds.      *)
LEMMA SaverGood ==
  ASSUME Typed, Good, NEW w \in Threads, Saving(w),
         NEW pc \in {"reopen", "verify", "truncate", "copy", "write", "remove"},
         NEW file \in Inodes \cup {None}, Goes(w, pc, job[w].kind, file),
         UNCHANGED <<mem, mpc, ncfg, g_reload_cfg>>, Sound(w)',
         job[w].kind = "user" /\ Alone(w) => UpToDate(w)',
         conf' \in Config \/ pc \in {"copy", "write"}
  PROVE  Good'
<1> USE DEF Good
<1>1. \A v \in Threads : Saving(v)' => v = w
  BY DEF OneSaver, Saving, Goes
<1>2. OneSaver'
  BY <1>1 DEF OneSaver
<1>3. NoUserReload'
  BY DEF NoUserReload, Reloading, Goes
<1>4. AllSound'
  BY <1>1 DEF AllSound
<1>5. UserUpToDate'
  <2>1. Alone(w)' => Alone(w)
    BY DEF Alone, Goes, Idle
  <2> QED
    BY <1>1, <2>1 DEF UserUpToDate, Goes
<1>6. Whole'
  BY DEF Whole, Goes
<1>7. Settled'
  BY DEF Settled, AllIdle, Goes, Idle
<1> QED
  BY <1>2, <1>3, <1>4, <1>5, <1>6, <1>7

LEMMA FlushGood ==
  ASSUME Typed, Good, NEW w \in Threads, FlushTmp(w)
  PROVE  Good'
<1> DEFINE pc == IF Page(w) THEN "reopen" ELSE "verify"
           text == IF Page(w) THEN [opt |-> job[w].text.opt, accs |-> mem.accs]
                   ELSE job[w].text
<1>1. Goes(w, pc, job[w].kind, None)
  BY FlushGoes
<1>2. Saving(w) /\ job[w].pc = "flush" /\ UNCHANGED <<mem, conf, tmp, mpc, ncfg, g_reload_cfg>>
  BY DEF FlushTmp, Saving
<1>3. /\ data[job[w].file] = Empty /\ tmp = job[w].file
      /\ job[w].file \in Inodes /\ job[w].text \in Config
  BY <1>2, TypedFacts DEF Good, AllSound, Sound, JobOK
<1>4. data' = [data EXCEPT ![tmp] = text]
  BY <1>3 DEF FlushTmp, Written
<1>5. data'[tmp] = text /\ text \in Config
  BY <1>3, <1>4, TypedFacts DEF Config
<1>6. Sound(w)'
  BY <1>1, <1>2, <1>3, <1>5, TypedFacts DEF Sound, Goes
<1>7. ASSUME job[w].kind = "user", Alone(w)
      PROVE  UpToDate(w)'
  <2>1. Page(w) /\ job[w].text.opt = mem.opt
    BY <1>2, <1>7 DEF Good, UserUpToDate, UpToDate, Page
  <2>2. text = mem
    BY <2>1, TypedFacts DEF Config
  <2> QED
    BY <1>1, <1>2, <1>5, <2>1, <2>2 DEF UpToDate, Goes
<1>8. conf' \in Config
  <2>1. \A v \in Threads : job[v].pc \notin {"copy", "write"}
    BY <1>2 DEF Good, OneSaver, Saving
  <2> QED
    BY <1>2, <2>1 DEF Good, Whole
<1> QED
  BY <1>1, <1>2, <1>6, <1>7, <1>8, SaverGood

LEMMA ReopenGood ==
  ASSUME Typed, Good, NEW w \in Threads, Reopen(w)
  PROVE  Good'
<1>1. Goes(w, "truncate", job[w].kind, tmp)
  BY ReopenGoes
<1>2. /\ Saving(w) /\ job[w].pc = "reopen" /\ tmp # None
      /\ UNCHANGED <<mem, conf, tmp, data, mpc, ncfg, g_reload_cfg>>
  BY DEF Reopen, Saving
<1>3. data[tmp] \in Config
  BY <1>2 DEF Good, AllSound, Sound
<1>4. Sound(w)'
  BY <1>1, <1>2, <1>3 DEF Sound, Goes
<1>5. job[w].kind = "user" /\ Alone(w) => UpToDate(w)'
  BY <1>1, <1>2 DEF Good, UserUpToDate, UpToDate, Goes
<1>6. \A v \in Threads : job[v].pc \notin {"copy", "write"}
  BY <1>2 DEF Good, OneSaver, Saving
<1>7. conf' \in Config /\ tmp \in Inodes \cup {None}
  BY <1>2, <1>6, TypedFacts DEF Good, Whole
<1> QED
  BY <1>1, <1>2, <1>4, <1>5, <1>7, SaverGood

LEMMA VerifyGood ==
  ASSUME Typed, Good, NEW w \in Threads, Verify(w)
  PROVE  Good'
<1>1. Goes(w, "truncate", job[w].kind, job[w].file)
  BY MoveGoes DEF Verify
<1>2. /\ Saving(w) /\ job[w].pc = "verify" /\ job[w].kind = "file"
      /\ UNCHANGED <<mem, conf, data, mpc, ncfg, g_reload_cfg>>
  BY TypedFacts DEF Verify, Saving, JobOK
<1>3. Sound(w)'
  BY <1>1, <1>2 DEF Sound, Goes, Page
<1>4. \A v \in Threads : job[v].pc \notin {"copy", "write"}
  BY <1>2 DEF Good, OneSaver, Saving
<1>5. conf' \in Config /\ job[w].file \in Inodes \cup {None}
  BY <1>2, <1>4, TypedFacts DEF Good, Whole, Job
<1> QED
  BY <1>1, <1>2, <1>3, <1>5, SaverGood

LEMMA TruncateGood ==
  ASSUME Typed, Good, NEW w \in Threads, Truncate(w)
  PROVE  Good'
<1> DEFINE pc == IF Page(w) THEN "copy" ELSE "write"
<1>1. Goes(w, pc, job[w].kind, job[w].file)
  BY MoveGoes DEF Truncate
<1>2. /\ Saving(w) /\ job[w].pc = "truncate" /\ conf' = Empty
      /\ UNCHANGED <<mem, tmp, data, mpc, ncfg, g_reload_cfg>>
  BY DEF Truncate, Saving
<1>3. Sound(w)'
  BY <1>1, <1>2 DEF Good, AllSound, Sound, Goes, Page
<1>4. job[w].kind = "user" /\ Alone(w) => UpToDate(w)'
  BY <1>1, <1>2 DEF Good, UserUpToDate, UpToDate, Goes
<1>5. job[w].file \in Inodes \cup {None}
  BY TypedFacts DEF Job
<1> QED
  BY <1>1, <1>2, <1>3, <1>4, <1>5, SaverGood

LEMMA CopyGood ==
  ASSUME Typed, Good, NEW w \in Threads, Copy(w)
  PROVE  Good'
<1>1. Goes(w, "remove", job[w].kind, None)
  BY CopyGoes
<1>2. /\ Saving(w) /\ job[w].pc = "copy"
      /\ UNCHANGED <<mem, tmp, data, mpc, ncfg, g_reload_cfg>>
  BY DEF Copy, Saving
<1>3. conf = Empty /\ Page(w) /\ data[job[w].file] \in Config
  BY <1>2, TypedFacts DEF Good, AllSound, Sound, JobOK
<1>4. conf' = data[job[w].file]
  BY <1>3, TypedFacts DEF Copy, Written
<1>5. Sound(w)'
  BY <1>1 DEF Sound, Goes
<1>6. job[w].kind = "user" /\ Alone(w) => UpToDate(w)'
  BY <1>1, <1>2, <1>4 DEF Good, UserUpToDate, UpToDate, Goes
<1> QED
  BY <1>1, <1>2, <1>3, <1>4, <1>5, <1>6, SaverGood

(* The last step of the only saver.  If it has asked for a reload, the     *)
(* rest is for main(); if not, it was a user page and memory is on disk.   *)
LEMMA EndGood ==
  ASSUME Typed, Good, NEW w \in Threads, Saving(w), Ends(w), conf' \in Config,
         UNCHANGED <<mem, mpc, ncfg>>,
         \/ g_reload_cfg'
         \/ job[w].kind = "user" /\ (Alone(w) => conf' = mem)
  PROVE  Good'
<1> USE DEF Good
<1>1. Goes(w, "idle", "none", None)
  BY EndsGoes
<1>2. \A v \in Threads : ~Saving(v)'
  BY <1>1 DEF OneSaver, Saving, Goes
<1>3. OneSaver' /\ AllSound' /\ UserUpToDate'
  BY <1>2 DEF OneSaver, AllSound, UserUpToDate
<1>4. NoUserReload'
  BY <1>1 DEF NoUserReload, Reloading, Goes
<1>5. Whole'
  BY DEF Whole
<1>6. Settled'
  <2>1. AllIdle' => Alone(w)
    BY <1>1 DEF AllIdle, Alone, Goes, Idle
  <2>2. job[w].kind = "user" => mpc = "poll"
    BY DEF NoUserReload, Reloading
  <2> QED
    BY <2>1, <2>2 DEF Settled
<1> QED
  BY <1>3, <1>4, <1>5, <1>6

LEMMA SaveFailsGood ==
  ASSUME Typed, Good, NEW w \in Threads, SaveFails(w)
  PROVE  FALSE
<1>1. Saving(w) /\ job[w].pc \in {"reopen", "verify"} /\ tmp = None
  BY DEF SaveFails, Saving
<1>2. Sound(w)
  BY <1>1 DEF Good, AllSound
<1> QED
  BY <1>1, <1>2, TypedFacts DEF Sound

LEMMA RemoveGood ==
  ASSUME Typed, Good, NEW w \in Threads, RemoveTmp(w)
  PROVE  Good'
<1>1. Saving(w) /\ job[w].pc = "remove" /\ Ends(w) /\ UNCHANGED <<mem, conf, mpc, ncfg>>
  BY DEF RemoveTmp, Saving
<1>2. job[w].kind \in {"form", "user"}
  BY <1>1, TypedFacts DEF JobOK, Page
<1>3. job[w].kind = "user" /\ Alone(w) => conf = mem
  BY <1>1 DEF Good, UserUpToDate, UpToDate
<1>4. job[w].kind = "form" => g_reload_cfg'
  BY DEF RemoveTmp, AskReload
<1>5. \A v \in Threads : job[v].pc \notin {"copy", "write"}
  BY <1>1 DEF Good, OneSaver, Saving
<1>6. conf' \in Config
  BY <1>1, <1>5 DEF Good, Whole
<1> QED
  BY <1>1, <1>2, <1>3, <1>4, <1>6, EndGood

LEMMA WriteGood ==
  ASSUME Typed, Good, NEW w \in Threads, WriteConf(w)
  PROVE  Good'
<1>1. /\ Saving(w) /\ job[w].pc = "write" /\ Ends(w) /\ g_reload_cfg'
      /\ UNCHANGED <<mem, mpc, ncfg>>
  BY DEF WriteConf, Saving, AskReload
<1>2. conf = Empty /\ job[w].text \in Config
  BY <1>1, TypedFacts DEF Good, AllSound, Sound, JobOK
<1>3. conf' \in Config
  BY <1>2 DEF WriteConf, Written
<1> QED
  BY <1>1, <1>3, EndGood

(* main(): without a clash it reads a whole file once the threads rest.    *)
LEMMA ReloadGood ==
  ASSUME Typed, Good, ReloadPage \/ ReloadStart \/ ReloadLoad \/ ReloadSwap, ~clash'
  PROVE  Good'
<1> USE DEF Good
<1>1. UNCHANGED <<conf, tmp, data, job>>
  BY DEF ReloadPage, ReloadStart, ReloadLoad, ReloadSwap
<1>2. OneSaver' /\ AllSound' /\ Whole'
  BY <1>1 DEF OneSaver, AllSound, Whole, Saving, Sound, Page
<1>3. NoUserReload'
  BY <1>1 DEF NoUserReload, Reloading, UserPages, ReloadPage, ReloadStart, ReloadLoad,
              ReloadSwap
<1>4. UserUpToDate'
  <2>1. ReloadSwap => \A w \in Threads : job[w].kind # "user"
    BY DEF ReloadSwap, NoUserReload, Reloading
  <2>2. ~ReloadSwap => mem' = mem
    BY DEF ReloadPage, ReloadStart, ReloadLoad
  <2> QED
    BY <1>1, <2>1, <2>2 DEF UserUpToDate, UpToDate, Alone, Saving, Idle
<1>5. Settled'
  <2>1. CASE ReloadPage
    BY <2>1 DEF ReloadPage, AskReload, Settled
  <2>2. CASE ReloadStart
    <3>1. AllIdle => conf \in Config
      BY DEF Whole, AllIdle, Idle
    <3> QED
      BY <1>1, <2>2, <3>1 DEF ReloadStart, Settled, AllIdle, Idle
  <2>3. CASE ReloadLoad
    <3>1. AllIdle => conf \in Config
      BY DEF Whole, AllIdle, Idle
    <3>2. AllIdle => ncfg' = AsRead[conf]
      BY <2>3, <3>1, TypedFacts DEF ReloadLoad, Loads
    <3> QED
      BY <1>1, <2>3, <3>1, <3>2, TypedFacts DEF ReloadLoad, Settled, AllIdle, Idle
  <2>4. CASE ReloadSwap
    BY <1>1, <2>4 DEF ReloadSwap, Settled, AllIdle, Idle
  <2> QED
    BY <2>1, <2>2, <2>3, <2>4
<1> QED
  BY <1>2, <1>3, <1>4, <1>5

LEMMA RestStep ==
  ASSUME Typed, Rest, [Next]_vars
  PROVE  Rest'
<1> SUFFICES ASSUME ~clash'
             PROVE  Good'
  BY DEF Rest
<1>1. ~clash
  BY DEF Next, PageStep, vars, FormChange, UserChange, FileSave, Begin, OpenTmp, FlushTmp,
         Reopen, Verify, SaveFails, Truncate, Copy, RemoveTmp, WriteConf, ReloadPage,
         ReloadStart, ReloadLoad, ReloadSwap
<1>2. Good
  BY <1>1 DEF Rest
<1>3. ASSUME NEW w \in Threads, FormChange(w) \/ UserChange(w) \/ FileSave(w)
      PROVE  Good'
  BY <1>2, <1>3, BeginGood DEF FormChange, UserChange, FileSave, Text
<1>4. ASSUME NEW w \in Threads, PageStep(w)
      PROVE  Good'
  BY <1>2, <1>3, <1>4, OpenGood, FlushGood, ReopenGood, VerifyGood, SaveFailsGood,
     TruncateGood, CopyGood, RemoveGood, WriteGood DEF PageStep
<1>5. CASE UNCHANGED vars
  BY <1>2, <1>5 DEF vars, Good, OneSaver, NoUserReload, AllSound, UserUpToDate, Whole,
                    Settled, Saving, Sound, UpToDate, Alone, AllIdle, Idle, Page, Reloading
<1> QED
  BY <1>2, <1>4, <1>5, ReloadGood DEF Next

(* Whenever nobody is at work the file loads as a save of memory would,    *)
(* whatever the loader cuts or clamps, unless two saves met or a user page *)
(* met a reload: the form and the editor may meet as many reloads as there *)
(* are.                                                                    *)
THEOREM RestCorrect == Spec => []RestMatches
<1>1. Init => Rest
  BY ConfigStoreAssumption DEF Init, NoJob, Rest, Good, OneSaver, NoUserReload, AllSound,
        UserUpToDate, Whole, Settled, Saving, Reloading
<1>2. Rest => RestMatches
  BY DEF Rest, Good, Settled, RestMatches, AtRest, AllIdle
<1> QED
  BY <1>1, <1>2, InitTyped, TypedStep, RestStep, PTL DEF Spec
=============================================================================
