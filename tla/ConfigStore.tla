---------------------------- MODULE ConfigStore ----------------------------
(***************************************************************************)
(* The configuration in memory (g_cfg) and in its file, and everybody who  *)
(* changes them: the config form and the user pages, which change memory   *)
(* and write it out with cfg_save, the file editor, which writes the file  *)
(* and leaves memory to the reload, and main(), which reloads when         *)
(* g_reload_cfg is set.  No lock covers the files: every save goes through *)
(* the same temporary file, and the configuration file is truncated before *)
(* it is filled.                                                           *)
(*                                                                         *)
(* The text of a file is the settings and the accounts written in it.      *)
(* cfg_load does not give back everything that can be written: it cuts a   *)
(* value at a '#' and clamps a number the pages let through (AsRead).      *)
(* Files are small enough to be read and flushed in one piece; the disk    *)
(* does not fail.  Settings that cfg_reload leaves alone (web port,        *)
(* address, enabled) are not followed.                                     *)
(***************************************************************************)
EXTENDS Naturals

CONSTANTS
  Threads,  \* the web threads that may be saving at the same time
  Settings, \* the values the reloadable settings may be given
  Default,  \* the settings of a file that has none
  Users,    \* the accounts, each with the values it may be given
  AsRead,   \* what cfg_load makes of a written configuration
  Inodes,   \* names for the files that tcmg.conf.tmp is one after the other
  MaxJobs,  \* bound: saves in all
  Empty,    \* the text of a file just truncated
  Mixed,    \* the remains of two writers that did not know of each other
  None

Config == [opt : Settings, accs : SUBSET Users]

ASSUME ConfigStoreAssumption ==
  /\ Default \in Settings
  /\ AsRead \in [Config -> Config]
  /\ \A c \in Config : AsRead[AsRead[c]] = AsRead[c]
  /\ None \notin Inodes
  /\ Empty # Mixed /\ {Empty, Mixed} \cap Config = {}
  /\ MaxJobs \in Nat

Text == Config \cup {Empty, Mixed}

NoJob == [pc |-> "idle", kind |-> "none", text |-> Empty, file |-> None]

VARIABLES
  mem,    \* g_cfg
  conf,   \* the text of config_file
  tmp,    \* the file now called config_file.tmp, or None
  data,   \* the text of each file that has or had that name
  job,    \* per web thread: what it saves, how far it is, its open file
  mpc,    \* main(): polling the flag, loading or swapping
  ncfg,   \* what cfg_reload has loaded
  g_reload_cfg,
  due,    \* history: a reload was asked for and nothing has been read since
  clash,  \* history: a save met another save, or a user page met a reload
  jobs    \* the saves begun

vars == <<mem, conf, tmp, data, job, mpc, ncfg, g_reload_cfg, due, clash, jobs>>

Init ==
  /\ conf \in Config
  /\ mem = AsRead[conf]
  /\ tmp = None
  /\ data = [f \in Inodes |-> Empty]
  /\ job = [w \in Threads |-> NoJob]
  /\ mpc = "poll"
  /\ ncfg = mem
  /\ g_reload_cfg = FALSE
  /\ due = FALSE
  /\ clash = FALSE
  /\ jobs = 0

-----------------------------------------------------------------------------
Idle(w) == job[w].pc = "idle"
Reloading == mpc # "poll"
Saving(w) == job[w].pc \notin {"idle", "open"}
UserPages == {w \in Threads : job[w].kind = "user"}
Opened == {job[w].file : w \in Threads} \cup {tmp}
Page(w) == job[w].kind \in {"form", "user"}

(* cfg_load never fails on an existing file: no settings are the defaults, *)
(* and of a mixed text anything may be left.                               *)
Loads(text) ==
  IF text = Mixed THEN {AsRead[c] : c \in Config}
  ELSE IF text = Empty THEN {[opt |-> Default, accs |-> {}]}
  ELSE {AsRead[text]}

(* A write that starts at the beginning of a file: over what another has   *)
(* written meanwhile, the longer text shows through.                       *)
Written(old, text) == IF old = Empty THEN {text} ELSE {text, Mixed}

Becomes(w, j) == job' = [job EXCEPT ![w] = j]
Move(w, pc) == Becomes(w, [job[w] EXCEPT !.pc = pc])
Ends(w) == Becomes(w, NoJob)

Begin(w, kind, text) ==
  /\ Idle(w)
  /\ jobs < MaxJobs
  /\ jobs' = jobs + 1
  /\ Becomes(w, [pc |-> "open", kind |-> kind, text |-> text, file |-> None])
  /\ clash' = (clash \/ (kind = "user" /\ Reloading))

(* handle_api_config_save under acc_lock.                                  *)
FormChange(w) ==
  /\ Begin(w, "form", Empty)
  /\ \E o \in Settings : mem' = [mem EXCEPT !.opt = o]
  /\ UNCHANGED <<conf, tmp, data, mpc, ncfg, g_reload_cfg, due>>

(* handle_user_add, handle_user_delete, handle_user_toggle and             *)
(* handle_user_save under acc_lock: one account more, less or changed.     *)
UserChange(w) ==
  /\ Begin(w, "user", Empty)
  /\ \E before, after \in Users \cup {None} :
       mem' = [mem EXCEPT !.accs = (@ \ {before}) \cup ({after} \ {None})]
  /\ UNCHANGED <<conf, tmp, data, mpc, ncfg, g_reload_cfg, due>>

(* handle_api_file_save with a posted configuration.                       *)
FileSave(w) ==
  /\ \E text \in Config : Begin(w, "file", text)
  /\ UNCHANGED <<mem, conf, tmp, data, mpc, ncfg, g_reload_cfg, due>>

(* fopen(tmppath, "w"): an existing file is truncated, whoever has it      *)
(* open.  cfg_save prints the settings at once, without acc_lock.          *)
OpenTmp(w) ==
  /\ job[w].pc = "open"
  /\ \E f \in Inodes :
       /\ IF tmp = None THEN f \notin Opened ELSE f = tmp
       /\ tmp' = f
       /\ data' = [data EXCEPT ![f] = Empty]
       /\ Becomes(w, [pc |-> "flush", kind |-> job[w].kind, file |-> f,
                      text |-> IF Page(w) THEN [opt |-> mem.opt, accs |-> {}]
                               ELSE job[w].text])
  /\ clash' = (clash \/ \E v \in Threads : Saving(v))
  /\ UNCHANGED <<mem, conf, mpc, ncfg, g_reload_cfg, due, jobs>>

(* The accounts under acc_lock, and fclose.                                *)
FlushTmp(w) ==
  LET text == IF Page(w) THEN [opt |-> job[w].text.opt, accs |-> mem.accs]
              ELSE job[w].text
  IN  /\ job[w].pc = "flush"
      /\ \E t \in Written(data[job[w].file], text) :
           data' = [data EXCEPT ![job[w].file] = t]
      /\ Becomes(w, [pc |-> IF Page(w) THEN "reopen" ELSE "verify",
                     kind |-> job[w].kind, file |-> None,
                     text |-> IF Page(w) THEN Empty ELSE text])
      /\ UNCHANGED <<mem, conf, tmp, mpc, ncfg, g_reload_cfg, due, clash, jobs>>

(* cfg_save opens the temporary file again; when another save has removed  *)
(* it the page answers with an error.                                      *)
Reopen(w) ==
  /\ job[w].pc = "reopen"
  /\ tmp # None
  /\ Becomes(w, [job[w] EXCEPT !.pc = "truncate", !.file = tmp])
  /\ UNCHANGED <<mem, conf, tmp, data, mpc, ncfg, g_reload_cfg, due, clash,
                 jobs>>

VerifyKeepsTmp(w) ==
  /\ job[w].pc = "verify"
  /\ tmp # None
  /\ Move(w, "truncate")
  /\ UNCHANGED <<mem, conf, tmp, data, mpc, ncfg, g_reload_cfg, due, clash,
                 jobs>>

(* The editor loads the temporary file, to see that it can be, and removes *)
(* it.                                                                     *)
Verify(w) ==
  /\ job[w].pc = "verify"
  /\ tmp # None
  /\ tmp' = None
  /\ Move(w, "truncate")
  /\ UNCHANGED <<mem, conf, data, mpc, ncfg, g_reload_cfg, due, clash, jobs>>

(* In both cases: the temporary file is gone, nothing is saved.            *)
SaveFails(w) ==
  /\ job[w].pc \in {"reopen", "verify"}
  /\ tmp = None
  /\ Ends(w)
  /\ UNCHANGED <<mem, conf, tmp, data, mpc, ncfg, g_reload_cfg, due, clash,
                 jobs>>

(* fopen(config_file, "w").                                                *)
Truncate(w) ==
  /\ job[w].pc = "truncate"
  /\ conf' = Empty
  /\ Move(w, IF Page(w) THEN "copy" ELSE "write")
  /\ UNCHANGED <<mem, tmp, data, mpc, ncfg, g_reload_cfg, due, clash, jobs>>

(* cfg_save copies the temporary file, as it is by now.                    *)
Copy(w) ==
  /\ job[w].pc = "copy"
  /\ conf' \in IF data[job[w].file] = Empty THEN {conf}
               ELSE Written(conf, data[job[w].file])
  /\ Becomes(w, [job[w] EXCEPT !.pc = "remove", !.file = None])
  /\ UNCHANGED <<mem, tmp, data, mpc, ncfg, g_reload_cfg, due, clash, jobs>>

AskReload == g_reload_cfg' = TRUE /\ due' = TRUE

RemoveTmpQuietly(w) ==
  /\ job[w].pc = "remove"
  /\ tmp' = None
  /\ Ends(w)
  /\ UNCHANGED <<mem, conf, data, mpc, ncfg, g_reload_cfg, due, clash, jobs>>

(* cfg_save removes the temporary file; the form asks for a reload.        *)
RemoveTmp(w) ==
  /\ job[w].pc = "remove"
  /\ tmp' = None
  /\ IF job[w].kind = "form" THEN AskReload ELSE UNCHANGED <<g_reload_cfg, due>>
  /\ Ends(w)
  /\ UNCHANGED <<mem, conf, data, mpc, ncfg, clash, jobs>>

(* The editor writes the file and asks for a reload.                       *)
WriteConf(w) ==
  /\ job[w].pc = "write"
  /\ conf' \in Written(conf, job[w].text)
  /\ AskReload
  /\ Ends(w)
  /\ UNCHANGED <<mem, tmp, data, mpc, ncfg, clash, jobs>>

(* handle_api_reload.                                                      *)
ReloadPage ==
  /\ ~g_reload_cfg
  /\ AskReload
  /\ UNCHANGED <<mem, conf, tmp, data, job, mpc, ncfg, clash, jobs>>

(* The main loop clears the flag before cfg_reload reads the file.         *)
ReloadStart ==
  /\ mpc = "poll"
  /\ g_reload_cfg
  /\ g_reload_cfg' = FALSE
  /\ mpc' = "load"
  /\ clash' = (clash \/ UserPages # {})
  /\ UNCHANGED <<mem, conf, tmp, data, job, ncfg, due, jobs>>

(* cfg_load into ncfg, without a lock.                                     *)
ReloadLoad ==
  /\ mpc = "load"
  /\ ncfg' \in Loads(conf)
  /\ due' = FALSE
  /\ mpc' = "swap"
  /\ UNCHANGED <<mem, conf, tmp, data, job, g_reload_cfg, clash, jobs>>

ReloadSwapThenClear ==
  /\ mpc = "swap"
  /\ mem' = ncfg
  /\ mpc' = "poll"
  /\ g_reload_cfg' = FALSE
  /\ UNCHANGED <<conf, tmp, data, job, ncfg, due, clash, jobs>>

(* The exchange under acc_lock.                                            *)
ReloadSwap ==
  /\ mpc = "swap"
  /\ mem' = ncfg
  /\ mpc' = "poll"
  /\ UNCHANGED <<conf, tmp, data, job, ncfg, g_reload_cfg, due, clash, jobs>>

PageStep(w) ==
  \/ FormChange(w)
  \/ UserChange(w)
  \/ FileSave(w)
  \/ OpenTmp(w)
  \/ FlushTmp(w)
  \/ Reopen(w)
  \/ Verify(w)
  \/ SaveFails(w)
  \/ Truncate(w)
  \/ Copy(w)
  \/ RemoveTmp(w)
  \/ WriteConf(w)

Next ==
  \/ \E w \in Threads : PageStep(w)
  \/ ReloadPage
  \/ ReloadStart
  \/ ReloadLoad
  \/ ReloadSwap

Spec == Init /\ [][Next]_vars

-----------------------------------------------------------------------------
Job == [pc : {"idle", "open", "flush", "reopen", "verify",
              "truncate", "copy", "write", "remove"},
        kind : {"form", "user", "file", "none"},
        text : Text,
        file : Inodes \cup {None}]

TypeOK ==
  /\ mem \in Config
  /\ conf \in Text
  /\ tmp \in Inodes \cup {None}
  /\ data \in [Inodes -> Text]
  /\ job \in [Threads -> Job]
  /\ mpc \in {"poll", "load", "swap"}
  /\ ncfg \in Config
  /\ g_reload_cfg \in BOOLEAN
  /\ due \in BOOLEAN
  /\ clash \in BOOLEAN
  /\ jobs \in 0..MaxJobs

AtRest ==
  /\ \A w \in Threads : Idle(w)
  /\ mpc = "poll"
  /\ ~g_reload_cfg

(* Once nobody saves or reloads, a restart would load from the file what   *)
(* it would load from a save of the running configuration, also when the   *)
(* form or the editor saved in the middle of a reload that read half a     *)
(* file: both ask for a reload after their last write.  Only two saves at  *)
(* once, or a user page (which asks for none) during a reload can leave    *)
(* the two apart.                                                          *)
RestMatches ==
  AtRest /\ ~clash => conf \in Config /\ AsRead[conf] = AsRead[mem]

(* A reload asked for at any moment is made: the flag stays set, or the    *)
(* reload under way has yet to read the file.  main() clears the flag      *)
(* before it reads, so a request during a reload causes another one.       *)
RequestKept == due => g_reload_cfg \/ mpc = "load"

(* However saves interleave, no temporary file outlives the last of them:  *)
(* a save that finds it gone gives up, all others remove it.               *)
NoTmpLeft == (\A w \in Threads : Idle(w)) => tmp = None
=============================================================================
