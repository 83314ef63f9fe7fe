# TLA+ model of tcmg

tcmg is a card-sharing server in C: clients connect over newcamd (or mgcamd) or
CCcam, log in to an account, and ask for the control word (CW) that belongs to
an encrypted message (ECM); an emulator computes it from the account's keys. A
web interface shows and changes the running server. The whole server is one
process of POSIX threads that share a handful of global tables, and this is what
the modules here are about: what those threads may do to each other. Paths below
are relative to the repository.

## 1. Inventory

| Part | State | Operations | Other parts it touches |
|---|---|---|---|
| Listeners (`src/proto/newcamd.c`, `cccam.c`) | listening socket, running flag, thread, one set per protocol | start, accept loop, stop | `g_active_conns`, one handler thread per connection |
| Client registry (`src/client/client.c`) | `g_clients[256]` of pointers into the handlers' stacks, `kill_flag` of each | register, unregister, kill by tid, kill by user | web pages kill, `cfg_reload` relinks |
| Handlers (`handle_newcamd_client`, `handle_cccam_client`) | `S_CLIENT` on the stack: user, account pointer, last ECM | login, ECM, keep-alive, cleanup | accounts, fail-ban, CW cache, emulator, log |
| Accounts (`src/config/config.c`, `webif/api/users.c`) | linked list `g_cfg.accounts` under `acc_lock`, per account the counter `active` and statistics | find, toggle, save, add, delete, reload | every handler keeps pointers into the list |
| Fail-ban (`src/security/failban.c`) | hash table of address, failures, end of ban | check, record failure, record success, prune, clear by page | newcamd, CCcam and web logins |
| CW cache (`src/cache/cw_cache.c`) | 512 slots, 16 mutexes | lookup, store | the ECM handlers of both protocols |
| Emulator (`src/emu/emu.c`) | none | compute a CW from the account's keys, or a fake one | account |
| Logger (`src/log/log.c`) | queue of 8192 lines, writer thread, ring of 4000 lines, files | emit, drain, poll, flush, shutdown, switch files | every thread |
| main (`src/main.c`) | `g_running`, `g_reload_cfg`, `g_restart` | start, reload loop, stop, drain, free | everything |
| Web server (`webif/server.c`, `core.c`) | socket, running flag, accepting thread, a semaphore of 16 places for detached threads, 64 sessions under a mutex | start, accept, serve in a thread or inline, stop; login, logout, pages | every table above; its pages stop and restart `main` |
| Configuration file (`src/config/config.c`, `webif/api/config.c`) | `tcmg.conf`, `tcmg.conf.tmp`, the reload flag | load, save by form, user pages and editor, reload | accounts, `main` |
| Channel names (`src/srvid/srvid.c`) | hash table | load, look up, free | handlers, reload |
| Android bridge (`android/app/src/main/jni/tcmg_jni_bridge.c`, `TcmgService.java`) | `g_server_running`, start time; the globals survive from one run of `main` to the next | start, stop, status, poll the log | runs `main` in a thread of the app |
| Network, cryptography, HTML, app screens, build | none shared | | |

What makes the system hard:

* **Detached handler threads.** Nobody joins them. main() learns that they have
  gone only through `g_active_conns`, then frees what they use.
* **Pointers that outlive their lock.** A login finds its account under the read
  lock and uses it after; a reload or a deletion replaces or frees it meanwhile.
* **Steps that are apart.** Check and record (fail-ban), add and compare
  (admission), copy and swap (reload), look up and store (cache), clear the flag
  and signal (log).
* **Flags polled from a loop.** Stop, kill and reload are requests that have to
  be noticed.
* **Bounded tables.** Client table, cache slots, log queue, log ring, web
  sessions, web threads.

The properties that make each part correct: the counter is exact and the limit
holds; who is registered can be killed and nothing dangles; a stop ends, and
frees after the last user; an account's limit is what the configuration says; a
reload leaves every client with its own live account or told to end; wrong
logins are bounded and bans end; a word belongs to its ECM, is fresh and is fake
only for whom it should be; a line that was accepted is shown once and in order,
goes to no file older than it should, and a poller never takes a line for
another one; what a file says at rest reads as memory does;
there is one server at a time, a stop ends it in any phase, and when memory is
freed nobody accepts connections any more; a channel name is the one the loaded
text gives its key, and a table is freed once and not in use.

`PROJECT.json` lists the hazards at their lines, with the properties that cover
them; those without one say why.

## 2. Modules

| Module | Models | Proofs |
|---|---|---|
| `Connections` | both listeners, handlers as the registry and the counter see them, kill, stop, drain | `ConnectionsProofs` |
| `Accounts` | logins of both protocols, connection limit, ECM's use of the account, user pages, `cfg_reload` | `LoginProofs` |
| `FailBan` | the ban table with time | `LoginProofs` |
| `EcmMemo` | abstract: a table from ECM to the latest word, each younger than the TTL, that may forget | |
| `CwCache` | the sharded, direct-mapped cache and the ECM handlers around it; implements `EcmMemo` | `CwCacheProofs` |
| `WebSessions` | the session table and the requests that look up, create and end sessions | `WebSessionsProofs` |
| `ConfigStore` | everybody who writes the configuration file, and the reload that reads it | `ConfigStoreProofs` |
| `Log` | queue, writer, log file, ring, pollers, flush and shutdown | `LogProofs` |
| `Lifecycle` | the app and the bridge, signals, the phases of `main`, the web server with its pool, stop and restart from a page | `LifecycleProofs` |
| `Srvid` | the table of channel names, its loaders and look-ups | `SrvidProofs` |

An `MC...` module gives the constants of the module of that name their values;
the `.cfg` files beside it are the runs.

### Connections

`st[c]` is the place of connection `c` between `accept()` and the end of its
handler, `via[c]` the listener that accepted it, `seen[c]` what the
`atomic_fetch_add` returned. One action is one step between two points where
other threads can see a difference: `Accept` (accept and add), `Reject`,
`SpawnFails` (no memory or no thread), `Spawn`, `Register`, `Handshake` (the
CCcam login with its early `goto cleanup`; for newcamd the set-up before the
loop), `LoopTop`, `Serve`, `Unregister`, `Finish`. `lpc[l]` is the accept
thread, `srv[l]` its flag and socket as `cccam_stop` and `newcamd_stop` change
them, `mpc` and `waited` are main(). The CCcam listener also watches
`g_running`; the newcamd listener does not. `FreeSlots` and `Register` keep the
silent non-registration of a full table, and `RegistryComplete` shows that it
cannot happen because the table has as many slots as `MAX_CONNS`
(`LimitsAssumption`).

### Accounts

An account object is `<<user, generation>>`: the generation is that of the list
it was allocated for, so a stale pointer is a different value from the pointer
to the new object of the same name. `live` are the objects not freed. Reading
`active` or `enabled` through a pointer outside `live` gives any answer; writing
the counter through one is lost or lands in some live object. Reading through
NULL, which `cc_handle_ecm` may do after a reload that dropped its user, ends
the process (`crashed`). `acc` is the local pointer of the handler, `account`
and `user` are `cl.account` and `cl.user`: newcamd gives its place back through
`cl.account`, which a reload replaces, CCcam through `acc`, which it does not.
`cfg_reload` is load, copy of the counter per account with no lock, the swap,
the walk over the registered clients, free. From the swap to the end of the walk
it holds both locks (`LocksFree`), but a handler reads `cl->account` and
`cl->kill_flag` with neither, so the stores of the walk are steps of their own:
`Relink` gives a client its new account or NULL, `RelinkKill` sets the flag of
the one in `unlinked`, which has the NULL already. Between the two the handler
sees no account and no kill.

The constants `ReloadOn`, `RemoveOn`, `DeleteOn`, `AddOn` and `ReloginOn` say
which disturbances a run allows.

### FailBan

`until[ip]` counts down the seconds of a ban, `Unset` stands for 0 in the code
(no ban), 0 for a time that has passed. `testing[a]` is the address of a thread
between `ban_is_banned` and what it records. The three login paths (newcamd,
CCcam, the web form) have this same shape. A fourth has not: a request with an
`Authorization` header has its password compared in `check_auth`
(`webif/core.c:106-122`, from `webif/server.c:67-70`) with no ban asked for and
none recorded. That is `BasicRefused`, which changes nothing of the table. The
hash buckets are left out: every
operation walks the bucket of its address, the pruning all of them, under one
mutex. The specification is `BanSpec`, and what belongs to it is named `Ban...`,
so that one proof module can hold both halves of a login.

### CwCache and EcmMemo

`owner[m]` is the thread that holds the mutex of a shard, `cache[i]` a slot with
tag, word and age. `Copy` and `StoreWord` are apart from the comparison and the
tag, as in the code, so that what the mutex protects is visible. A word is a
record: the ECM it was made for and whether it is fake. `EmuProcess` says what
the emulator may answer for an account: the fake word, the real one when its
keys open the ECM, or nothing, as for a CCcam session whose account a reload
took. `EcmMemo` has one entry per ECM and may forget
any at any time; a collision in `CwCache` is such a forgetting. The refinement
mapping `Memo` reads the entry of an ECM from its slot, and from the slot being
filled what was there counts as forgotten.

### Log

The queue's indices, which only grow, and the slot that is taken modulo
`WqSize`; `tpc[t]` is a thread inside `emit_line` and `wq_push`, `wpc` the
writer, `mpc` main() from the end of its loop. `Fill` takes `s_wq_mtx` and
`Publish` releases it. The writer takes no mutex while it drains. A condition
variable is a place where a thread is "asleep" until a signal moves it back to
its loop condition. `shown` is all that ever entered the ring, and its length is
`s_ring_total`.

A log file is the number of the call of `log_set_file` that asked for it; 0 is
what the start left. The call (`SetFile`, `SignalFile`) stores the path and
signals the writer; only the writer (`ApplyFile`) opens it, at the start of a
round, and the open may fail. `WriteFile`, part of `WriteLine`, may lose the
file to a failed rotation. `due` remembers for each line in the queue the oldest
file it may go to: the file asked for last, or, when the writer is already in a
round, the one it has.

### WebSessions

`req[r]` is a request in a web thread: which of the three kinds it is, the
cookie it came with, the clock it has read, and the session `request_is_authed`
found. `session_check` and `session_create` read the clock before they wait for
`s_sess_lock`, so `ReadClock` and `Check`, `LoginOk` and `Create` are apart and
time may pass in between. `Scan` is the loop of `session_create` as a recursive
function over the slots, one turn of it is `Look`: the first slot that has
ended, or else the one that ends first. `sent` are the tokens a client can send back; `drawn` keeps tokens
unique, as 16 random bytes do.

### ConfigStore

`mem` is `g_cfg`, `conf` the text of `tcmg.conf`; `tmp` is the file that now has
the name `tcmg.conf.tmp` and `data[f]` the text of each such file, because a
thread may still have open what another has removed. What is written is not what
is read: `cfg_load` cuts a value at a `#` (`config.c:342-343`), trims it, and
clamps numbers that the pages accept (`config.c:60-61`, `users.c:105`, `205`).
The constant `AsRead` is that mapping, any one that changes nothing the second
time, and `Loads` applies it. `cfg_save` is `OpenTmp`
(settings read without the lock), `FlushTmp` (accounts under it), `Reopen`,
`Truncate`, `Copy`, `RemoveTmp`; the editor (`handle_api_file_save`) is
`OpenTmp`, `FlushTmp`, `Verify`, `Truncate`, `WriteConf`. `Written` says what
two writers of one file leave: the later text, or a mixture. `ReloadStart`,
`ReloadLoad` and `ReloadSwap` are main(). The history variables are `due`, a
request for a reload that no reading has answered, and `clash`, the two overlaps
that the code does not guard against: two saves, or a user page and a reload.

### Lifecycle

`spc[t]` is the server thread of start `t`, first in `server_thread_fn`, then in
the phases of `main()`: set-up, `webif_start`, the listeners, the loop,
`webif_stop` up to its join, the join, the listeners' stops, the drain, the
frees, the end. On Android (`platform`) the app's main thread (`apc`) is inside
`startServer` or not, `CreateServerThread` starts `t`, and `ClearStartMs` comes
after `serverRunning` is cleared, so the next start may overlap. Elsewhere the
one "start" is the process: the return of main() ends it with all threads
(`EndImage`), `Exec` gives it a new image.

`hpc` is `http_server_thread` and `conn[c]` a connection: waiting in the socket,
held by the accepting thread, read and served in a thread of its own with a
place (`read`, `serve`, `post`) or inline (`iread`, `iserve`). `Finish` and
`Post` are apart, as closing the socket and `sem_post` are. `InitSemaphore`
records in `old` who held a place before, `late` counts what they gave back
since. `HttpFdSet` reads the socket again after the flag was tested: after
`webif_stop` it is -1. In a build that checks `FD_SET` (`FdSetTraps`) that ends
the process; in others it sets a bit outside the set, on its stack.

`Connections` and `Lifecycle` share the shutdown of main(): the first has the
handlers and the wait for them in detail and starts in the loop, the second has
what comes before and after, and lets the listeners and the drain be one step
each.

### Srvid

`tbl[b]` is a block that `calloc` returned, `said[b]` (history) what the lines
that were read into it said first of each key. A line's text is reduced to the
keys and name it inserts, any of them at any time, because the page may rewrite
the file under a loader. `Probe`, `FreeAt` and `FoundAt` are the walk of
`tbl_insert` and of the look-ups: how far from its home a key may be put or is
found. `Halves` are keys with a CAID or SID that becomes 0 when it is cut to 16
bits; they can be inserted and never be looked up. Loads (`Open`, `ReadKey`,
`Publish`, `FreeOld`, `ReturnCount`) overlap freely. A loader keeps its pointer
`newtbl` past `Publish` and reads the count through it last; by then it owns
nothing (`Private`), and the block may have been freed and allocated again.

## 3. Runs

All runs are exhaustive at their bounds.

| Run | Bounds | Shows |
|---|---|---|
| `MCConnections` | 3 connections, 1 place, 2 slots, 1 round of drain | counter exact, limit respected by racing listeners, registry complete and without dangling entries, memory freed when quiet, a killed client leaves, a stop ends |
| `MCAccounts` | 2 newcamd and 1 CCcam session, 1 user, limit 2, no reload | counter exact, limit respected |
| `MCAccountsReload` | 1 newcamd and 1 CCcam session one after the other, 2 users, 1 reload or addition, no limit | links live and own; a client without an account is killed once the walk has passed it |
| `MCAccountsLimit` | 2 newcamd sessions, limit 1, 1 reload | finding: limit exceeded |
| `MCFailBan` | 2 addresses, 3 threads, ban after 2 failures for 2 ticks, 1 clear, 1 refused header per address | wrong logins bounded, bans end |
| `MCCwCache` | 2 handlers, 3 ECMs (two in one slot), 3 accounts, 2 slots, 2 shards, TTL 2 | right word, implements `EcmMemo` |
| `MCWebSessions` | 2 requests, 4 logins, 3 slots, timeout 2, maximum age 1, clock to 4 | logout final, life bounded, the session that ends first is evicted |
| `MCConfigStore` | 2 web threads, 3 saves, 2 settings of which one is read as the other, 1 user, any number of reloads | the file reads as memory at rest, no reload lost, no temporary file left |
| `MCLog` | 2 threads and main(), 3 + 1 lines, queue of 2, ring of 2, polls of 1, 1 change of the file | order, no loss, the file follows, flush, pollers get the right lines, shutdown |
| `MCLifecycle` | 2 connections, 1 place, 2 starts by the app or any number of restarts, `FD_SET` checked | one server, places exact, nobody accepts at the end, a stop ends, a connection ends |
| `MCLifecycleStop` | the same, `FD_SET` not checked | finding: the stop joins a thread that never was |
| `MCSrvid` | 2 loaders, 3 blocks, 2 slots, 3 keys (two colliding in the last slot, one with a half of 0), 2 names | look-ups exact, one owner per table |

Why the bounds are enough. *Connections*: with one place the second connection
is over the limit, two listeners can both be between adding and comparing, and a
third connection follows what the others left; `DrainMax` 1 gives both ends of
main()'s wait, and the safety properties are proved for any number of
connections and places. *Accounts*: three sessions on a limit of two is the
first refusal; with reloads every session meets one list before and one after
the swap, which is all a session can tell apart, and since sessions share
nothing but the counter (which this run leaves out of its view and does not ask
about) one at a time is enough. *FailBan*: three threads are one more than the
failures needed, so that two can be inside when the ban falls; with two
addresses an entry of one is pruned by an attempt of the other. *CwCache*: a
collision needs two ECMs in a slot, a torn entry two handlers, and the TTL
boundary two ticks. *Log*: four lines in a queue that holds two fill it, drop
one and wrap both rings, and a poll of one line in a ring of two is cut short as
the pages' 200 of 4000 are. *WebSessions*: four logins on three slots force an
eviction, and the two slots that stay tell the idlest from the first; the clock
passes timeout and maximum age. *ConfigStore*: two saves meet at every step of
either, and a third may come after them; one user added or deleted and one of
two settings, of which one comes back from the file as the other, are all a file
has to tell apart. What two saves at once may do to
the contents is left open there and not bounded. The change of the log file
meets every step of the writer and of the threads; a second one only replaces
the path of the first, which is already different from the file that is open.
*Lifecycle*: one place makes the second connection inline; with two starts a
thread of the first run can hold a place across the second `sem_init`, and a
restart on the other platforms begins again without bound. *Srvid*: three keys
in two slots fill the table, wrap round its end and drop a name; each of two
loaders may hold the table the other replaced. The safety properties of the last
two are proved without these bounds.

`MCAccountsReload`, `MCLifecycle` and `MCLifecycleStop` do not look for
deadlocks, because the system really stops there: a read through NULL, a join of
no thread or `FD_SET(-1)` ends the process, and so does the return of main(). In
every other run a state without a step would be an error.

The `VIEW` of `MCAccountsReload` hides the counter `active`, which none of its
properties and, without limits, none of its guards read; writes through freed
pointers would otherwise count without bound. `MCAccounts`, `MCWebSessions`,
`MCConfigStore` and `MCSrvid` use symmetry over sessions, requests and tokens,
threads and files, loaders, blocks and names; no liveness is checked there.

The type invariants of `Accounts`, `FailBan` and `ConfigStore` are proved
(section 5) and have no place in a run.

### Fairness

`Connections`: every listener, handler and main() takes a step when it can; a
`select()` returns after one second, and a `recv()` or `send()` after the
configured timeout, so a handler is never stuck on its peer. Kills and stop
requests are not fair. `FailBan`: time passes, and a thread inside a login comes
out of it. `Log`: writer, main() once it has left its loop, and the threads
inside `wq_push` run on; nobody has to log, to poll or to stop. `Lifecycle`: the
threads of the server, the accepting thread and the requests run on, because
`select()` returns after a second and a silent peer is given up after
`WEB_READ_TIMEOUT_S`; the app finishes a `startServer` it has begun. Nobody has
to press a button, send a signal or connect. A request that asks for a stop is
one of its possible outcomes, never assumed.

### Every property is tested on the model

For each property of a passing run the component's module holds, next to an
action or operator, a variant with a plausible slip (`OverLimitOffByOne`,
`FlushReturnsOneEarly`, ...). The variants are not part of any specification;
putting one in the place of the real definition must break the property.

## 4. What disagrees with the repository's own words

* **`max_connections` after a reload** (`MCAccountsLimit`). `cfg_reload` copies
  `active` with no lock on the list (`config.c:609-625`) and swaps later. A
  login in between counts on the old object only. The default configuration
  calls the option "Max simultaneous logins".
* **A stop with the newcamd listener disabled** (`MCLifecycleStop`).
  `newcamd_start` returns early when its port is 0 or cannot be bound,
  `cccam_stop` and `webif_stop` look whether they were started, `newcamd_stop`
  does not and joins a thread that was never created, or was joined in an
  earlier run on Android. "0 = disabled" is a documented setting of the default
  configuration.

Seen while modelling, without a run of their own:

* `log_ring_since` stops after `max_lines` lines and hands out `s_ring_total` as
  the id to continue from all the same (`log.c:722`, `737`). The bridge says that
  a call drains up to `maxLines` entries from `fromId` and gives "the id the
  caller should pass on the next call" (`tcmg_jni_bridge.c:190-192`): with 200
  lines per poll and a ring of 4000, what came between is in the ring and never
  delivered. `Poll` does the same, and with polls of one line in a ring of two
  `MCLog` reaches it on its second line.
* Every LOGIN of a newcamd connection takes a place of `max_connections`
  (`newcamd.c:160`), the end of the connection gives one back (`newcamd.c:455`):
  after a second LOGIN one place stays taken.
* The CW cache is asked before `fakecw` is looked at (`newcamd.c:322`,
  `emu.c:138`) and keeps fake words like real ones: on a hit the flag decides
  nothing.
* Between `config.c:654` and `655` a client has lost its account and is not yet
  told to end; `cc_handle_ecm` reads through the NULL (`cccam.c:249`), and so do
  the places that test `cl->account` and read it again (`newcamd.c:231-236`,
  `348`, `401-404`, `418-419`, `cccam.c:431`). `Accounts` has one such place per
  protocol, the end of an ECM (`crashed`).
* The web password is also tested in `Authorization` headers, where the fail-ban
  is neither asked nor told (`webif/core.c:106-122`): a banned address may go on
  there, and without bound. `LoginGuessesBounded` is about the logins.
* A value with a `#` is cut, and a number out of range clamped, when the file is
  read and not when it is saved: the change shows with the next reload. And
  when a reload reads the file while a save has it truncated, memory loses all
  accounts; a save after that loses them from the file too. `RestMatches`, which
  compares file and memory, is not against it.
* A CCcam login looks at `enabled` only (`cccam.c:350`), a newcamd login and its
  ECMs also at the IP list, the expiry, the schedule and the lists of CAIDs and
  SIDs (`newcamd.c:123-155`, `263-299`).
* On Android a STOP between `startServer` and the new thread's `g_running = 1`
  is overwritten (`tcmg_jni_bridge.c:92`); `StopEnds` begins after it.
* Two loads of the channel names may publish in either order, and the count that
  `srvid_load` returns is read from a table another load may have freed
  (`srvid.c:123`). The model has the read (`ReturnCount`); `OneOwner` is about
  who frees what, and does not exclude it.

## 5. Proofs

Proved with TLAPS, for all values of the constants that satisfy the named
assumptions of the modules.

`ConnectionsProofs` has one inductive invariant, `IndInv`. `CounterExact` says
what `g_active_conns` is, so the value an `atomic_fetch_add` returned was the
exact number of counted connections at that instant. From this follows
`GrantBounded`: the connections the limit let through, those a listener still
holds and those that have a thread together, never exceed `MaxConns`, however
the two listeners overlap. `RegistryExact` (every registered handler in one
slot, no slot dangling, no handler twice) needs it, because `client_register`
finds a free slot only as long as there are no more handlers than slots.
`ShutdownOrder` says which listeners are joined at each place of main().
Theorems: `TypeCorrect`, `CounterCorrect`, `CapacityCorrect`, `RegistryCorrect`,
`FreeCorrect`, and those at the end of this section. Assumptions: finitely many
connections, `MAX_CONNS` positive and at most `MAX_ACTIVE_CLIENTS`.

`LoginProofs` has four arguments.

*Links.* `RegisteredLinksLive` and `UnlinkedIsKilled` hold for any users,
sessions, limits and numbers of reloads. A handler holds a pointer it read
earlier under the lock, so the invariants say which pointers can dangle:
`LoginInv`, that the pointer inside a login is the listed object unless a swap or
a deletion came in between (`straddled`); `ListInv`, that the list being built
and the one about to be freed have nothing in common with the listed one,
because generations only grow. The property alone is not inductive: between
the swap and the free, the objects of the old list are still live, and the free
would take them from under a link. `LinkInv` asks for more, that links already
keep away from `old`, except for the clients the walk has not reached.
`UnlinkedIsKilled` leaves out one client, the one in `unlinked`: between the two
stores of the walk the code has the state the property denies (section 4).
Theorems: `TypeCorrect`, `LinksCorrect`, `UnlinkedCorrect`.

*The crash.* `NeverCrashes`: no handler reads a NULL that a reload left in
`cl->account` as long as no user disappears: reloads drop nobody, and the pages
neither delete nor add one, since an account added between `cfg_load` and the
swap is dropped like one that is missing from the file. Without that hypothesis
the crash is reached, in the states of `MCAccountsReload`.

*Places.* `ActiveCorrect` and `MaxCorrect`, for any number of sessions of both
protocols and any limits: the counter is the number of sessions that hold a
place (`Holders`), where `Holds` is the pointer through which a session will
give its place back, `acc` or `cl.account` depending on the protocol and on how
far it has come. From the count the limit follows, since `ncd_handle_login` and
the CCcam login compare and add under one lock. The hypotheses are no reload, no
deletion and no second LOGIN of a newcamd client. Each is needed: a reload
forgets a login (`MCAccountsLimit`), a handler gives its place back to freed
memory after a deletion, a second LOGIN keeps a place (section 4).

*Bans.* `LoginGuessesBounded` of `FailBan` is not inductive, an attempt that enters
raises its left side. It enters only when the address has no ban, and `Slack`
bounds the failures of such an address so far that there is room for every
thread. `NoEntry` adds that an address without an entry has no count, no ban and
no clears. Theorems: `BanTypeCorrect`, `LoginGuessesCorrect` and, below,
`BanRunsOutCorrect`.

`CwCacheProofs`: a mutex is held by the one thread that is inside its critical
section (`OwnerInv`), so a valid slot that nobody is filling holds a word made
for its tag (`SlotInv`), and so does every handler for its ECM (`WordInv`). From
this `AnswersFit`, and `CacheImplementsMemo`, one lemma per action: a tag that
matches maps to reading the memo, the start of a store to forgetting what was in
the slot, its end to keeping the new word, a clock tick to a clock tick, the
rest to a stutter. Assumptions: the sizes are positive and the hash is a number.
Any hash, any number of slots and shards will do.

`WebSessionsProofs`: that a logout is final needs every token to be in one place
at a time, in one slot (`OneSlot`) or in the hands of the one request that drew
it (`OnePlace`); a revoked token has been in a slot (`Stored`), so no request
can store it again. `EvictsCorrect` is about the loop of `session_create`:
`LoopExists` shows that its recursive definition has a solution and `ScanChooses`
what it finds, both from the least index at which they would fail (`LeastOf`,
with the library's minimum of a well-founded order), because induction itself
is not available (below). Theorems: `TypeCorrect`, `LogoutCorrect`,
`LifeCorrect`, `EvictsCorrect`.

`ConfigStoreProofs`: `RequestKept` is inductive. `NoTmpLeft` follows from
`TmpOwed`, that whenever the temporary file exists a thread is on the way to
removing it. `RestMatches` needs `Rest`: without a clash there is one saver
(`OneSaver`), it finds in the files what it put there (`AllSound`), a user page
with nobody beside it writes memory as it stands (`UserUpToDate`), the file is
whole unless its writer is about to fill it (`Whole`), and once all are idle the
file reads as memory does, or as what the reload is about to swap in, or another
reload has been asked for (`Settled`). That is for any `AsRead` which changes
nothing the second time (`ConfigStoreAssumption`): what `cfg_load` has cut,
trimmed and clamped comes back unchanged when it is saved and read again, since
nothing is left to cut. The limits of the lists (64 SIDs, 16 addresses) fit the
line buffer of the loader. Theorems: `TypeCorrect`, `RequestCorrect`,
`TmpCorrect`, `RestCorrect`, for any number of threads and saves.

`LifecycleProofs`: that a second start never runs beside the first needs the
exact meaning of `g_server_running` at each place of the bridge (`AliveStep`),
which the app's one main thread keeps. The rest is about the one server thread
that is in a phase of main() (`OnePhase`, `PhaseStep`): before `webif_start` and
after the join there is no accepting thread, and the connections are with it or
with a thread of their own (`ConnsStep`). `PlacesExact` is strengthened by
`PoolExact`: what the accepting thread takes and the threads give back is
accounted to `old` or to the current run. Theorems: `TypeCorrect`,
`OneServerCorrect`, `PlacesCorrect`, `PoolBounded`, `NoAcceptorCorrect`.

`SrvidProofs`: `Whole` says of a block that each key is in one slot, with the
name that was said first, that no slot from its home up to there is empty, and
that a named key in no slot found the table full. `HeldIsFound` (what is in the
table is found by its walk) and `InsertKeepsWhole` are about the walk for any
size and hash; `WalkEnds` finds the first slot at which a walk stops with the
library's minimum of a well-founded order. `OneOwner`, the ownership of blocks
and not every pointer to them, is inductive together with where each loader is. Theorems: `TypeCorrect`, `OwnerCorrect`, `LookupCorrect`.

`LogProofs`: the indices of the queue only grow, and `head` is never more than
`WqSize - 1` ahead of `tail`, so the slots between them are all different
(`ModInj`, about remainders) and each holds the line accepted under its index
(`QueueInv`): the slot that a thread fills under the mutex is none the writer
reads without it. From this `ShownInv`, that the writer shows the next accepted
line, and that the flush ends with nothing left; `FileInv` bounds the entries of
`due` by the file in use; `RingInv` is the same argument for the ring. Theorems:
`TypeCorrect`, `FifoCorrect`, `FileCorrect`, `FlushCorrect` and
`ReaderExactCorrect` (a reader has the right line to each id, for a poll of any
size; that it has every line is false, section 4).

Two theorems of `LogProofs` are the safety side of `OwedIsShown` and
`ShutdownEnds`, for all bounds. `WakeupCorrect`: the writer never sleeps while
there is a line, nor while main() waits for it to empty the queue or to end, so
no signal is missed (`SleepInv` says for each sleeper what must be under way to
wake it). `NothingLeftCorrect`: when the writer has ended, every line accepted
while it ran is shown, also those after main()'s flush, and when `log_shutdown`
has returned no file is open and no change is waiting (`LastRound`, `LastInv`). What is left to TLC is that the threads move.

*Towards the liveness properties.* Fairness is out of the prover's reach, but
what the schedule is needed for is not. In `ConnectionsProofs`, `ForwardCorrect`
counts the steps a thread has left once it was told to end: a killed handler
serves at most one more message, a listener whose flag is cleared accepts at
most one more connection, and no step of another thread sends them, or main() on
its way through the shutdown, back; `HoldsCorrect` says that a listener is never
stuck with nothing in its hands. `DrainCorrect`, that the counter never goes up
once main() drains, follows from the order of the joins. In `LifecycleProofs`,
`JoinAnswered` and `JoinCorrect` say that the thread `webif_stop` joins exists,
always has something to do and comes nearer to its end with every step, because
the closed socket gives it no further connection. In `LoginProofs`,
`BanRunsOutCorrect` bounds the length of a ban: `TimeLeft`, the seconds left plus
`BAN_SECS` for each thread inside, never grows while the ban is in force. With
`WakeupCorrect` and `NothingLeftCorrect` of `LogProofs`, what is left to TLC of
`KilledLeaves`, `ShutdownCompletes`, `ShutdownEnds` and `BanEnds`, and of the
join in `StopEnds`, is chiefly that a thread which can take a step does. These
theorems were checked as invariants and action properties on the runs' instances
before they were proved; they are not properties of the runs, which check the
liveness itself.

Only model-checked: liveness (`KilledLeaves`, `ShutdownCompletes`, `BanEnds`,
`OwedIsShown`, `ShutdownEnds`, `StopEnds`, `ConnectionEnds`), which is out of
this prover's reach together with `ENABLED`. Every invariant and every action
property of the passing runs is a theorem, `ActiveExact` and `MaxRespected`
under the hypotheses named above. Induction over data is out of
reach too, as a theorem with an operator for its parameter; the two loops that
are proved about, the walk of `Srvid` (`WalkEnds`) and `Scan`, go by a least
counterexample instead.

## 6. Not modelled

* Network framing and cryptography: byte and bit arithmetic on local buffers.
* Pages, app screens, build: they change no shared state, or are not the
  program.
* Inside the modelled parts: the syntax of the configuration and of the channel
  file, a disk that fails or a crash while a file is written, the settings a
  reload leaves alone (web port, address, enabled), web logins without
  configured credentials, the usage file (changed and written as the log file
  is), the counting of repeated lines, the statistics of the accounts, the
  fields of the user pages other than `enabled`, the time and CAID policy of a
  login (one nondeterministic refusal), wall-clock steps, and in `Connections`
  the time a listener thread may spend between reading its socket variable and
  using it (`Lifecycle` has it, for the web server; the listeners have the same
  window, `newcamd.c:476`).
* In `Accounts`, `cfg_reload` finds the account whose counter it copies in one
  step; the code walks the list without the lock (`config.c:609-625`), and a
  page may free a node under it. One pass of the walk compares the name and
  stores the account in one step. A handler reads `cl->account` once in a step
  where the code may test it and read it again.
* In `Log`, the indices are natural numbers. The code's are 32 bits wide
  (`log.c:405`) and overflow after 2^31 lines.
* Wrong guesses that come in `Authorization` headers are in `FailBan` and in no
  bound: the code has none.
* `log_reopen` and the function below have no caller.
* `clients_relink_accounts` (`client.c:46-62`) has no caller.

## 7. Plan

Order: what concurrent sessions rely on first, then what surrounds it.

1. `Connections`, `FailBan`, `CwCache` with proofs; `Accounts`, `Log` checked.
   Done.
2. `WebSessions` and `ConfigStore` with proofs. Done.
3. `Lifecycle` (web pool, bridge, the phases of main()) and `Srvid` with proofs;
   the log file in `Log`. Done.
4. `Log` with proofs. Done.
5. Proofs about `Accounts`, the wake-ups of `Log`, the eviction of
   `WebSessions`. Done.
6. The turns that threads, bans and joins have left. Done.
7. Abstract specifications of the queue, of the session table and of the table
   of names, and their refinement.
8. `ConfigStore`: the editor's text overwritten by a user page before the reload
   has read it; a crash between truncating and filling. `Srvid` composed with
   that reload. Login policy as functions against a reference.
