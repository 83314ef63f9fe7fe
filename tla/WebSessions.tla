---------------------------- MODULE WebSessions ----------------------------
(***************************************************************************)
(* The sessions of the web interface: the table s_sessions under its mutex *)
(* and the requests that use it.  A request first looks up the token of    *)
(* its cookie (request_is_authed), which renews the session, and is then a *)
(* login, a logout or a page.  session_check and session_create read the   *)
(* clock before they take the mutex, so the reading may be old by the time *)
(* it is used.                                                             *)
(*                                                                         *)
(* Credentials are taken to be configured.  Without them every request is  *)
(* let in and the table only fills.                                        *)
(***************************************************************************)
EXTENDS Integers, Sequences

CONSTANTS
  Requests,  \* the requests that may be in service at the same time
  Tokens,    \* what session_gen_token may return; no value comes twice
  NSlots,    \* WEB_MAX_SESSIONS
  Timeout,   \* WEB_SESSION_TIMEOUT
  MaxAge,    \* WEB_SESSION_MAX_AGE
  MaxTime,   \* bound: the clock stops here
  None       \* no token: the empty string of a free slot or a missing cookie

ASSUME WebSessionsAssumption ==
  /\ NSlots \in Nat \ {0}
  /\ Timeout \in Nat \ {0}
  /\ MaxAge \in Nat
  /\ MaxTime \in Nat
  /\ None \notin Tokens

Slots == 1 .. NSlots
Kinds == {"login", "logout", "page"}
FreeSlotMinusOne == [token |-> None, expires |-> 0 - 1, issued_at |-> 0]

FreeSlot == [token |-> None, expires |-> 0, issued_at |-> 0]
NoRequest == [pc |-> "idle", kind |-> "page", cookie |-> None, clock |-> 0,
              sess |-> None, token |-> None]

VARIABLES
  now,        \* time(NULL)
  s_sessions, \* slot -> token, expires, issued_at
  req,        \* per request: where it is, what it asks and what it has read
  sent,       \* the tokens a client has been given
  drawn,      \* the tokens session_gen_token has returned
  revoked     \* history: the tokens whose logout has been carried out

vars == <<now, s_sessions, req, sent, drawn, revoked>>

Init ==
  /\ now = 1
  /\ s_sessions = [i \in Slots |-> FreeSlot]
  /\ req = [r \in Requests |-> NoRequest]
  /\ sent = {}
  /\ drawn = {}
  /\ revoked = {}

-----------------------------------------------------------------------------
Live(i, t) == s_sessions[i].expires > t
Holds(i, t) == s_sessions[i].token = t

(* The same, were it to forget the end of the slot it has chosen.          *)
LookForgetsOldest(s, n, t) ==
  IF s.stop THEN s
  ELSE IF ~Live(n, t) THEN [s EXCEPT !.slot = n, !.stop = TRUE]
  ELSE IF s_sessions[n].expires < s.oldest THEN [s EXCEPT !.slot = n]
  ELSE s

(* One turn of the loop of session_create: it ends at an expired slot and  *)
(* otherwise remembers the slot whose end is the earliest so far.          *)
Look(s, n, t) ==
  IF s.stop THEN s
  ELSE IF ~Live(n, t) THEN [s EXCEPT !.slot = n, !.stop = TRUE]
  ELSE IF s_sessions[n].expires < s.oldest
  THEN [s EXCEPT !.slot = n, !.oldest = s_sessions[n].expires]
  ELSE s

ScanStart == [slot |-> 1, oldest |-> s_sessions[1].expires, stop |-> FALSE]

(* The loop over the first n slots: the slot it would take, the earliest   *)
(* end seen and whether it has met an expired slot.                        *)
Scan(t) ==
  LET scan[n \in 0 .. NSlots] ==
        IF n = 0 THEN ScanStart ELSE Look(scan[n - 1], n, t)
  IN  scan[NSlots]

(* The slot that session_check stops at: the first one that has not        *)
(* expired at the reading and holds the token.                             *)
Matches(t, clock) == {i \in Slots : Live(i, clock) /\ Holds(i, t)}
First(S) == CHOOSE i \in S : \A j \in S : i <= j

RenewedIsYoung(i, clock) == s_sessions[i].expires - clock <= MaxAge

YoungEnough(i, clock) == clock - s_sessions[i].issued_at <= MaxAge

Becomes(r, request) == req' = [req EXCEPT ![r] = request]
Done(r) == Becomes(r, NoRequest)

-----------------------------------------------------------------------------
(* A request arrives, with a cookie the client was given or without one.   *)
(* An Authorization header may let it in all the same; it touches no       *)
(* session then.                                                           *)
Arrive(r, kind, cookie) ==
  /\ req[r].pc = "idle"
  /\ Becomes(r, [NoRequest EXCEPT !.pc = IF cookie = None THEN "route" ELSE "clock",
                                  !.kind = kind, !.cookie = cookie])
  /\ UNCHANGED <<now, s_sessions, sent, drawn, revoked>>

(* session_check up to its lock.                                           *)
ReadClock(r) ==
  /\ req[r].pc = "clock"
  /\ Becomes(r, [req[r] EXCEPT !.pc = "check", !.clock = now])
  /\ UNCHANGED <<now, s_sessions, sent, drawn, revoked>>

(* session_check under its lock: a session that is not too old is renewed  *)
(* and lets the request in.  The text of the request is freed after it.    *)
Check(r) ==
  LET t == req[r].cookie
      c == req[r].clock
      hit == Matches(t, c)
      ok == hit # {} /\ YoungEnough(First(hit), c)
  IN  /\ req[r].pc = "check"
      /\ s_sessions' = IF ok THEN [s_sessions EXCEPT ![First(hit)].expires = c + Timeout]
                       ELSE s_sessions
      /\ Becomes(r, [NoRequest EXCEPT !.pc = "route", !.kind = req[r].kind,
                                      !.sess = IF ok THEN t ELSE None])
      /\ UNCHANGED <<now, sent, drawn, revoked>>

(* POST /login with the right name and password, from an address that is   *)
(* not banned: a token is drawn and the clock read.                        *)
LoginOk(r, t) ==
  /\ req[r].pc = "route" /\ req[r].kind = "login"
  /\ t \notin drawn
  /\ drawn' = drawn \cup {t}
  /\ Becomes(r, [req[r] EXCEPT !.pc = "create", !.token = t, !.clock = now])
  /\ UNCHANGED <<now, s_sessions, sent, revoked>>

(* POST /login refused: banned, or wrong credentials.                      *)
LoginRefused(r) ==
  /\ req[r].pc = "route" /\ req[r].kind = "login"
  /\ Done(r)
  /\ UNCHANGED <<now, s_sessions, sent, drawn, revoked>>

(* session_create under its lock, and the redirect that sets the cookie.   *)
Create(r) ==
  LET t == req[r].token
      c == req[r].clock
  IN  /\ req[r].pc = "create"
      /\ s_sessions' = [s_sessions EXCEPT ![Scan(c).slot] =
                          [token |-> t, expires |-> c + Timeout, issued_at |-> c]]
      /\ sent' = sent \cup {t}
      /\ Done(r)
      /\ UNCHANGED <<now, drawn, revoked>>

(* /logout by a request that its session let in: session_invalidate.  It   *)
(* looks at every slot, the expired ones too.                              *)
InvalidateUpToFree(r) ==
  LET hit == {i \in Slots : /\ Holds(i, req[r].sess)
                            /\ \A j \in 1 .. i : s_sessions[j] # FreeSlot}
  IN  /\ req[r].pc = "route" /\ req[r].kind = "logout" /\ req[r].sess # None
      /\ s_sessions' = IF hit = {} THEN s_sessions
                       ELSE [s_sessions EXCEPT ![First(hit)] = FreeSlot]
      /\ revoked' = revoked \cup {req[r].sess}
      /\ Done(r)
      /\ UNCHANGED <<now, sent, drawn>>

(* session_invalidate.                                                     *)
Invalidate(r) ==
  LET hit == {i \in Slots : Holds(i, req[r].sess)}
  IN  /\ req[r].pc = "route" /\ req[r].kind = "logout" /\ req[r].sess # None
      /\ s_sessions' = IF hit = {} THEN s_sessions
                       ELSE [s_sessions EXCEPT ![First(hit)] = FreeSlot]
      /\ revoked' = revoked \cup {req[r].sess}
      /\ Done(r)
      /\ UNCHANGED <<now, sent, drawn>>

(* /logout without a session, or any page: the answer changes no session.  *)
Answer(r) ==
  /\ req[r].pc = "route"
  /\ req[r].kind = "page" \/ (req[r].kind = "logout" /\ req[r].sess = None)
  /\ Done(r)
  /\ UNCHANGED <<now, s_sessions, sent, drawn, revoked>>

Tick ==
  /\ now < MaxTime
  /\ now' = now + 1
  /\ UNCHANGED <<s_sessions, req, sent, drawn, revoked>>

Serve(r) ==
  \/ \E kind \in Kinds, cookie \in sent \cup {None} : Arrive(r, kind, cookie)
  \/ ReadClock(r)
  \/ Check(r)
  \/ \E t \in Tokens : LoginOk(r, t)
  \/ LoginRefused(r)
  \/ Create(r)
  \/ Invalidate(r)
  \/ Answer(r)

Next ==
  \/ \E r \in Requests : Serve(r)
  \/ Tick

Spec == Init /\ [][Next]_vars

-----------------------------------------------------------------------------
Session == [token : Tokens \cup {None}, expires : Nat, issued_at : Nat]
Request == [pc : {"idle", "clock", "check", "route", "create"}, kind : Kinds,
            cookie : Tokens \cup {None}, clock : Nat,
            sess : Tokens \cup {None}, token : Tokens \cup {None}]

TypeOK ==
  /\ now \in Nat
  /\ s_sessions \in [Slots -> Session]
  /\ req \in [Requests -> Request]
  /\ sent \subseteq Tokens
  /\ drawn \subseteq Tokens
  /\ revoked \subseteq Tokens

(* A logout is final: whatever renewals, logins and evictions were under   *)
(* way, the token of a session that session_invalidate was called for is   *)
(* never in the table again, so no later request is let in by it.          *)
LogoutFinal == \A t \in revoked, i \in Slots : ~Holds(i, t)

(* Renewing moves the end of a session, but only up to a point: however    *)
(* often and however late its requests read the clock, no session ends     *)
(* later than WEB_SESSION_MAX_AGE + WEB_SESSION_TIMEOUT after its login.   *)
LifeBounded ==
  \A i \in Slots :
    s_sessions[i].expires <= s_sessions[i].issued_at + MaxAge + Timeout

(* A login takes the place of a session that has ended when there is one,  *)
(* and otherwise of the one that ends first, that is, whose last request   *)
(* is the oldest: somebody who uses the pages is not thrown out by others  *)
(* who have gone.                                                          *)
Replaced(i) == s_sessions'[i].token \notin {s_sessions[i].token, None}

TakesIdlest ==
  \A r \in Requests, i \in Slots :
    req[r].pc = "create" /\ req'[r].pc = "idle" /\ Replaced(i) =>
      \/ ~Live(i, req[r].clock)
      \/ \A j \in Slots : /\ Live(j, req[r].clock)
                          /\ s_sessions[i].expires <= s_sessions[j].expires

EvictsIdlest == [][TakesIdlest]_vars
=============================================================================
