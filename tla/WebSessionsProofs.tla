------------------------- MODULE WebSessionsProofs -------------------------
(***************************************************************************)
(* Proofs for the sessions of the web interface, for any number of slots,  *)
(* requests and tokens and any timeouts.                                   *)
(*                                                                         *)
(* That a logout is final rests on every token being in one place only: in *)
(* one slot of the table, or in the hands of the one request that has      *)
(* drawn it and not yet stored it (OnePlace).  A revoked token was in a    *)
(* slot before, so it is in nobody's hands (RevokedStored).  What the loop *)
(* of session_create computes is at the end (ScanChooses).                 *)
(***************************************************************************)
EXTENDS WebSessions, WellFoundedInduction, TLAPS

OneSlot ==
  \A i, j \in Slots :
    s_sessions[i].token = s_sessions[j].token /\ s_sessions[i].token # None => i = j

InHand(r, t) == req[r].pc = "create" /\ req[r].token = t

OnePlace ==
  /\ OneSlot
  /\ \A r \in Requests : req[r].pc = "create" =>
       /\ req[r].token \in drawn
       /\ req[r].token \notin sent
       /\ \A i \in Slots : ~Holds(i, req[r].token)
  /\ \A r, q \in Requests :
       req[r].pc = "create" /\ req[q].pc = "create" /\ req[r].token = req[q].token
         => r = q

Stored ==
  /\ sent \subseteq drawn
  /\ revoked \subseteq sent
  /\ \A i \in Slots : s_sessions[i].token \in sent \cup {None}
  /\ \A r \in Requests : req[r].sess \in sent \cup {None}
  /\ \A r \in Requests : req[r].cookie \in sent \cup {None}
  /\ \A r \in Requests : req[r].pc \in {"clock", "check"} => req[r].cookie # None

IndInv == TypeOK /\ OnePlace /\ Stored /\ LogoutFinal

-----------------------------------------------------------------------------
(* In a set of slots with no two members, First returns the one there is.  *)
LEMMA FirstOfOne ==
  ASSUME NEW S \in SUBSET Slots, NEW k \in S, \A i, j \in S : i = j
  PROVE  First(S) = k
<1>1. S \subseteq Int
  BY DEF Slots
<1>2. \A j \in S : k <= j
  BY <1>1
<1>3. \A i \in S : (\A j \in S : i <= j) => i = k
  OBVIOUS
<1> QED
  BY <1>2, <1>3 DEF First

(* The slots a token may be found in.                                      *)
LEMMA HitIsOne ==
  ASSUME TypeOK, OneSlot, NEW t \in Tokens, NEW S \in SUBSET Slots,
         \A i \in S : Holds(i, t), S # {}
  PROVE  First(S) \in S /\ \A i \in Slots : Holds(i, t) => i = First(S)
<1>1. PICK k \in S : TRUE
  OBVIOUS
<1>2. \A i \in Slots : Holds(i, t) => i = k
  BY WebSessionsAssumption DEF OneSlot, Holds
<1>3. \A i, j \in S : i = j
  BY <1>2
<1>4. First(S) = k
  BY <1>3, FirstOfOne
<1> QED
  BY <1>2, <1>4

LEMMA InitIndInv == Init => IndInv /\ LifeBounded
<1> SUFFICES ASSUME Init
             PROVE  IndInv /\ LifeBounded
  OBVIOUS
<1> USE WebSessionsAssumption DEF Init
<1>1. TypeOK
  BY DEF TypeOK, Session, Request, NoRequest, FreeSlot, Kinds
<1>2. OnePlace
  BY DEF OnePlace, OneSlot, FreeSlot, NoRequest
<1>3. Stored
  BY DEF Stored, FreeSlot, NoRequest
<1>4. LogoutFinal /\ LifeBounded
  BY DEF LogoutFinal, LifeBounded, FreeSlot
<1> QED
  BY <1>1, <1>2, <1>3, <1>4 DEF IndInv

-----------------------------------------------------------------------------
LEMMA BecomesTyped ==
  ASSUME req \in [Requests -> Request], NEW r \in Requests, NEW v \in Request,
         Becomes(r, v)
  PROVE  req' \in [Requests -> Request] /\ req'[r] = v
         /\ \A q \in Requests : q # r => req'[q] = req[q]
BY DEF Becomes

(* The records that the actions make are requests.                          *)
LEMMA NoRequestTyped == NoRequest \in Request
BY DEF NoRequest, Request, Kinds

LEMMA ArriveTyped ==
  ASSUME NEW pc \in {"route", "clock"}, NEW kind \in Kinds, NEW t \in Tokens \cup {None}
  PROVE  [NoRequest EXCEPT !.pc = pc, !.kind = kind, !.cookie = t] \in Request
BY DEF NoRequest, Request, Kinds

LEMMA RouteTyped ==
  ASSUME NEW kind \in Kinds, NEW t \in Tokens \cup {None}
  PROVE  [NoRequest EXCEPT !.pc = "route", !.kind = kind, !.sess = t] \in Request
BY DEF NoRequest, Request, Kinds

LEMMA ClockTyped ==
  ASSUME NEW w \in Request, NEW c \in Nat
  PROVE  [w EXCEPT !.pc = "check", !.clock = c] \in Request
BY DEF Request

LEMMA TokenTyped ==
  ASSUME NEW w \in Request, NEW t \in Tokens \cup {None}, NEW c \in Nat
  PROVE  [w EXCEPT !.pc = "create", !.token = t, !.clock = c] \in Request
BY DEF Request

LEMMA TypeStep ==
  ASSUME TypeOK, OnePlace, [Next]_vars
  PROVE  TypeOK'
<1> USE WebSessionsAssumption
<1>1. ASSUME NEW r \in Requests, NEW kind \in Kinds,
             NEW cookie \in sent \cup {None}, Arrive(r, kind, cookie)
      PROVE  TypeOK'
  <2> DEFINE pc == IF cookie = None THEN "route" ELSE "clock"
  <2>0. pc \in {"route", "clock"} /\ cookie \in Tokens \cup {None}
    BY DEF TypeOK
  <2>1. [NoRequest EXCEPT !.pc = pc, !.kind = kind, !.cookie = cookie] \in Request
    <3> HIDE DEF pc
    <3> QED
      BY <2>0, ArriveTyped
  <2> QED
    BY <1>1, <2>1, BecomesTyped DEF Arrive, TypeOK
<1>2. ASSUME NEW r \in Requests, ReadClock(r)
      PROVE  TypeOK'
  <2>0. req[r] \in Request /\ now \in Nat
    BY DEF TypeOK
  <2>1. [req[r] EXCEPT !.pc = "check", !.clock = now] \in Request
    BY <2>0, ClockTyped
  <2> QED
    BY <1>2, <2>1, BecomesTyped DEF ReadClock, TypeOK
<1>3. ASSUME NEW r \in Requests, Check(r)
      PROVE  TypeOK'
  <2> DEFINE h == First(Matches(req[r].cookie, req[r].clock))
             e == req[r].clock + Timeout
  <2>1. req[r] \in Request
    BY DEF TypeOK
  <2>2. e \in Nat
    BY <2>1 DEF Request
  <2>3. s_sessions' \in {s_sessions, [s_sessions EXCEPT ![h].expires = e]}
    BY <1>3 DEF Check
  <2>4. s_sessions' \in [Slots -> Session]
    <3> HIDE DEF h, e
    <3> QED
      BY <2>2, <2>3 DEF TypeOK, Session
  <2>5. PICK t \in Tokens \cup {None} :
          Becomes(r, [NoRequest EXCEPT !.pc = "route", !.kind = req[r].kind, !.sess = t])
    BY <1>3, <2>1 DEF Check, Request
  <2>6. [NoRequest EXCEPT !.pc = "route", !.kind = req[r].kind, !.sess = t] \in Request
    <3>1. req[r].kind \in Kinds
      BY <2>1 DEF Request
    <3> QED
      BY <3>1, RouteTyped
  <2>7. req' \in [Requests -> Request]
    BY <2>5, <2>6, BecomesTyped DEF TypeOK
  <2> QED
    BY <1>3, <2>4, <2>7 DEF Check, TypeOK
<1>4. ASSUME NEW r \in Requests, NEW t \in Tokens, LoginOk(r, t)
      PROVE  TypeOK'
  <2>0. req[r] \in Request /\ now \in Nat
    BY DEF TypeOK
  <2>1. [req[r] EXCEPT !.pc = "create", !.token = t, !.clock = now] \in Request
    BY <2>0, TokenTyped
  <2> QED
    BY <1>4, <2>1, BecomesTyped DEF LoginOk, TypeOK
<1>5. NoRequest \in Request
  BY DEF NoRequest, Request, Kinds
<1>6. ASSUME NEW r \in Requests, LoginRefused(r) \/ Answer(r)
      PROVE  TypeOK'
  BY <1>5, <1>6, BecomesTyped DEF LoginRefused, Answer, Done, TypeOK
<1>7. ASSUME NEW r \in Requests, Create(r)
      PROVE  TypeOK'
  <2> DEFINE k == Scan(req[r].clock).slot
             s == [token |-> req[r].token, expires |-> req[r].clock + Timeout,
                   issued_at |-> req[r].clock]
  <2>1. req[r] \in Request
    BY DEF TypeOK
  <2>2. s \in Session
    BY <2>1 DEF Request, Session
  <2>3. s_sessions' = [s_sessions EXCEPT ![k] = s]
    BY <1>7 DEF Create
  <2>4. s_sessions' \in [Slots -> Session]
    <3> HIDE DEF k, s
    <3> QED
      BY <2>2, <2>3 DEF TypeOK
  <2>5. req' \in [Requests -> Request]
    BY <1>5, <1>7, BecomesTyped DEF Create, Done, TypeOK
  <2>6. sent' \subseteq Tokens
    BY <1>7 DEF Create, OnePlace, TypeOK
  <2> QED
    BY <1>7, <2>4, <2>5, <2>6 DEF Create, TypeOK
<1>8. ASSUME NEW r \in Requests, Invalidate(r)
      PROVE  TypeOK'
  <2> DEFINE h == First({i \in Slots : Holds(i, req[r].sess)})
  <2>1. req[r] \in Request
    BY DEF TypeOK
  <2>2. req[r].sess \in Tokens
    BY <1>8, <2>1 DEF Invalidate, Request
  <2>3. FreeSlot \in Session
    BY DEF FreeSlot, Session
  <2>4. s_sessions' \in {s_sessions, [s_sessions EXCEPT ![h] = FreeSlot]}
    BY <1>8 DEF Invalidate
  <2>5. s_sessions' \in [Slots -> Session]
    <3> HIDE DEF h
    <3> QED
      BY <2>3, <2>4 DEF TypeOK
  <2>6. req' \in [Requests -> Request]
    BY <1>5, <1>8, BecomesTyped DEF Invalidate, Done, TypeOK
  <2> QED
    BY <1>8, <2>2, <2>5, <2>6 DEF Invalidate, TypeOK
<1>9. CASE Tick
  BY <1>9 DEF Tick, TypeOK
<1>10. CASE UNCHANGED vars
  BY <1>10 DEF vars, TypeOK
<1> QED
  BY <1>1, <1>2, <1>3, <1>4, <1>6, <1>7, <1>8, <1>9, <1>10 DEF Next, Serve

-----------------------------------------------------------------------------
(* Where the tokens are after a step.                                      *)
LEMMA PlaceStep ==
  ASSUME IndInv, TypeOK', [Next]_vars
  PROVE  OnePlace' /\ Stored' /\ LogoutFinal'
<1> USE WebSessionsAssumption
<1> DEFINE Good == OnePlace' /\ Stored' /\ LogoutFinal'
<1>a. TypeOK /\ OnePlace /\ Stored /\ LogoutFinal
  BY DEF IndInv
<1>b. ASSUME NEW r \in Requests, NEW v \in Request, Becomes(r, v)
      PROVE  req'[r] = v /\ \A q \in Requests : q # r => req'[q] = req[q]
  BY <1>a, <1>b DEF Becomes, TypeOK
<1>c. NoRequest \in Request
  BY DEF NoRequest, Request, Kinds
(* A request that moves without touching table, tokens or history.         *)
<1>1. ASSUME NEW r \in Requests,
             \A q \in Requests : q # r => req'[q] = req[q],
             req'[r].pc # "create",
             req'[r].sess \in sent \cup {None}, req'[r].cookie \in sent \cup {None},
             req'[r].pc \in {"clock", "check"} => req'[r].cookie # None,
             \A i \in Slots : s_sessions'[i].token = s_sessions[i].token,
             UNCHANGED <<sent, drawn, revoked>>
      PROVE  Good
  <2>1. OnePlace'
    BY <1>a, <1>1 DEF OnePlace, OneSlot, Holds
  <2>2. Stored'
    BY <1>a, <1>1 DEF Stored
  <2>3. LogoutFinal'
    BY <1>a, <1>1 DEF LogoutFinal, Holds
  <2> QED
    BY <2>1, <2>2, <2>3
<1>2. ASSUME NEW r \in Requests, NEW kind \in Kinds,
             NEW cookie \in sent \cup {None}, Arrive(r, kind, cookie)
      PROVE  Good
  <2> DEFINE v == [NoRequest EXCEPT !.pc = IF cookie = None THEN "route" ELSE "clock",
                                    !.kind = kind, !.cookie = cookie]
  <2>1. v.pc \in {"route", "clock"} /\ v.sess = None /\ v.cookie = cookie
        /\ (v.pc = "clock" => cookie # None)
    BY DEF NoRequest
  <2>2. req'[r] = v /\ \A q \in Requests : q # r => req'[q] = req[q]
    BY <1>2, <1>a DEF Arrive, Becomes, TypeOK
  <2> HIDE DEF v
  <2> QED
    BY <1>1, <1>2, <2>1, <2>2 DEF Arrive
<1>3. ASSUME NEW r \in Requests, ReadClock(r)
      PROVE  Good
  <2> DEFINE v == [req[r] EXCEPT !.pc = "check", !.clock = now]
  <2>1. v.pc = "check" /\ v.sess = req[r].sess /\ v.cookie = req[r].cookie
    BY <1>a DEF TypeOK, Request
  <2>2. req'[r] = v /\ \A q \in Requests : q # r => req'[q] = req[q]
    BY <1>3, <1>a DEF ReadClock, Becomes, TypeOK
  <2>3. req[r].sess \in sent \cup {None} /\ req[r].cookie \in sent \cup {None}
        /\ req[r].cookie # None
    BY <1>3, <1>a DEF Stored, ReadClock
  <2> HIDE DEF v
  <2> QED
    BY <1>1, <1>3, <2>1, <2>2, <2>3 DEF ReadClock
<1>4. ASSUME NEW r \in Requests, Check(r)
      PROVE  Good
  <2>1. PICK t \in {req[r].cookie, None} :
          Becomes(r, [NoRequest EXCEPT !.pc = "route", !.kind = req[r].kind, !.sess = t])
    BY <1>4 DEF Check
  <2> DEFINE v == [NoRequest EXCEPT !.pc = "route", !.kind = req[r].kind, !.sess = t]
             h == First(Matches(req[r].cookie, req[r].clock))
             e == req[r].clock + Timeout
  <2>2. v.pc = "route" /\ v.sess = t /\ v.cookie = None
    BY DEF NoRequest
  <2>3. req'[r] = v /\ \A q \in Requests : q # r => req'[q] = req[q]
    BY <2>1, <1>a DEF Becomes, TypeOK
  <2>4. t \in sent \cup {None}
    BY <1>a DEF Stored
  <2>5. s_sessions' \in {s_sessions, [s_sessions EXCEPT ![h].expires = e]}
    BY <1>4 DEF Check
  <2>6. \A i \in Slots : s_sessions'[i].token = s_sessions[i].token
    <3> HIDE DEF h, e
    <3> QED
      BY <1>a, <2>5 DEF TypeOK, Session
  <2> HIDE DEF v
  <2> QED
    BY <1>1, <1>4, <2>2, <2>3, <2>4, <2>6 DEF Check
<1>5. ASSUME NEW r \in Requests, NEW t \in Tokens, LoginOk(r, t)
      PROVE  Good
  <2> DEFINE v == [req[r] EXCEPT !.pc = "create", !.token = t, !.clock = now]
  <2>1. v.pc = "create" /\ v.token = t /\ v.sess = req[r].sess /\ v.cookie = req[r].cookie
    BY <1>a DEF TypeOK, Request
  <2>2. req'[r] = v /\ \A q \in Requests : q # r => req'[q] = req[q]
    BY <1>5, <1>a DEF LoginOk, Becomes, TypeOK
  <2>3. t \notin drawn /\ t # None /\ drawn' = drawn \cup {t}
        /\ UNCHANGED <<s_sessions, sent, revoked>>
    BY <1>5 DEF LoginOk
  <2>4. t \notin sent /\ \A i \in Slots : ~Holds(i, t)
    BY <1>a, <2>3 DEF Stored, Holds
  <2> HIDE DEF v
  <2>5. OnePlace'
    BY <1>a, <2>1, <2>2, <2>3, <2>4 DEF OnePlace, OneSlot, Holds
  <2>6. Stored'
    BY <1>a, <2>1, <2>2, <2>3 DEF Stored
  <2>7. LogoutFinal'
    BY <1>a, <2>3 DEF LogoutFinal, Holds
  <2> QED
    BY <2>5, <2>6, <2>7
<1>6. ASSUME NEW r \in Requests, LoginRefused(r) \/ Answer(r)
      PROVE  Good
  <2>1. req'[r] = NoRequest /\ \A q \in Requests : q # r => req'[q] = req[q]
    BY <1>6, <1>b, <1>c DEF LoginRefused, Answer, Done
  <2>2. NoRequest.pc = "idle" /\ NoRequest.sess = None /\ NoRequest.cookie = None
    BY DEF NoRequest
  <2> QED
    BY <1>1, <1>6, <2>1, <2>2 DEF LoginRefused, Answer
<1>7. ASSUME NEW r \in Requests, Create(r)
      PROVE  Good
  <2> DEFINE k == Scan(req[r].clock).slot
             t == req[r].token
             s == [token |-> t, expires |-> req[r].clock + Timeout,
                   issued_at |-> req[r].clock]
  <2>1. req'[r] = NoRequest /\ \A q \in Requests : q # r => req'[q] = req[q]
    BY <1>7, <1>b, <1>c DEF Create, Done
  <2>2. NoRequest.pc = "idle" /\ NoRequest.sess = None /\ NoRequest.cookie = None
    BY DEF NoRequest
  <2>3. s.token = t /\ s_sessions' = [s_sessions EXCEPT ![k] = s]
    BY <1>7 DEF Create
  <2>4. req[r].pc = "create" /\ sent' = sent \cup {t} /\ UNCHANGED <<drawn, revoked>>
    BY <1>7 DEF Create
  <2>5. t \in drawn /\ t \notin sent /\ t # None
        /\ (\A i \in Slots : s_sessions[i].token # t)
        /\ \A q \in Requests : q # r /\ req[q].pc = "create" => req[q].token # t
    BY <1>a, <2>4 DEF OnePlace, Holds, TypeOK
  <2> HIDE DEF k, s, t
  <2>6. \A i \in Slots : s_sessions'[i].token = IF i = k THEN t ELSE s_sessions[i].token
    BY <1>a, <2>3 DEF TypeOK
  <2>7. OnePlace'
    BY <1>a, <2>1, <2>2, <2>4, <2>5, <2>6 DEF OnePlace, OneSlot, Holds
  <2>8. Stored'
    BY <1>a, <2>1, <2>2, <2>4, <2>5, <2>6 DEF Stored
  <2>9. LogoutFinal'
    BY <1>a, <2>4, <2>5, <2>6 DEF LogoutFinal, Stored, Holds
  <2> QED
    BY <2>7, <2>8, <2>9
<1>8. ASSUME NEW r \in Requests, Invalidate(r)
      PROVE  Good
  <2> DEFINE t == req[r].sess
             S == {i \in Slots : Holds(i, t)}
             h == First(S)
  <2>1. req'[r] = NoRequest /\ \A q \in Requests : q # r => req'[q] = req[q]
    BY <1>8, <1>b, <1>c DEF Invalidate, Done
  <2>2. /\ NoRequest.pc = "idle" /\ NoRequest.sess = None /\ NoRequest.cookie = None
        /\ FreeSlot.token = None
    BY DEF NoRequest, FreeSlot
  <2>3. t \in sent /\ t \in Tokens /\ t # None
    BY <1>8, <1>a DEF Invalidate, Stored, TypeOK
  <2>4. revoked' = revoked \cup {t} /\ UNCHANGED <<sent, drawn>>
        /\ s_sessions' = IF S = {} THEN s_sessions ELSE [s_sessions EXCEPT ![h] = FreeSlot]
    BY <1>8 DEF Invalidate
  <2>5. S # {} => h \in S /\ \A i \in Slots : Holds(i, t) => i = h
    BY <1>a, <2>3, HitIsOne DEF OnePlace
  <2> HIDE DEF h, t
  <2>6. \A i \in Slots : s_sessions'[i].token =
                         IF Holds(i, t) THEN None ELSE s_sessions[i].token
    <3>1. CASE S = {}
      BY <2>4, <3>1
    <3>2. CASE S # {}
      BY <1>a, <2>2, <2>4, <2>5, <3>2 DEF TypeOK
    <3> QED
      BY <3>1, <3>2
  <2> HIDE DEF S
  <2>7. OnePlace'
    BY <1>a, <2>1, <2>2, <2>3, <2>4, <2>6 DEF OnePlace, OneSlot, Holds, TypeOK
  <2>8. Stored'
    BY <1>a, <2>1, <2>2, <2>3, <2>4, <2>6 DEF Stored
  <2>9. LogoutFinal'
    BY <1>a, <2>3, <2>4, <2>6 DEF LogoutFinal, Holds, TypeOK
  <2> QED
    BY <2>7, <2>8, <2>9
<1>9. CASE Tick \/ UNCHANGED vars
  BY <1>a, <1>9 DEF Tick, vars, OnePlace, OneSlot, Stored, LogoutFinal, Holds
<1> QED
  BY <1>2, <1>3, <1>4, <1>5, <1>6, <1>7, <1>8, <1>9 DEF Next, Serve

(* A renewal is granted only to a session that is young enough, and a      *)
(* login starts with the age 0.                                            *)
LEMMA LifeStep ==
  ASSUME IndInv, LifeBounded, [Next]_vars
  PROVE  LifeBounded'
<1> USE WebSessionsAssumption
<1>1. TypeOK /\ OnePlace /\ Stored
  BY DEF IndInv
<1>2. ASSUME NEW r \in Requests, Check(r)
      PROVE  LifeBounded'
  <2> DEFINE c == req[r].clock
             h == First(Matches(req[r].cookie, c))
             ok == Matches(req[r].cookie, c) # {} /\ YoungEnough(h, c)
  <2>1. c \in Nat /\ req[r].cookie \in Tokens
    BY <1>1, <1>2 DEF TypeOK, Request, Stored, Check
  <2>2. s_sessions' = IF ok THEN [s_sessions EXCEPT ![h].expires = c + Timeout]
                      ELSE s_sessions
    BY <1>2 DEF Check
  <2>3. ok => h \in Slots /\ c - s_sessions[h].issued_at <= MaxAge
    <3>1. Matches(req[r].cookie, c) \in SUBSET Slots
          /\ \A i \in Matches(req[r].cookie, c) : Holds(i, req[r].cookie)
      BY DEF Matches
    <3>2. Matches(req[r].cookie, c) # {} => h \in Slots
      BY <1>1, <2>1, <3>1, HitIsOne DEF OnePlace
    <3> QED
      BY <3>2 DEF YoungEnough
  <2> HIDE DEF h, ok, c
  <2>4. \A i \in Slots : /\ s_sessions[i].expires \in Nat /\ s_sessions[i].issued_at \in Nat
                         /\ s_sessions[i] \in Session
    BY <1>1 DEF TypeOK, Session
  <2>5. ASSUME NEW i \in Slots
        PROVE  s_sessions'[i].expires <= s_sessions'[i].issued_at + MaxAge + Timeout
    <3>1. CASE ok /\ i = h
      <4>1. s_sessions'[i].expires = c + Timeout
            /\ s_sessions'[i].issued_at = s_sessions[i].issued_at
        BY <1>1, <2>2, <2>4, <3>1 DEF TypeOK, Session
      <4> QED
        BY <2>1, <2>3, <2>4, <3>1, <4>1
    <3>2. CASE ~(ok /\ i = h)
      <4>1. s_sessions'[i] = s_sessions[i]
        BY <1>1, <2>2, <3>2 DEF TypeOK
      <4> QED
        BY <4>1 DEF LifeBounded
    <3> QED
      BY <3>1, <3>2
  <2> QED
    BY <2>5 DEF LifeBounded
<1>3. ASSUME NEW r \in Requests, Create(r)
      PROVE  LifeBounded'
  <2> DEFINE k == Scan(req[r].clock).slot
             c == req[r].clock
             s == [token |-> req[r].token, expires |-> c + Timeout, issued_at |-> c]
  <2>1. c \in Nat
    BY <1>1 DEF TypeOK, Request
  <2>2. s.expires <= s.issued_at + MaxAge + Timeout
    BY <2>1
  <2>3. s_sessions' = [s_sessions EXCEPT ![k] = s]
    BY <1>3 DEF Create
  <2> HIDE DEF k, s, c
  <2>4. \A i \in Slots : s_sessions'[i] = IF i = k THEN s ELSE s_sessions[i]
    BY <1>1, <2>3 DEF TypeOK
  <2> QED
    BY <2>2, <2>4 DEF LifeBounded
<1>4. ASSUME NEW r \in Requests, Invalidate(r)
      PROVE  LifeBounded'
  <2> DEFINE h == First({i \in Slots : Holds(i, req[r].sess)})
  <2>1. s_sessions' \in {s_sessions, [s_sessions EXCEPT ![h] = FreeSlot]}
    BY <1>4 DEF Invalidate
  <2>2. FreeSlot.expires <= FreeSlot.issued_at + MaxAge + Timeout
    BY DEF FreeSlot
  <2> HIDE DEF h
  <2>3. \A i \in Slots : s_sessions'[i] \in {s_sessions[i], FreeSlot}
    BY <1>1, <2>1 DEF TypeOK
  <2> QED
    BY <2>2, <2>3 DEF LifeBounded
<1>5. ASSUME UNCHANGED s_sessions
      PROVE  LifeBounded'
  BY <1>5 DEF LifeBounded
<1> QED
  BY <1>2, <1>3, <1>4, <1>5
  DEF Next, Serve, Arrive, ReadClock, LoginOk, LoginRefused, Answer, Tick, vars

-----------------------------------------------------------------------------
LEMMA Inductive == Spec => [](IndInv /\ LifeBounded)
<1>1. Init => IndInv /\ LifeBounded
  BY InitIndInv
<1>2. ASSUME IndInv /\ LifeBounded, [Next]_vars
      PROVE  (IndInv /\ LifeBounded)'
  <2>1. TypeOK'
    BY <1>2, TypeStep DEF IndInv
  <2>2. OnePlace' /\ Stored' /\ LogoutFinal'
    BY <1>2, <2>1, PlaceStep
  <2>3. LifeBounded'
    BY <1>2, LifeStep
  <2> QED
    BY <2>1, <2>2, <2>3 DEF IndInv
<1> QED
  BY <1>1, <1>2, PTL DEF Spec

(* The variables keep their types.                                         *)
THEOREM TypeCorrect == Spec => []TypeOK
<1>1. IndInv => TypeOK
  BY DEF IndInv
<1> QED
  BY <1>1, Inductive, PTL

(* A session that was logged out lets nobody in any more, whatever else    *)
(* was under way (session_invalidate).                                     *)
THEOREM LogoutCorrect == Spec => []LogoutFinal
<1>1. IndInv => LogoutFinal
  BY DEF IndInv
<1> QED
  BY <1>1, Inductive, PTL

(* No amount of use keeps a session beyond its greatest age and one more   *)
(* timeout (session_check, session_create).                                *)
THEOREM LifeCorrect == Spec => []LifeBounded
BY Inductive, PTL

-----------------------------------------------------------------------------
(* The loop of session_create.  Its states form the function that Scan     *)
(* chooses; that there is one, and what it computes, follows because a set *)
(* of numbers for which it fails would have a least member.                *)
LEMMA LeastOf ==
  ASSUME NEW S \in SUBSET Nat, S # {}
  PROVE  \E m \in S : \A n \in S : m <= n
<1>1. PICK m \in S : \A n \in S : ~(<<n, m>> \in OpToRel(<, Nat))
  BY NatLessThanWellFounded, WFMin
<1>2. \A n \in S : n \in Nat /\ ~(n < m)
  BY <1>1 DEF OpToRel
<1> QED
  BY <1>2

LoopState == [slot : Slots, oldest : Nat, stop : BOOLEAN]

IsLoop(f, t) ==
  f = [n \in 0 .. NSlots |-> IF n = 0 THEN ScanStart ELSE Look(f[n - 1], n, t)]

LEMMA LookTyped ==
  ASSUME TypeOK, NEW s \in LoopState, NEW n \in Slots, NEW t
  PROVE  Look(s, n, t) \in LoopState
<1>1. s_sessions[n].expires \in Nat
  BY DEF TypeOK, Session
<1> QED
  BY <1>1 DEF Look, LoopState

LEMMA LoopExists ==
  ASSUME TypeOK, NEW t
  PROVE  \E f \in [0 .. NSlots -> LoopState] : IsLoop(f, t)
<1> DEFINE Turn(f, n) == IF n = 0 THEN ScanStart ELSE Look(f[n - 1], n, t)
           Upto(f, k) == \A n \in 0 .. k : f[n] = Turn(f, n)
           Bad == {k \in 0 .. NSlots :
                     \A f \in [0 .. NSlots -> LoopState] : ~Upto(f, k)}
<1>1. NSlots \in Nat \ {0}
  BY WebSessionsAssumption
<1>2. ScanStart \in LoopState
  BY <1>1 DEF ScanStart, LoopState, Slots, TypeOK, Session
<1>3. ASSUME Bad # {}
      PROVE  FALSE
  <2>1. Bad \subseteq Nat
    BY <1>1
  <2>2. PICK m \in Bad : \A n \in Bad : m <= n
    BY <1>3, <2>1, LeastOf
  <2>3. m \in 0 .. NSlots /\ \A f \in [0 .. NSlots -> LoopState] : ~Upto(f, m)
    BY <2>2
  <2>a. m \in 0 .. NSlots
    BY <2>3
  <2>4. CASE m = 0
    <3> DEFINE f == [n \in 0 .. NSlots |-> ScanStart]
    <3>1. f \in [0 .. NSlots -> LoopState]
      BY <1>2
    <3>2. f[0] = ScanStart
      BY <1>1
    <3> HIDE DEF f
    <3>3. Upto(f, 0)
      BY <3>2
    <3> QED
      BY <2>3, <2>4, <3>1, <3>3
  <2>5. CASE m # 0
    <3>1. m - 1 \in 0 .. NSlots /\ ~(m <= m - 1)
      BY <1>1, <2>3, <2>5
    <3>2. PICK f \in [0 .. NSlots -> LoopState] : Upto(f, m - 1)
      BY <2>2, <3>1
    <3> DEFINE v == Look(f[m - 1], m, t)
               g == [f EXCEPT ![m] = v]
    <3>3. v \in LoopState
      <4>1. m \in Slots /\ f[m - 1] \in LoopState
        BY <1>1, <2>3, <2>5, <3>1 DEF Slots
      <4> QED
        BY <4>1, LookTyped
    <3> HIDE DEF v
    <3>4. g \in [0 .. NSlots -> LoopState]
      BY <3>3
    <3>5. g[m] = v /\ \A n \in 0 .. NSlots : n # m => g[n] = f[n]
      BY <2>3
    <3> HIDE DEF g
    <3>6. ASSUME NEW n \in 0 .. m
          PROVE  g[n] = Turn(g, n)
      <4>1. CASE n = m
        <5>1. g[m - 1] = f[m - 1]
          BY <2>3, <3>1, <3>5
        <5> QED
          BY <2>5, <3>5, <4>1, <5>1 DEF v
      <4>2. CASE n # m
        <5>1. n \in 0 .. m - 1 /\ n \in 0 .. NSlots /\ m \in Nat
          BY <1>1, <2>a, <4>2
        <5>2. g[n] = f[n] /\ f[n] = Turn(f, n)
          BY <3>2, <3>5, <4>2, <5>1
        <5>3. n # 0 => n - 1 \in 0 .. NSlots /\ n - 1 # m
          BY <1>1, <5>1
        <5>4. n # 0 => g[n - 1] = f[n - 1]
          BY <3>5, <5>3
        <5> QED
          BY <5>2, <5>4
      <4> QED
        BY <4>1, <4>2
    <3> QED
      BY <2>3, <3>4, <3>6
  <2> QED
    BY <2>4, <2>5
<1>4. PICK f \in [0 .. NSlots -> LoopState] : Upto(f, NSlots)
  <2>1. NSlots \in 0 .. NSlots
    BY <1>1
  <2> QED
    BY <1>3, <2>1
<1>5. f = [n \in 0 .. NSlots |-> Turn(f, n)]
  <2>1. f = [n \in 0 .. NSlots |-> f[n]]
    OBVIOUS
  <2> QED
    BY <1>4, <2>1
<1> QED
  BY <1>5 DEF IsLoop

LEMMA ScanIsLoop ==
  ASSUME TypeOK, NEW t
  PROVE  \E f : IsLoop(f, t) /\ Scan(t) = f[NSlots]
<1> DEFINE f == CHOOSE g : IsLoop(g, t)
<1>1. IsLoop(f, t)
  BY LoopExists, Zenon
<1>2. Scan(t) = f[NSlots]
  BY Zenon DEF Scan, IsLoop
<1> QED
  BY <1>1, <1>2

(* The slot it takes has expired, or all are alive and it is the one that  *)
(* ends first.                                                             *)
LEMMA ScanChooses ==
  ASSUME TypeOK, NEW t
  PROVE  /\ Scan(t).slot \in Slots
         /\ \/ ~Live(Scan(t).slot, t)
            \/ \A j \in Slots :
                 /\ Live(j, t)
                 /\ s_sessions[Scan(t).slot].expires <= s_sessions[j].expires
<1> DEFINE P(n, s) ==
             /\ s \in LoopState
             /\ s.stop => ~Live(s.slot, t)
             /\ ~s.stop => /\ s.oldest = s_sessions[s.slot].expires
                           /\ \A j \in 1 .. n :
                                Live(j, t) /\ s.oldest <= s_sessions[j].expires
<1>1. NSlots \in Nat \ {0} /\ \A i \in Slots : s_sessions[i].expires \in Nat
  BY WebSessionsAssumption DEF TypeOK, Session
<1>2. PICK f : IsLoop(f, t) /\ Scan(t) = f[NSlots]
  BY ScanIsLoop
<1>3. /\ f[0] = ScanStart
      /\ \A n \in 1 .. NSlots : f[n] = Look(f[n - 1], n, t)
  BY <1>1, <1>2 DEF IsLoop
<1>4. P(0, f[0])
  BY <1>1, <1>3 DEF ScanStart, LoopState, Slots
<1>5. ASSUME NEW n \in 1 .. NSlots, NEW s, P(n - 1, s)
      PROVE  P(n, Look(s, n, t))
  <2>1. n \in Slots /\ s \in LoopState /\ s_sessions[n].expires \in Nat
    BY <1>1, <1>5 DEF Slots
  <2>2. \A j \in 1 .. n : j = n \/ j \in 1 .. n - 1
    BY <1>1
  <2>3. Look(s, n, t) \in LoopState
    BY <2>1, LookTyped
  <2>4. CASE s.stop
    BY <1>5, <2>4 DEF Look
  <2>5. CASE ~s.stop /\ ~Live(n, t)
    <3>1. Look(s, n, t).stop /\ Look(s, n, t).slot = n
      BY <2>1, <2>5 DEF Look, LoopState
    <3> QED
      BY <2>3, <2>5, <3>1
  <2>6. CASE ~s.stop /\ Live(n, t) /\ s_sessions[n].expires < s.oldest
    <3> DEFINE e == s_sessions[n].expires
    <3>1. /\ Look(s, n, t).stop = FALSE /\ Look(s, n, t).slot = n
          /\ Look(s, n, t).oldest = e
      BY <2>1, <2>6 DEF Look, LoopState
    <3>2. \A j \in 1 .. n - 1 : Live(j, t) /\ s.oldest <= s_sessions[j].expires
      BY <1>5, <2>6
    <3>3. \A j \in 1 .. n - 1 : e <= s_sessions[j].expires
      <4>1. s.oldest \in Nat /\ e \in Nat /\ e < s.oldest
        BY <2>1, <2>6 DEF LoopState
      <4>2. \A j \in 1 .. n - 1 : s_sessions[j].expires \in Nat
        BY <1>1 DEF Slots
      <4> QED
        BY <3>2, <4>1, <4>2
    <3>4. \A j \in 1 .. n : Live(j, t) /\ e <= s_sessions[j].expires
      BY <2>1, <2>2, <2>6, <3>2, <3>3
    <3> QED
      BY <2>3, <3>1, <3>4
  <2>7. CASE ~s.stop /\ Live(n, t) /\ ~(s_sessions[n].expires < s.oldest)
    <3>1. Look(s, n, t) = s
      BY <2>7 DEF Look
    <3>2. s.oldest \in Nat /\ s.oldest <= s_sessions[n].expires
      BY <2>1, <2>7 DEF LoopState
    <3> QED
      BY <1>5, <2>2, <2>7, <3>1, <3>2
  <2> QED
    BY <2>4, <2>5, <2>6, <2>7
<1> HIDE DEF P
<1> DEFINE Bad == {n \in 0 .. NSlots : ~P(n, f[n])}
<1>6. ASSUME Bad # {}
      PROVE  FALSE
  <2>1. Bad \subseteq Nat
    BY <1>1
  <2>2. PICK m \in Bad : \A n \in Bad : m <= n
    BY <1>6, <2>1, LeastOf
  <2>3. m \in 1 .. NSlots /\ ~P(m, f[m])
    BY <1>1, <1>4, <2>2
  <2>4. m - 1 \in 0 .. NSlots /\ ~(m <= m - 1)
    BY <1>1, <2>3
  <2>5. P(m - 1, f[m - 1])
    BY <2>2, <2>4
  <2> QED
    BY <1>3, <1>5, <2>3, <2>5
<1>7. P(NSlots, Scan(t))
  BY <1>1, <1>2, <1>6
<1> QED
  BY <1>1, <1>7 DEF P, LoopState, Slots

(* The action property from it: only session_create puts a token into a    *)
(* slot when its request ends.                                             *)
LEMMA EvictsStep ==
  ASSUME TypeOK, [Next]_vars, NEW r \in Requests, NEW i \in Slots,
         req[r].pc = "create", req'[r].pc = "idle", Replaced(i)
  PROVE  \/ ~Live(i, req[r].clock)
         \/ \A j \in Slots : /\ Live(j, req[r].clock)
                             /\ s_sessions[i].expires <= s_sessions[j].expires
<1>1. Create(r)
  <2>1. ASSUME NEW q \in Requests, Serve(q), q # r
        PROVE  req'[r] = req[r]
    <3>1. \E v : req' = [req EXCEPT ![q] = v]
      BY <2>1 DEF Serve, Arrive, ReadClock, Check, LoginOk, LoginRefused,
                  Create, Invalidate, Answer, Done, Becomes
    <3> QED
      BY <2>1, <3>1 DEF TypeOK
  <2>2. req'[r] # req[r]
    OBVIOUS
  <2>3. Serve(r)
    BY <2>1, <2>2 DEF Next, Tick, vars
  <2> QED
    BY <2>3 DEF Serve, Arrive, ReadClock, Check, LoginOk, LoginRefused,
                Invalidate, Answer
<1> DEFINE k == Scan(req[r].clock).slot
           s == [token |-> req[r].token, expires |-> req[r].clock + Timeout,
                 issued_at |-> req[r].clock]
<1>2. s_sessions' = [s_sessions EXCEPT ![k] = s]
  BY <1>1 DEF Create
<1>3. i = k
  <2> HIDE DEF k, s
  <2> QED
    BY <1>2 DEF TypeOK, Replaced
<1> QED
  BY <1>3, ScanChooses

(* A login throws out the session that would end first, and none that is   *)
(* in use while there is an expired one (session_create), for any number   *)
(* of slots and logins and however old the readings of the clock are.      *)
THEOREM EvictsCorrect == Spec => EvictsIdlest
<1>1. IndInv /\ [Next]_vars => TakesIdlest
  BY EvictsStep DEF IndInv, TakesIdlest
<1> QED
  BY <1>1, Inductive, PTL DEF Spec, EvictsIdlest
=============================================================================
