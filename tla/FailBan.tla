------------------------------ MODULE FailBan ------------------------------
(***************************************************************************)
(* The fail-ban table and the login attempts that use it: newcamd, cccam   *)
(* and the web login all ask ban_is_banned first, test the credentials     *)
(* with no lock held and then call ban_record_fail, ban_record_ok or       *)
(* neither.  Each call is atomic under ban_lock.  A web request that brings *)
(* the credentials in an Authorization header has them tested without any  *)
(* of these calls.                                                         *)
(*                                                                         *)
(* Time is kept as the seconds a ban has left: `until' is Unset for 0 and *)
(* otherwise until - now, 0 once now >= until.  ban_is_banned reads the    *)
(* clock before it takes the lock and ban_prune_locked once more after; the *)
(* later reading decides, because an entry it finds expired is removed.    *)
(*                                                                         *)
(* The names that Accounts has as well begin with Ban: LoginProofs is about *)
(* both modules.                                                           *)
(***************************************************************************)
EXTENDS Integers, FiniteSets

CONSTANTS
  Ips,
  Attempts,  \* the threads that may be inside a login at the same time
  MaxFails,  \* BAN_MAX_FAILS
  BanSecs,   \* BAN_SECS
  MaxClears, \* bound: administrator clears of one entry
  MaxBasic,  \* bound: wrong Authorization headers counted per address
  Unset

ASSUME FailBanAssumption ==
  /\ IsFiniteSet(Attempts)
  /\ MaxFails \in Nat \ {0}
  /\ BanSecs \in Nat \ {0}
  /\ MaxClears \in Nat
  /\ MaxBasic \in Nat
  /\ Unset \notin Nat
  /\ Unset \notin Ips

VARIABLES
  known,   \* the addresses that have an S_BAN_ENTRY in ban_table
  fails,   \* per address: fails, 0 without an entry
  until,   \* per address: seconds left of the ban, Unset for until = 0
  testing, \* per attempt: the address whose credentials it tests, or Unset
  clears,  \* history: how often the web page cleared the present entry
  basic    \* history: per address, wrong passwords tested from a header

table == <<known, fails, until, clears>>
banVars == <<table, testing, basic>>

BanInit ==
  /\ known = {}
  /\ fails = [ip \in Ips |-> 0]
  /\ until = [ip \in Ips |-> Unset]
  /\ testing = [a \in Attempts |-> Unset]
  /\ clears = [ip \in Ips |-> 0]
  /\ basic = [ip \in Ips |-> 0]

InForce(ip) == until[ip] # Unset /\ until[ip] > 0
Expired == {ip \in known : until[ip] = 0}
Inside(ip) == {a \in Attempts : testing[a] = ip}

Remove(gone) ==
  /\ known' = known \ gone
  /\ fails' = [ip \in Ips |-> IF ip \in gone THEN 0 ELSE fails[ip]]
  /\ until' = [ip \in Ips |-> IF ip \in gone THEN Unset ELSE until[ip]]
  /\ clears' = [ip \in Ips |-> IF ip \in gone THEN 0 ELSE clears[ip]]

(* ban_is_banned: the expired entries of every bucket go, then the address *)
(* is looked up.  A banned attempt is over.                                *)
IsBannedExtends(a, ip) ==
  /\ testing[a] = Unset
  /\ known' = known \ Expired
  /\ fails' = [i \in Ips |-> IF i \in Expired THEN 0 ELSE fails[i]]
  /\ until' = [i \in Ips |-> IF i \in Expired THEN Unset
                             ELSE IF i = ip /\ InForce(i) THEN BanSecs
                             ELSE until[i]]
  /\ clears' = [i \in Ips |-> IF i \in Expired THEN 0 ELSE clears[i]]
  /\ testing' = [testing EXCEPT ![a] = IF InForce(ip) THEN Unset ELSE ip]
  /\ UNCHANGED basic

IsBanned(a, ip) ==
  /\ testing[a] = Unset
  /\ Remove(Expired)
  /\ testing' = [testing EXCEPT ![a] = IF InForce(ip) THEN Unset ELSE ip]
  /\ UNCHANGED basic

BansOffByOne(f) == f > MaxFails

Bans(f) == f >= MaxFails

(* ban_record_fail: unknown user or wrong password.                        *)
RecordFail(a, ip) ==
  /\ testing[a] = ip
  /\ testing' = [testing EXCEPT ![a] = Unset]
  /\ known' = known \cup {ip}
  /\ fails' = [fails EXCEPT ![ip] = @ + 1]
  /\ until' = [until EXCEPT ![ip] = IF Bans(fails[ip] + 1) THEN BanSecs ELSE @]
  /\ UNCHANGED <<clears, basic>>

(* ban_record_ok: the login succeeded, the entry goes.                     *)
RecordOk(a, ip) ==
  /\ testing[a] = ip
  /\ testing' = [testing EXCEPT ![a] = Unset]
  /\ Remove({ip})
  /\ UNCHANGED basic

(* The attempt ends without a record: account disabled or expired, address *)
(* not in the whitelist, no place left, the peer gone, or no memory for an *)
(* entry.                                                                  *)
EndUnrecorded(a, ip) ==
  /\ testing[a] = ip
  /\ testing' = [testing EXCEPT ![a] = Unset]
  /\ UNCHANGED <<table, basic>>

(* request_is_authed: an Authorization header with the wrong password is   *)
(* refused; no ban is asked for, whatever is in force, and none recorded.  *)
BasicRefused(ip) ==
  /\ basic[ip] < MaxBasic
  /\ basic' = [basic EXCEPT ![ip] = @ + 1]
  /\ UNCHANGED <<table, testing>>

(* The fail-ban page, for one address or for all: the ban is lifted, the   *)
(* failures stay counted.                                                  *)
Clear(ips) ==
  /\ \A ip \in ips \cap known : clears[ip] < MaxClears
  /\ until' = [ip \in Ips |->
                 IF ip \in ips \cap known THEN Unset ELSE until[ip]]
  /\ clears' = [ip \in Ips |->
                  IF ip \in ips \cap known THEN clears[ip] + 1 ELSE clears[ip]]
  /\ UNCHANGED <<known, fails, testing, basic>>

OneSecondLess(t) == IF t = Unset \/ t = 0 THEN t ELSE t - 1

Tick ==
  /\ until' = [ip \in Ips |-> OneSecondLess(until[ip])]
  /\ UNCHANGED <<known, fails, testing, clears, basic>>

Attempt(a) ==
  \E ip \in Ips :
    \/ IsBanned(a, ip)
    \/ RecordFail(a, ip)
    \/ RecordOk(a, ip)
    \/ EndUnrecorded(a, ip)

BanNext ==
  \/ \E a \in Attempts : Attempt(a)
  \/ \E ip \in Ips : Clear({ip}) \/ BasicRefused(ip)
  \/ Clear(Ips)
  \/ Tick

BanSpec == BanInit /\ [][BanNext]_banVars

(* Time passes and a thread inside a login comes out of it.                *)
BanFairness ==
  /\ WF_banVars(Tick)
  /\ \A a \in Attempts :
       WF_banVars(\E ip \in Ips : RecordFail(a, ip) \/ RecordOk(a, ip)
                                 \/ EndUnrecorded(a, ip))

BanFairSpec == BanSpec /\ BanFairness

-----------------------------------------------------------------------------
BanTypeOK ==
  /\ known \subseteq Ips
  /\ fails \in [Ips -> Nat]
  /\ until \in [Ips -> 0 .. BanSecs \cup {Unset}]
  /\ testing \in [Attempts -> Ips \cup {Unset}]
  /\ clears \in [Ips -> 0 .. MaxClears]
  /\ basic \in [Ips -> 0 .. MaxBasic]

(* The three logins (newcamd, cccam, the web form) check and record apart, *)
(* so attempts that run side by side may all test a password before the    *)
(* ban falls, but no more than those: an address gets BAN_MAX_FAILS wrong  *)
(* logins and at most one more per other thread then inside one.  A clear  *)
(* by the administrator, which keeps the count, gives no more than one     *)
(* further login per thread.  The wrong passwords of Authorization headers *)
(* (`basic') are in no such bound: they add nothing to `fails'.            *)
LoginGuessesBounded ==
  \A ip \in Ips :
    fails[ip] + Cardinality(Inside(ip))
      <= MaxFails - 1 + Cardinality(Attempts) * (clears[ip] + 1)

(* A ban ends, even when the address keeps trying: a refused attempt does  *)
(* not renew it.                                                           *)
BanEnds == \A ip \in Ips : InForce(ip) ~> ~InForce(ip)
=============================================================================
