----------------------------- MODULE MCFailBan -----------------------------
(***************************************************************************)
(* Two addresses, three threads inside a login, a ban after two failures   *)
(* that lasts two ticks, one clear of an entry, one wrong password in an   *)
(* Authorization header of each address.                                   *)
(***************************************************************************)
EXTENDS FailBan

CONSTANTS ip1, ip2, t1, t2, t3

TwoIps == {ip1, ip2}
ThreeAttempts == {t1, t2, t3}
=============================================================================
