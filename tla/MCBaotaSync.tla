----------------------------- MODULE MCBaotaSync -----------------------------
(* Small instances of BaotaSync with one host.  Hosts share nothing but the *)
(* run that goes through them; the theorems are about any number of them.   *)
EXTENDS BaotaSync

CONSTANTS host, u1, u2

Hosts == [i \in Ingresses |-> host]
Plain == [url |-> u1, https |-> FALSE]
Secure == [url |-> u1, https |-> TRUE]
Moved == [url |-> u2, https |-> FALSE]

OneRule == {Secure}
TwoUrls == {Plain, Moved}
=============================================================================
