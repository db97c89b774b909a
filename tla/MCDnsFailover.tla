---------------------------- MODULE MCDnsFailover ----------------------------
(* Small instances of DnsFailover.  Record 1 is the root record, record 2 a *)
(* host below it, or both are ids not yet given out; o1, o2 are their       *)
(* values at the start, f a failover value.                                 *)
EXTENDS DnsFailover

CONSTANTS o1, o2, f

MCValues == {o1, o2, f}
OldAndNew == {o1, f}
Both == 1 .. 2
Original == <<o1, o2>>

ById(r, n) == [record |-> r, maxErrors |-> n, original |-> Original[r],
               failover |-> f, enabled |-> TRUE]
Blank(n) == [record |-> AnyRecord, maxErrors |-> n, original |-> o2,
             failover |-> f, enabled |-> TRUE]

WholeZone == Original
EmptyZone == <<NoRow, NoRow>>

CheckConfigs == {ById(1, 2), Blank(1)}
LiveConfigs == {ById(1, 2), ById(2, 1)}
OneConfig == {ById(1, 2)}
EagerConfig == {ById(1, 1)}
=============================================================================
