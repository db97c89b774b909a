---------------------------- MODULE MCPlatformKV ----------------------------
(***************************************************************************)
(* PlatformKV with two writers and a reader on one backend and a writer on *)
(* another one, which may have found no Redis.                             *)
(***************************************************************************)
EXTENDS PlatformKV

CONSTANTS w1, w2, w3, r1, p1, p2

\* No action and no property reads what the last step found, only what the next
\* one finds; and no step changes only that, so fairness asks for the same steps.
WhatMatters ==
    <<place, store, disk, cache, hot, pc, doc, outdated, doubt, excused>>

TwoProcesses == [c \in Clients |-> IF c = w3 THEN p2 ELSE p1]
=============================================================================
