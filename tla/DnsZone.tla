------------------------------- MODULE DnsZone -------------------------------
(***************************************************************************)
(* One DNS zone: the records the provider serves, the copy EasyPanel keeps *)
(* in the table dns_records, and the HTTP handlers that write both.  Every *)
(* handler is two or more steps: a call to the provider, whose error it    *)
(* ignores, and then statements on the local table.  Nothing serialises    *)
(* the handlers, so their steps interleave.                                *)
(*                                                                         *)
(* A record is its value and its enabled flag.  Record ids are naturals in *)
(* the order in which dnsRecordListByDomain returns them.                  *)
(***************************************************************************)
EXTENDS Integers

CONSTANTS
    Records,        \* record ids
    Values,         \* record values
    NoRow,          \* there is no such record
    InitialValue,   \* the zone at the start; NoRow for an id not yet given out
    SupportsStatus, \* FALSE for Cloudflare, whose SetStatus does nothing
    Handlers,       \* HTTP requests on the zone that may be in flight at once
    NoRequest,      \* the state of a handler that is not running
    MaxFaults       \* bound on failed calls and restarts

Row == [value: Values, on: BOOLEAN]
ZoneRows == [Records -> Row \cup {NoRow}]

\* What a handler still has to do to the local table.
WriteRequest  == [kind: {"write"}, id: Records, row: Row \cup {NoRow}]
StatusRequest == [kind: {"status"}, id: Records, on: BOOLEAN]
SyncRequest   == [kind: {"sync"}, rows: ZoneRows, todo: SUBSET Records,
                  cleared: BOOLEAN]
Request == WriteRequest \cup StatusRequest \cup SyncRequest

ASSUME ZoneAssumption ==
    /\ Records \subseteq Nat
    /\ NoRow \notin Row \cup Values
    /\ InitialValue \in [Records -> Values \cup {NoRow}]
    /\ SupportsStatus \in BOOLEAN
    /\ MaxFaults \in Nat

ASSUME NoRequestAssumption == NoRequest \notin Request

VARIABLES
    provider,   \* what the DNS provider serves
    local,      \* the rows of dns_records
    unused,     \* ids the provider has not given out
    request,    \* the unfinished part of each handler
    faults,     \* faults so far
    stale       \* history: the syncs during which something else happened

zoneVars == <<provider, local, unused, request, faults, stale>>

ZoneTypeOK ==
    /\ provider \in ZoneRows
    /\ local \in ZoneRows
    /\ unused \subseteq Records
    /\ request \in [Handlers -> Request \cup {NoRequest}]
    /\ faults \in 0 .. MaxFaults
    /\ stale \subseteq Handlers

InitialRows ==
    [r \in Records |-> IF InitialValue[r] = NoRow THEN NoRow
                       ELSE [value |-> InitialValue[r], on |-> TRUE]]

ZoneInit ==
    /\ provider = InitialRows
    /\ local = InitialRows
    /\ unused = {r \in Records : InitialValue[r] = NoRow}
    /\ request = [h \in Handlers |-> NoRequest]
    /\ faults = 0
    /\ stale = {}

-----------------------------------------------------------------------------
Idle(h) == request[h] = NoRequest
Syncing(h) == request[h] \in SyncRequest

Fault == faults < MaxFaults /\ faults' = faults + 1

\* Any other write, and any fault, spoils the syncs that are running.
Spoil(syncs) == stale' = stale \cup syncs
Running == {h \in Handlers : ~Idle(h)}

\* UpdateRecord changes the value; the provider keeps its enabled flag.
WithValue(rows, r, v) == [rows EXCEPT ![r].value = v]

\* SetStatus, which Cloudflare's client skips silently.
WithStatus(rows, r, b) ==
    IF SupportsStatus THEN [rows EXCEPT ![r].on = b] ELSE rows

\* A provider call whose error the handler ignores: it is carried out, or the
\* provider does not have the record, or it fails.
Call(known, rows) ==
    \/ known /\ provider' = rows /\ UNCHANGED faults
    \/ ~known /\ UNCHANGED <<provider, faults>>
    \/ known /\ Fault /\ UNCHANGED provider

-----------------------------------------------------------------------------
(* handleDnsRecordCreate, Update, Delete and SetStatus.                    *)

\* The provider call, and what remains to be done locally.
Begin(h, rest) ==
    /\ Idle(h)
    /\ request' = [request EXCEPT ![h] = rest]
    /\ stale' = (stale \cup Running) \ {h}
    /\ UNCHANGED local

\* A record the provider refuses gets a generated local id instead; r is the id,
\* whoever gave it out.
RecordCreate(h, r, v) ==
    LET row == [value |-> v, on |-> TRUE] IN
    /\ r \in unused
    /\ unused' = unused \ {r}
    /\ Call(TRUE, [provider EXCEPT ![r] = row])
    /\ Begin(h, [kind |-> "write", id |-> r, row |-> row])

\* The provider creates record r, but its answer is lost: the row of the table
\* gets the generated id s.
RecordCreateUnanswered(h, r, s, v) ==
    LET row == [value |-> v, on |-> TRUE] IN
    /\ {r, s} \subseteq unused
    /\ r # s
    /\ unused' = unused \ {r, s}
    /\ provider' = [provider EXCEPT ![r] = row]
    /\ Fault
    /\ Begin(h, [kind |-> "write", id |-> s, row |-> row])

\* The id comes with the request: the row need not be there.
RecordUpdate(h, r, v) ==
    /\ Call(provider[r] # NoRow, WithValue(provider, r, v))
    /\ Begin(h, [kind |-> "write", id |-> r, row |-> [value |-> v, on |-> TRUE]])
    /\ UNCHANGED unused

RecordDelete(h, r) ==
    /\ Call(provider[r] # NoRow, [provider EXCEPT ![r] = NoRow])
    /\ Begin(h, [kind |-> "write", id |-> r, row |-> NoRow])
    /\ UNCHANGED unused

RecordSetStatus(h, r, b) ==
    /\ Call(provider[r] # NoRow, WithStatus(provider, r, b))
    /\ Begin(h, [kind |-> "status", id |-> r, on |-> b])
    /\ UNCHANGED unused

\* handleDnsRecordSync: ListRecords.
SyncList(h) ==
    /\ Begin(h, [kind |-> "sync", rows |-> provider, cleared |-> FALSE,
                 todo |-> {r \in Records : provider[r] # NoRow}])
    /\ UNCHANGED <<provider, unused, faults>>

-----------------------------------------------------------------------------
(* The statements on dns_records.  A failed one ends the handler, except   *)
(* in a sync, which ignores it.                                            *)

Statement(h, rows) ==
    \/ local' = rows /\ UNCHANGED faults /\ Spoil(Running \ {h})
    \/ Fault /\ UNCHANGED local /\ Spoil(Running)

End(h) == request' = [request EXCEPT ![h] = NoRequest]

\* dnsRecordUpsert, or dnsRecordDelete.
WriteLocal(h) ==
    LET q == request[h] IN
    /\ q \in WriteRequest
    /\ Statement(h, [local EXCEPT ![q.id] = q.row])
    /\ End(h)
    /\ UNCHANGED <<provider, unused>>

\* UPDATE dns_records SET status: no row, no effect.
SetLocalStatus(h) ==
    LET q == request[h] IN
    /\ q \in StatusRequest
    /\ Statement(h, IF local[q.id] = NoRow THEN local
                    ELSE [local EXCEPT ![q.id].on = q.on])
    /\ End(h)
    /\ UNCHANGED <<provider, unused>>

\* Variant: the old rows are kept, and overwritten one by one.
SyncClear_KeepsRows(h) ==
    /\ Syncing(h)
    /\ ~request[h].cleared
    /\ Statement(h, local)
    /\ request' = [request EXCEPT ![h].cleared = TRUE]
    /\ UNCHANGED <<provider, unused>>

\* dnsRecordDeleteAllByDomain.
SyncClear(h) ==
    /\ Syncing(h)
    /\ ~request[h].cleared
    /\ Statement(h, [r \in Records |-> NoRow])
    /\ request' = [request EXCEPT ![h].cleared = TRUE]
    /\ UNCHANGED <<provider, unused>>

SyncWrite(h, r) ==
    /\ Syncing(h)
    /\ request[h].cleared
    /\ r \in request[h].todo
    /\ Statement(h, [local EXCEPT ![r] = request[h].rows[r]])
    /\ request' = [request EXCEPT ![h].todo = @ \ {r}]
    /\ UNCHANGED <<provider, unused>>

SyncEnd(h) ==
    /\ Syncing(h)
    /\ request[h].cleared
    /\ request[h].todo = {}
    /\ End(h)
    /\ stale' = stale \ {h}
    /\ UNCHANGED <<provider, local, unused, faults>>

\* The process restarts: the handlers in flight are gone.
ZoneRestart ==
    /\ Fault
    /\ request' = [h \in Handlers |-> NoRequest]
    /\ stale' = {}
    /\ UNCHANGED <<provider, local, unused>>

ZoneStep ==
    \/ \E h \in Handlers, r \in Records :
         \/ \E v \in Values : RecordCreate(h, r, v) \/ RecordUpdate(h, r, v)
         \/ \E s \in Records, v \in Values : RecordCreateUnanswered(h, r, s, v)
         \/ \E b \in BOOLEAN : RecordSetStatus(h, r, b)
         \/ RecordDelete(h, r)
         \/ SyncWrite(h, r)
    \/ \E h \in Handlers :
         \/ SyncList(h) \/ SyncClear(h) \/ SyncEnd(h)
         \/ WriteLocal(h) \/ SetLocalStatus(h)

ZoneNext == ZoneStep \/ ZoneRestart

ZoneSpec == ZoneInit /\ [][ZoneNext]_zoneVars

-----------------------------------------------------------------------------
(* Properties.                                                             *)

\* A sync that nothing disturbed makes the local table what the provider
\* serves: after the table is emptied, the rows already written are the
\* provider's and the others are missing.
SyncFaithful ==
    \A h \in Handlers :
        Syncing(h) /\ request[h].cleared /\ h \notin stale =>
            local = [r \in Records |->
                       IF r \in request[h].todo THEN NoRow ELSE provider[r]]

\* What makes it inductive: the list of an undisturbed sync is what the
\* provider still serves, and all of it is still to be written until the table
\* is emptied.
SyncUndisturbed ==
    \A h \in Handlers : Syncing(h) /\ h \notin stale =>
        /\ request[h].rows = provider
        /\ \A r \in request[h].todo : provider[r] # NoRow
        /\ ~request[h].cleared =>
             request[h].todo = {r \in Records : provider[r] # NoRow}
=============================================================================
