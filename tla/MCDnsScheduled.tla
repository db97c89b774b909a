---------------------------- MODULE MCDnsScheduled ----------------------------
(* Small instances of DnsScheduled: tasks on one record.                    *)
EXTENDS DnsScheduled

CONSTANTS v1, v2

MCRecords == {1}
MCValues == {v1, v2}
MCInitialValue == [r \in MCRecords |-> v1]

P(action, value, at) == [record |-> 1, action |-> action, value |-> value, at |-> at]

AllPlans ==
    {P("modify", v2, 0), P("modify", v1, 1), P("pause", NoValue, 0),
     P("enable", NoValue, 1), P("delete", NoValue, 1)}

\* What the API accepts although it can only fail.
OddPlans == AllPlans \cup {P("modify", NoValue, 0), P("other", NoValue, 1)}

=============================================================================
