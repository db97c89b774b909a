------------------------------ MODULE OpsAlerts ------------------------------
(***************************************************************************)
(* The alert rules of the operations centre.  Once a minute one goroutine  *)
(* loads the rules and the alert state from the key-value store, evaluates *)
(* the rules one by one, sends a message when a rule starts or stops       *)
(* firing, and saves the state when it has gone through all of them.  The  *)
(* rules may be edited, the process may die and calls may fail meanwhile.  *)
(*                                                                         *)
(* Time is counted in minutes and kept as ages, which stop growing at      *)
(* Longest.  A tick takes place at one instant.  The entry that goes with  *)
(* each message into the alert log is one of the writers of PlatformKV.    *)
(***************************************************************************)
EXTENDS Integers

CONSTANTS
    Rules,      \* the rule ids
    For,        \* the minutes a rule's condition must hold before it fires
    Longest,    \* at least every For
    MaxGap,     \* the longest time between two ticks
    MaxFaults,  \* bound on failed calls and restarts
    No          \* not pending

ASSUME AlertsAssumption ==
    /\ Longest \in Nat
    /\ For \in [Rules -> 1 .. Longest]
    /\ MaxGap \in Nat \ {0}
    /\ MaxFaults \in Nat
    /\ No \notin Nat

VARIABLES
    enabled, silenced,  \* the rules that are switched on, and silenced ones
    above,              \* the rules whose condition holds in Prometheus
    firing, pending,    \* OpsAlertPendingState in the store
    todo,               \* the rules the worker has still to evaluate
    busy,               \* the worker is between load and save
    config, state,      \* what it loaded, the state as it has changed it
    last,               \* the last message about each rule, as it was sent
    heard,              \* what the last one said that reached anybody
    repeats,            \* history: messages that said what had been said
    found,              \* history: minutes since the rule was found false
    lapsed,             \* history: rules some result of which was lost
    faults

vars == <<enabled, silenced, above, firing, pending, todo, busy, config, state,
          last, heard, repeats, found, lapsed, faults>>
messages == <<last, heard, repeats>>
settings == <<enabled, silenced, above>>

Age == 0 .. Longest

Statuses == {"none", "firing", "resolved"}

Message == [status: Statuses,
            lost: BOOLEAN,    \* it reached nobody
            again: BOOLEAN,   \* it says what had been said
            held: BOOLEAN,    \* no evaluation of the last For found it false
            lapsed: BOOLEAN]  \* a result of the rule had been lost

NoMessage == [status |-> "none", lost |-> FALSE, again |-> FALSE, held |-> TRUE,
              lapsed |-> FALSE]

NewState == [firing |-> [r \in Rules |-> FALSE], pending |-> [r \in Rules |-> No]]

TypeOK ==
    /\ enabled \subseteq Rules /\ silenced \subseteq Rules /\ above \subseteq Rules
    /\ firing \in [Rules -> BOOLEAN]
    /\ pending \in [Rules -> Age \cup {No}]
    /\ todo \subseteq Rules
    /\ busy \in BOOLEAN
    /\ config \in [enabled: SUBSET Rules, silenced: SUBSET Rules]
    /\ state \in [firing: [Rules -> BOOLEAN], pending: [Rules -> Age \cup {No}]]
    /\ busy \/ (todo = {} /\ state = NewState)
    /\ last \in [Rules -> Message]
    /\ heard \in [Rules -> Statuses]
    /\ repeats \in [Rules -> 0 .. MaxFaults + 1]
    /\ found \in [Rules -> Age]
    /\ lapsed \subseteq Rules
    /\ faults \in 0 .. MaxFaults

Init ==
    /\ enabled \in SUBSET Rules /\ silenced = {} /\ above = {}
    /\ firing = NewState.firing /\ pending = NewState.pending
    /\ todo = {} /\ busy = FALSE
    /\ config = [enabled |-> {}, silenced |-> {}]
    /\ state = NewState
    /\ last = [r \in Rules |-> NoMessage]
    /\ heard = [r \in Rules |-> "none"]
    /\ repeats = [r \in Rules |-> 0]
    /\ found = [r \in Rules |-> Longest]
    /\ lapsed = {}
    /\ faults = 0

Fault == faults < MaxFaults /\ faults' = faults + 1

-----------------------------------------------------------------------------
Older(age, d) ==
    CASE age = No -> No
      [] age # No /\ age + d =< Longest -> age + d
      [] OTHER -> Longest

AllOlder(ages, d) == [r \in Rules |-> Older(ages[r], d)]

\* The rules are edited, a silence is set or ends, a condition changes.
Configure ==
    /\ \E r \in Rules :
         \/ enabled' = enabled \cup {r} /\ UNCHANGED <<silenced, above>>
         \/ enabled' = enabled \ {r} /\ UNCHANGED <<silenced, above>>
         \/ silenced' = silenced \cup {r} /\ UNCHANGED <<enabled, above>>
         \/ silenced' = silenced \ {r} /\ UNCHANGED <<enabled, above>>
         \/ above' = above \cup {r} /\ UNCHANGED <<enabled, silenced>>
         \/ above' = above \ {r} /\ UNCHANGED <<enabled, silenced>>
    /\ UNCHANGED <<firing, pending, todo, busy, config, state, messages, found,
                   lapsed, faults>>

\* d minutes after the last one a tick begins.  A state that cannot be read
\* counts as an empty one.
StartTick(d) ==
    /\ ~busy
    /\ busy' = TRUE
    /\ todo' = Rules
    /\ config' = [enabled |-> enabled, silenced |-> silenced]
    /\ pending' = AllOlder(pending, d)
    /\ found' = AllOlder(found, d)
    /\ \/ /\ state' = [firing |-> firing, pending |-> pending']
          /\ UNCHANGED <<lapsed, faults>>
       \/ /\ Fault
          /\ state' = NewState
          /\ lapsed' = lapsed \cup
                 {r \in Rules : firing[r] \/ pending[r] # No}
    /\ UNCHANGED <<settings, firing, messages>>

-----------------------------------------------------------------------------
\* The worker is done with rule r in this tick and leaves it in state (f, p).
Leave(r, f, p) ==
    /\ todo' = todo \ {r}
    /\ state' = [firing  |-> [state.firing EXCEPT ![r] = f],
                 pending |-> [state.pending EXCEPT ![r] = p]]
    /\ UNCHANGED <<settings, firing, pending, busy, config, lapsed>>

\* It says what the last message has said.
SaidAgain(r, status) == (last[r].status = "firing") = (status = "firing")

\* opsNotifyChannels, with what there is to say about the message.  Without a
\* key or a channel, or when every channel fails, it reaches nobody, of which
\* the worker knows nothing.
Send(r, status) ==
    \E lost \in BOOLEAN :
        /\ last' = [last EXCEPT ![r] =
               [status |-> status,
                lost |-> lost,
                again |-> SaidAgain(r, status),
                held |-> found[r] >= For[r],
                lapsed |-> r \in lapsed]]
        /\ heard' = IF lost THEN heard ELSE [heard EXCEPT ![r] = status]
        /\ repeats' = IF SaidAgain(r, status) /\ repeats[r] =< MaxFaults
                      THEN [repeats EXCEPT ![r] = @ + 1] ELSE repeats

\* Rule r is switched off, or silenced, which forgets how long it was pending.
SkipRule(r) ==
    /\ r \in todo
    /\ \/ r \notin config.enabled /\ Leave(r, state.firing[r], state.pending[r])
       \/ /\ r \in config.enabled \cap config.silenced
          /\ Leave(r, state.firing[r], No)
    /\ UNCHANGED <<messages, found, faults>>

Evaluated(r) == r \in todo /\ r \in config.enabled /\ r \notin config.silenced

\* Variant: a rule that stops holding stays pending.
ConditionFalse_KeepsPending(r) ==
    /\ Evaluated(r)
    /\ \/ r \notin above /\ UNCHANGED faults
       \/ Fault
    /\ IF state.firing[r] THEN Send(r, "resolved") ELSE UNCHANGED messages
    /\ Leave(r, FALSE, state.pending[r])
    /\ found' = [found EXCEPT ![r] = 0]

\* Variant: the end of an alert is told again and again.
ConditionFalse_StaysFiring(r) ==
    /\ Evaluated(r)
    /\ \/ r \notin above /\ UNCHANGED faults
       \/ Fault
    /\ IF state.firing[r] THEN Send(r, "resolved") ELSE UNCHANGED messages
    /\ Leave(r, state.firing[r], No)
    /\ found' = [found EXCEPT ![r] = 0]

\* Variant: an alert ends without a message.
ConditionFalse_Silent(r) ==
    /\ Evaluated(r)
    /\ \/ r \notin above /\ UNCHANGED faults
       \/ Fault
    /\ UNCHANGED messages
    /\ Leave(r, FALSE, No)
    /\ found' = [found EXCEPT ![r] = 0]

\* The condition does not hold, or the query failed, which is the same.
ConditionFalse(r) ==
    /\ Evaluated(r)
    /\ \/ r \notin above /\ UNCHANGED faults
       \/ Fault
    /\ IF state.firing[r] THEN Send(r, "resolved") ELSE UNCHANGED messages
    /\ Leave(r, FALSE, No)
    /\ found' = [found EXCEPT ![r] = 0]

\* How long rule r has been pending, counting from this tick if it was not.
Waited(r) == IF state.pending[r] = No THEN 0 ELSE state.pending[r]

\* The condition holds, but not yet for as long as it must.
ConditionPending(r) ==
    /\ Evaluated(r) /\ r \in above
    /\ Waited(r) < For[r]
    /\ Leave(r, state.firing[r], Waited(r))
    /\ UNCHANGED <<messages, found, faults>>

\* Variant: an alert begins without a message.
ConditionTrue_Silent(r) ==
    /\ Evaluated(r) /\ r \in above
    /\ Waited(r) >= For[r]
    /\ UNCHANGED messages
    /\ Leave(r, TRUE, Waited(r))
    /\ UNCHANGED <<found, faults>>

ConditionTrue(r) ==
    /\ Evaluated(r) /\ r \in above
    /\ Waited(r) >= For[r]
    /\ IF state.firing[r] THEN UNCHANGED messages ELSE Send(r, "firing")
    /\ Leave(r, TRUE, Waited(r))
    /\ UNCHANGED <<found, faults>>

-----------------------------------------------------------------------------
\* Rules whose new state is not the one in the store.
Unsaved == {r \in Rules : \/ state.firing[r] # firing[r]
                          \/ state.pending[r] # pending[r]}

\* Nothing is left of a result that was lost.
Settled(r) ==
    /\ state.firing[r] = (last[r].status = "firing")
    /\ state.pending[r] = No

\* Variant: what the worker has in memory outlives the tick.
EndTick_KeepsState ==
    /\ busy' = FALSE
    /\ todo' = {}
    /\ config' = [enabled |-> {}, silenced |-> {}]
    /\ UNCHANGED <<settings, state, messages, found>>

EndTick ==
    /\ busy' = FALSE
    /\ todo' = {}
    /\ config' = [enabled |-> {}, silenced |-> {}]
    /\ state' = NewState
    /\ UNCHANGED <<settings, messages, found>>

SaveState ==
    /\ busy /\ todo = {}
    /\ firing' = state.firing /\ pending' = state.pending
    /\ lapsed' = {r \in lapsed : ~Settled(r)}
    /\ EndTick
    /\ UNCHANGED faults

\* The worker ignores that its state could not be saved.
SaveFails ==
    /\ busy /\ todo = {}
    /\ Fault
    /\ lapsed' = lapsed \cup Unsaved
    /\ EndTick
    /\ UNCHANGED <<firing, pending>>

\* The process dies in the middle of a tick.
Restart ==
    /\ busy
    /\ Fault
    /\ lapsed' = lapsed \cup Unsaved
    /\ EndTick
    /\ UNCHANGED <<firing, pending>>

Evaluate(r) ==
    \/ SkipRule(r) \/ ConditionFalse(r) \/ ConditionPending(r) \/ ConditionTrue(r)

Worker ==
    \/ \E d \in 1 .. MaxGap : StartTick(d)
    \/ \E r \in Rules : Evaluate(r)
    \/ SaveState \/ SaveFails

Next == Configure \/ Worker \/ Restart

Spec == Init /\ [][Next]_vars

\* The goroutine keeps ticking; nothing is assumed of the rest.
FairSpec == Spec /\ WF_vars(Worker)

-----------------------------------------------------------------------------
\* The messages sent about a rule say "firing" and "resolved" in turn, unless a
\* result of the rule was lost between a message and the save that should have
\* recorded it (opsTickAlerts saves once, after all rules); and every failure or
\* restart makes the worker repeat at most one message about a rule.
MessagesAlternate ==
    \A r \in Rules :
        /\ last[r].again => last[r].lapsed
        /\ repeats[r] =< faults

\* No rule fires whose condition was found false in the last For minutes, again
\* unless that result was lost (the pendingSince of the rule).
FiresOnlyIfHeld ==
    \A r \in Rules : last[r].status = "firing" => last[r].held \/ last[r].lapsed

\* What the invariants rest on: the state the worker goes by, its own or the
\* one in the store, knows what was said and for how long a rule has held.
StateTrue ==
    \A r \in Rules :
        /\ r \notin lapsed /\ (~busy \/ r \in todo) =>
             /\ firing[r] = (last[r].status = "firing")
             /\ pending[r] = No \/ pending[r] =< found[r]
        /\ r \notin lapsed /\ busy =>
             /\ state.firing[r] = (last[r].status = "firing")
             /\ state.pending[r] = No \/ state.pending[r] =< found[r]

\* The second part of MessagesAlternate: the state the worker goes by owes a
\* message where it differs from what was said, and each failure lets it owe one.
Owes(r) ==
    IF (IF busy THEN state.firing[r] ELSE firing[r]) = (last[r].status = "firing")
    THEN 0 ELSE 1

RepeatsPaid == \A r \in Rules : repeats[r] + Owes(r) =< faults

Watched(r) == r \in enabled \ silenced

\* The message was sent, and lost: the worker has set its state all the same and
\* does not send it again.
Missed(r, status) == last[r].status = status /\ last[r].lost

\* A condition that holds and goes on holding comes to be announced to those who
\* watch the channels (the tick every minute), or its only message was lost.  If
\* a result was lost the rule may count as announced.
AlertBegins ==
    \A r \in Rules :
        <>[](Watched(r) /\ r \in above)
            => <>[](heard[r] = "firing" \/ Missed(r, "firing") \/ r \in lapsed)

\* And one that no longer holds comes to be withdrawn, with the same exceptions.
AlertEnds ==
    \A r \in Rules :
        <>[](Watched(r) /\ r \notin above)
            => <>[](heard[r] # "firing" \/ Missed(r, "resolved") \/ r \in lapsed)
=============================================================================
