--------------------------- MODULE OpsAlertsProofs ---------------------------
(* Theorems about the alert rules, for every set of rules, every hold time *)
(* and every bound on faults and on the time between ticks.                *)
EXTENDS OpsAlerts, TLAPS

USE AlertsAssumption DEF AlertsAssumption

LEMMA OlderType ==
    ASSUME NEW age \in Age \cup {No}, NEW d \in 1 .. MaxGap
    PROVE  /\ Older(age, d) \in Age \cup {No}
           /\ age \in Age => Older(age, d) \in Age
           /\ Older(age, d) = No <=> age = No
  BY DEF Older, Age

\* Ages keep their order when time passes.
LEMMA OlderMonotone ==
    ASSUME NEW x \in Age, NEW y \in Age, x =< y, NEW d \in 1 .. MaxGap
    PROVE  Older(x, d) =< Older(y, d)
  BY DEF Older, Age

LEMMA AllOlderType ==
    ASSUME NEW d \in 1 .. MaxGap
    PROVE  /\ \A ages \in [Rules -> Age \cup {No}] :
                AllOlder(ages, d) \in [Rules -> Age \cup {No}]
           /\ \A ages \in [Rules -> Age] : AllOlder(ages, d) \in [Rules -> Age]
  BY OlderType DEF AllOlder

LEMMA NewStateType ==
    NewState \in [firing: [Rules -> BOOLEAN], pending: [Rules -> Age \cup {No}]]
  BY DEF NewState

LEMMA InitType == Init => TypeOK
<1> SUFFICES ASSUME Init PROVE TypeOK
  OBVIOUS
<1>1. NoMessage \in Message
  BY DEF NoMessage, Message, Statuses
<1>2. last \in [Rules -> Message]
  BY <1>1 DEF Init
<1>3. firing \in [Rules -> BOOLEAN] /\ pending \in [Rules -> Age \cup {No}]
  BY DEF Init, NewState
<1>4. found \in [Rules -> Age]
  BY DEF Init, Age
<1>5. config \in [enabled : SUBSET Rules, silenced : SUBSET Rules]
  BY DEF Init
<1>6. state \in [firing: [Rules -> BOOLEAN], pending: [Rules -> Age \cup {No}]]
  BY NewStateType DEF Init
<1>7. /\ enabled \subseteq Rules /\ silenced \subseteq Rules /\ above \subseteq Rules
      /\ todo \subseteq Rules /\ lapsed \subseteq Rules
  BY DEF Init
<1>8. busy \in BOOLEAN
  BY DEF Init
<1>9. faults \in 0 .. MaxFaults
  BY DEF Init
<1>10. todo = {} /\ state = NewState
  BY DEF Init
<1>11. heard \in [Rules -> Statuses] /\ repeats \in [Rules -> 0 .. MaxFaults + 1]
  BY DEF Init, Statuses
<1> QED
  BY <1>11, <1>2, <1>3, <1>4, <1>5, <1>6, <1>7, <1>8, <1>9, <1>10 DEF TypeOK

\* What Leave does not touch keeps its type.
LEMMA LeaveKeeps ==
    ASSUME TypeOK, NEW r, NEW f, NEW p, Leave(r, f, p)
    PROVE  /\ enabled' \subseteq Rules /\ silenced' \subseteq Rules
           /\ above' \subseteq Rules
           /\ firing' \in [Rules -> BOOLEAN]
           /\ pending' \in [Rules -> Age \cup {No}]
           /\ busy' \in BOOLEAN
           /\ config' \in [enabled: SUBSET Rules, silenced: SUBSET Rules]
           /\ lapsed' \subseteq Rules
  BY DEF Leave, settings, TypeOK

LEMMA LeaveType ==
    ASSUME TypeOK, NEW r \in Rules, NEW f \in BOOLEAN, NEW p \in Age \cup {No},
           Leave(r, f, p)
    PROVE  /\ todo' \subseteq Rules /\ busy' = busy /\ lapsed' = lapsed
           /\ state' \in [firing: [Rules -> BOOLEAN],
                          pending: [Rules -> Age \cup {No}]]
           /\ state'.firing[r] = f /\ state'.pending[r] = p
           /\ \A o \in Rules \ {r} : /\ state'.firing[o] = state.firing[o]
                                     /\ state'.pending[o] = state.pending[o]
  BY DEF Leave, TypeOK

MessagesType ==
    /\ last \in [Rules -> Message]
    /\ heard \in [Rules -> Statuses]
    /\ repeats \in [Rules -> 0 .. MaxFaults + 1]

LEMMA SendType ==
    ASSUME TypeOK, NEW r \in Rules, NEW status \in {"firing", "resolved"},
           Send(r, status)
    PROVE  /\ MessagesType'
           /\ last'[r].status = status
           /\ last'[r].again <=> SaidAgain(r, status)
           /\ last'[r].held <=> found[r] >= For[r]
           /\ last'[r].lapsed <=> r \in lapsed
           /\ repeats'[r] =< repeats[r] + (IF SaidAgain(r, status) THEN 1 ELSE 0)
           /\ \A o \in Rules \ {r} : last'[o] = last[o] /\ repeats'[o] = repeats[o]
  <1>1. PICK lost \in BOOLEAN :
          /\ last' = [last EXCEPT ![r] = [status |-> status,
                                          lost |-> lost,
                                          again |-> SaidAgain(r, status),
                                          held |-> found[r] >= For[r],
                                          lapsed |-> r \in lapsed]]
          /\ heard' = IF lost THEN heard ELSE [heard EXCEPT ![r] = status]
          /\ repeats' = IF SaidAgain(r, status) /\ repeats[r] =< MaxFaults
                        THEN [repeats EXCEPT ![r] = @ + 1] ELSE repeats
    BY DEF Send
  <1> DEFINE said == [status |-> status,
                      lost |-> lost,
                      again |-> SaidAgain(r, status),
                      held |-> found[r] >= For[r],
                      lapsed |-> r \in lapsed]
  <1>2. said \in Message
    BY DEF Message, Statuses, SaidAgain
  <1>3. PICK m \in Message : m = said
    BY <1>2
  <1>4. last' = [last EXCEPT ![r] = m]
    BY <1>1, <1>3
  <1>5. /\ last' \in [Rules -> Message] /\ last'[r] = m
        /\ \A o \in Rules \ {r} : last'[o] = last[o]
    BY <1>4 DEF TypeOK
  <1>6. heard' \in [Rules -> Statuses]
    BY <1>1 DEF TypeOK, Statuses
  <1>7. /\ repeats' \in [Rules -> 0 .. MaxFaults + 1]
        /\ repeats'[r] =< repeats[r] + (IF SaidAgain(r, status) THEN 1 ELSE 0)
        /\ \A o \in Rules \ {r} : repeats'[o] = repeats[o]
    <2>1. CASE SaidAgain(r, status) /\ repeats[r] =< MaxFaults
      BY <1>1, <2>1 DEF TypeOK
    <2>2. CASE ~(SaidAgain(r, status) /\ repeats[r] =< MaxFaults)
      BY <1>1, <2>2 DEF TypeOK
    <2> QED
      BY <2>1, <2>2
  <1> HIDE DEF said
  <1>8. said.again <=> SaidAgain(r, status)
    BY DEF said
  <1>9. /\ said.status = status
        /\ said.held <=> found[r] >= For[r]
        /\ said.lapsed <=> r \in lapsed
    BY DEF said
  <1> QED
    BY <1>3, <1>5, <1>6, <1>7, <1>8, <1>9 DEF MessagesType

LEMMA WaitedType ==
    ASSUME TypeOK, NEW r \in Rules PROVE Waited(r) \in Age
  BY DEF Waited, TypeOK, Age

LEMMA EvaluateType ==
    ASSUME TypeOK, NEW r \in Rules, Evaluate(r) PROVE TypeOK'
  <1> DEFINE Kept == /\ enabled' \subseteq Rules /\ silenced' \subseteq Rules
                     /\ above' \subseteq Rules
                     /\ firing' \in [Rules -> BOOLEAN]
                     /\ pending' \in [Rules -> Age \cup {No}]
                     /\ busy' = TRUE /\ todo' \subseteq Rules
                     /\ config' \in [enabled: SUBSET Rules, silenced: SUBSET Rules]
                     /\ lapsed' \subseteq Rules
                     /\ state' \in [firing: [Rules -> BOOLEAN],
                                    pending: [Rules -> Age \cup {No}]]
  <1>1. /\ state.firing[r] \in BOOLEAN
        /\ state.pending[r] \in Age \cup {No}
        /\ 0 \in Age
    BY DEF TypeOK, Age
  <1>2. [found EXCEPT ![r] = 0] \in [Rules -> Age]
    BY <1>1 DEF TypeOK
  <1>4. busy = TRUE
    BY DEF Evaluate, SkipRule, ConditionFalse, ConditionPending, ConditionTrue,
           Evaluated, TypeOK
  <1>5. CASE SkipRule(r)
    <2>1. PICK p \in Age \cup {No} : Leave(r, state.firing[r], p)
      BY <1>1, <1>5 DEF SkipRule
    <2>2. UNCHANGED <<messages, found, faults>>
      BY <1>5 DEF SkipRule
    <2>3. Kept
      BY <1>1, <1>4, <2>1, LeaveType, LeaveKeeps
    <2> QED
      BY <2>2, <2>3 DEF TypeOK, messages
  <1>6. CASE ConditionFalse(r)
    <2>1. MessagesType'
      BY <1>6, SendType DEF ConditionFalse, TypeOK, MessagesType, messages
    <2>2. faults' \in 0 .. MaxFaults
      BY <1>6 DEF ConditionFalse, Fault, TypeOK
    <2>3. /\ Leave(r, FALSE, No)
          /\ found' = [found EXCEPT ![r] = 0]
      BY <1>6 DEF ConditionFalse
    <2>4. Kept
      BY <1>4, <2>3, LeaveType, LeaveKeeps
    <2> QED
      BY <1>2, <2>1, <2>2, <2>3, <2>4 DEF TypeOK, MessagesType
  <1>7. CASE ConditionPending(r)
    <2>1. /\ Leave(r, state.firing[r], Waited(r))
          /\ UNCHANGED <<messages, found, faults>>
      BY <1>7 DEF ConditionPending
    <2>2. Kept
      BY <1>1, <1>4, <2>1, LeaveType, LeaveKeeps, WaitedType
    <2> QED
      BY <2>1, <2>2 DEF TypeOK, messages
  <1>8. CASE ConditionTrue(r)
    <2>1. MessagesType'
      BY <1>8, SendType DEF ConditionTrue, TypeOK, MessagesType, messages
    <2>2. /\ Leave(r, TRUE, Waited(r))
          /\ UNCHANGED <<found, faults>>
      BY <1>8 DEF ConditionTrue
    <2>3. Kept
      BY <1>4, <2>2, LeaveType, LeaveKeeps, WaitedType
    <2> QED
      BY <2>1, <2>2, <2>3 DEF TypeOK, MessagesType
  <1> QED
    BY <1>5, <1>6, <1>7, <1>8 DEF Evaluate

LEMMA StartTickType ==
    ASSUME TypeOK, NEW d \in 1 .. MaxGap, StartTick(d) PROVE TypeOK'
  <1>1. pending' \in [Rules -> Age \cup {No}]
    BY AllOlderType DEF StartTick, TypeOK
  <1>2. found' \in [Rules -> Age]
    BY AllOlderType DEF StartTick, TypeOK
  <1>3. state' \in [firing: [Rules -> BOOLEAN], pending: [Rules -> Age \cup {No}]]
    BY <1>1, NewStateType DEF StartTick, TypeOK
  <1>4. lapsed' \subseteq Rules /\ faults' \in 0 .. MaxFaults
    BY DEF StartTick, TypeOK, Fault
  <1> QED
    BY <1>1, <1>2, <1>3, <1>4 DEF StartTick, TypeOK, settings, messages

LEMMA EndTickType ==
    ASSUME TypeOK, SaveState \/ SaveFails \/ Restart PROVE TypeOK'
  <1>1. /\ firing' \in [Rules -> BOOLEAN]
        /\ pending' \in [Rules -> Age \cup {No}]
        /\ lapsed' \subseteq Rules
        /\ faults' \in 0 .. MaxFaults
    BY DEF SaveState, SaveFails, Restart, Fault, Unsaved, TypeOK
  <1>2. EndTick
    BY DEF SaveState, SaveFails, Restart
  <1> QED
    BY <1>1, <1>2, NewStateType DEF EndTick, TypeOK, settings, messages

LEMMA NextType == TypeOK /\ [Next]_vars => TypeOK'
<1> SUFFICES ASSUME TypeOK, [Next]_vars PROVE TypeOK'
  OBVIOUS
<1>1. CASE Configure
  BY <1>1 DEF Configure, TypeOK, messages
<1>2. CASE UNCHANGED vars
  BY <1>2 DEF vars, TypeOK, messages
<1> QED
  BY <1>1, <1>2, EvaluateType, StartTickType, EndTickType DEF Next, Worker

\* Rules, alert state and messages keep their types.
THEOREM TypeCorrect == Spec => []TypeOK
  BY InitType, NextType, PTL DEF Spec

-----------------------------------------------------------------------------
Truthful == StateTrue /\ MessagesAlternate /\ FiresOnlyIfHeld /\ RepeatsPaid

LEMMA InitTruthful == Init => Truthful
<1> SUFFICES ASSUME Init PROVE Truthful
  OBVIOUS
<1>1. \A r \in Rules : firing[r] = FALSE /\ pending[r] = No
  BY DEF Init, NewState
<1>2. \A r \in Rules : last[r].status = "none" /\ last[r].again = FALSE
  BY DEF Init, NoMessage
<1>3. StateTrue
  BY <1>1, <1>2 DEF Init, StateTrue
<1>4. RepeatsPaid
  <2>1. busy = FALSE /\ faults = 0 /\ \A r \in Rules : repeats[r] = 0
    BY DEF Init
  <2>2. \A r \in Rules : Owes(r) = 0
    BY <1>1, <1>2, <2>1 DEF Owes
  <2>3. ASSUME NEW r \in Rules PROVE repeats[r] + Owes(r) =< faults
    <3>1. repeats[r] = 0 /\ Owes(r) = 0 /\ faults = 0
      BY <2>1, <2>2
    <3> QED
      BY <3>1
  <2> QED
    BY <2>3 DEF RepeatsPaid
<1>5. MessagesAlternate
  <2>1. faults = 0 /\ \A r \in Rules : repeats[r] = 0
    BY DEF Init
  <2>2. ASSUME NEW r \in Rules PROVE repeats[r] =< faults
    <3>1. repeats[r] = 0 /\ faults = 0
      BY <2>1
    <3> QED
      BY <3>1
  <2> QED
    BY <1>2, <2>2 DEF MessagesAlternate
<1> QED
  BY <1>2, <1>3, <1>4, <1>5 DEF Truthful, FiresOnlyIfHeld

\* A rule is evaluated: what the worker goes by stays true of every rule.
LEMMA LeaveTruthful ==
    ASSUME TypeOK, Truthful, NEW r \in Rules, r \in todo,
           NEW f \in BOOLEAN, NEW p \in Age \cup {No}, Leave(r, f, p),
           \A o \in Rules \ {r} : last'[o] = last[o] /\ found'[o] = found[o],
           r \notin lapsed => /\ f = (last'[r].status = "firing")
                              /\ p = No \/ p =< found'[r],
           last'[r].again => last'[r].lapsed,
           last'[r].status = "firing" => last'[r].held \/ last'[r].lapsed,
           MessagesType', Fault \/ UNCHANGED faults,
           \A o \in Rules \ {r} : repeats'[o] = repeats[o],
           repeats'[r] + (IF f = (last'[r].status = "firing") THEN 0 ELSE 1)
             =< repeats[r] + Owes(r)
    PROVE  Truthful'
  <1>1. /\ lapsed' = lapsed /\ todo' = todo \ {r}
        /\ firing' = firing /\ pending' = pending
        /\ busy' = busy /\ busy
    BY DEF Leave, TypeOK
  <1>2. /\ state'.firing[r] = f /\ state'.pending[r] = p
        /\ \A o \in Rules \ {r} : /\ state'.firing[o] = state.firing[o]
                                  /\ state'.pending[o] = state.pending[o]
    BY LeaveType
  <1>3. StateTrue'
    <2> SUFFICES ASSUME NEW o \in Rules, o \notin lapsed
                 PROVE  /\ o \in todo' =>
                             /\ firing[o] = (last'[o].status = "firing")
                             /\ pending[o] = No \/ pending[o] =< found'[o]
                        /\ state'.firing[o] = (last'[o].status = "firing")
                        /\ state'.pending[o] = No \/ state'.pending[o] =< found'[o]
      BY <1>1 DEF StateTrue
    <2>1. CASE o = r
      BY <1>1, <1>2, <2>1
    <2>2. CASE o # r
      BY <1>1, <1>2, <2>2 DEF Truthful, StateTrue
    <2> QED
      BY <2>1, <2>2
  <1>4. RepeatsPaid'
    <2>1. faults' \in Nat /\ faults \in Nat /\ faults =< faults'
      BY DEF Fault, TypeOK
    <2>2. ASSUME NEW o \in Rules PROVE repeats'[o] + Owes(o)' =< repeats[o] + Owes(o)
      <3>1. CASE o = r
        BY <1>1, <1>2, <3>1 DEF Owes
      <3>2. CASE o # r
        BY <1>1, <1>2, <3>2 DEF Owes, TypeOK
      <3> QED
        BY <3>1, <3>2
    <2>3. ASSUME NEW o \in Rules
          PROVE  /\ Owes(o) \in 0 .. 1 /\ Owes(o)' \in 0 .. 1
                 /\ repeats[o] \in Nat /\ repeats'[o] \in Nat
      BY DEF Owes, TypeOK, MessagesType
    <2> QED
      BY <2>1, <2>2, <2>3 DEF Truthful, RepeatsPaid
  <1>5. MessagesAlternate'
    <2>1. \A o \in Rules : repeats'[o] =< faults'
      <3>1. SUFFICES ASSUME NEW o \in Rules PROVE repeats'[o] =< faults'
        OBVIOUS
      <3>2. /\ Owes(o)' \in 0 .. 1 /\ repeats'[o] \in Nat /\ faults' \in Nat
            /\ repeats'[o] + Owes(o)' =< faults'
        BY <1>4 DEF RepeatsPaid, Owes, MessagesType, Fault, TypeOK
      <3> QED
        BY <3>2
    <2> QED
      BY <2>1 DEF Truthful, MessagesAlternate
  <1>6. FiresOnlyIfHeld'
    BY DEF Truthful, FiresOnlyIfHeld
  <1> QED
    BY <1>3, <1>4, <1>5, <1>6 DEF Truthful

LEMMA EvaluateTruthful ==
    ASSUME TypeOK, Truthful, NEW r \in Rules, Evaluate(r) PROVE Truthful'
  <1>1. /\ state.firing[r] \in BOOLEAN
        /\ state.pending[r] \in Age \cup {No}
    BY DEF TypeOK
  <1>2. r \in todo
    BY DEF Evaluate, SkipRule, ConditionFalse, ConditionPending, ConditionTrue,
           Evaluated
  <1>3. /\ busy
        /\ r \notin lapsed => /\ state.firing[r] = (last[r].status = "firing")
                              /\ \/ state.pending[r] = No
                                 \/ state.pending[r] =< found[r]
    BY <1>2 DEF Truthful, StateTrue, TypeOK
  <1>4. /\ last[r].again => last[r].lapsed
        /\ last[r].status = "firing" => last[r].held \/ last[r].lapsed
    BY DEF Truthful, MessagesAlternate, FiresOnlyIfHeld
  <1>5. found[r] \in Age /\ For[r] \in 1 .. Longest
    BY DEF TypeOK
  <1>10. /\ Owes(r) = IF state.firing[r] = (last[r].status = "firing") THEN 0 ELSE 1
         /\ repeats[r] \in Nat
         /\ UNCHANGED messages => MessagesType' /\ UNCHANGED <<last, repeats>>
    BY <1>3 DEF Owes, TypeOK, MessagesType, messages
  <1>6. CASE SkipRule(r)
    <2>1. PICK p \in Age \cup {No} :
             Leave(r, state.firing[r], p) /\ (p = state.pending[r] \/ p = No)
      BY <1>1, <1>6 DEF SkipRule
    <2>2. UNCHANGED messages /\ found' = found /\ UNCHANGED faults
      BY <1>6 DEF SkipRule
    <2> QED
      BY <1>1, <1>2, <1>3, <1>4, <1>10, <2>1, <2>2, LeaveTruthful
  <1>7. CASE ConditionFalse(r)
    <2>1. /\ Leave(r, FALSE, No)
          /\ found' = [found EXCEPT ![r] = 0]
          /\ Fault \/ UNCHANGED faults
      BY <1>7 DEF ConditionFalse
    <2>2. \A o \in Rules \ {r} : found'[o] = found[o]
      BY <2>1 DEF TypeOK
    <2>3. CASE state.firing[r]
      <3>1. Send(r, "resolved")
        BY <1>7, <2>3 DEF ConditionFalse
      <3>2. /\ last'[r].status = "resolved"
            /\ last'[r].lapsed <=> r \in lapsed
            /\ last'[r].again <=> last[r].status # "firing"
            /\ \A o \in Rules \ {r} : last'[o] = last[o] /\ repeats'[o] = repeats[o]
            /\ MessagesType'
            /\ repeats'[r] =< repeats[r] + (IF last[r].status # "firing" THEN 1 ELSE 0)
        BY <3>1, SendType DEF SaidAgain
      <3>3. repeats'[r] + (IF FALSE = (last'[r].status = "firing") THEN 0 ELSE 1)
              =< repeats[r] + Owes(r)
        <4>1. (IF FALSE = (last'[r].status = "firing") THEN 0 ELSE 1) = 0
          BY <3>2
        <4>2. Owes(r) = IF last[r].status # "firing" THEN 1 ELSE 0
          BY <1>1, <1>10, <2>3
        <4>3. repeats'[r] \in Nat
          BY <3>2 DEF MessagesType
        <4> QED
          BY <1>10, <3>2, <4>1, <4>2, <4>3
      <3> QED
        BY <1>2, <1>3, <2>1, <2>2, <2>3, <3>2, <3>3, LeaveTruthful
    <2>4. CASE ~state.firing[r]
      <3>1. UNCHANGED messages
        BY <1>7, <2>4 DEF ConditionFalse
      <3>2. repeats'[r] + (IF FALSE = (last'[r].status = "firing") THEN 0 ELSE 1)
              =< repeats[r] + Owes(r)
        BY <1>1, <1>10, <2>4, <3>1
      <3> QED
        BY <1>1, <1>2, <1>3, <1>4, <1>10, <2>1, <2>2, <2>4, <3>1, <3>2, LeaveTruthful
    <2> QED
      BY <2>3, <2>4
  <1>8. CASE ConditionPending(r)
    <2>1. /\ Leave(r, state.firing[r], Waited(r))
          /\ UNCHANGED messages /\ found' = found /\ UNCHANGED faults
      BY <1>8 DEF ConditionPending
    <2>2. r \notin lapsed => Waited(r) =< found[r]
      BY <1>3, <1>5 DEF Waited, Age
    <2> QED
      BY <1>1, <1>2, <1>3, <1>4, <1>10, <2>1, <2>2, WaitedType, LeaveTruthful
  <1>9. CASE ConditionTrue(r)
    <2>1. Leave(r, TRUE, Waited(r)) /\ found' = found /\ Waited(r) >= For[r]
          /\ UNCHANGED faults
      BY <1>9 DEF ConditionTrue
    <2>2. r \notin lapsed => Waited(r) =< found[r]
      BY <1>3, <1>5 DEF Waited, Age
    <2>3. CASE ~state.firing[r]
      <3>1. Send(r, "firing")
        BY <1>9, <2>3 DEF ConditionTrue
      <3>2. /\ last'[r].status = "firing"
            /\ last'[r].lapsed <=> r \in lapsed
            /\ last'[r].again <=> last[r].status = "firing"
            /\ last'[r].held <=> found[r] >= For[r]
            /\ \A o \in Rules \ {r} : last'[o] = last[o] /\ repeats'[o] = repeats[o]
            /\ MessagesType'
            /\ repeats'[r] =< repeats[r] + (IF last[r].status = "firing" THEN 1 ELSE 0)
        BY <3>1, SendType DEF SaidAgain
      <3>4. repeats'[r] + (IF TRUE = (last'[r].status = "firing") THEN 0 ELSE 1)
              =< repeats[r] + Owes(r)
        <4>1. (IF TRUE = (last'[r].status = "firing") THEN 0 ELSE 1) = 0
          BY <3>2
        <4>2. Owes(r) = IF last[r].status = "firing" THEN 1 ELSE 0
          BY <1>1, <1>10, <2>3
        <4>3. repeats'[r] \in Nat
          BY <3>2 DEF MessagesType
        <4> QED
          BY <1>10, <3>2, <4>1, <4>2, <4>3
      <3>3. r \notin lapsed => last'[r].held
        BY <1>5, <2>1, <2>2, <3>2, WaitedType DEF Age
      <3> QED
        BY <1>2, <1>3, <2>1, <2>2, <2>3, <3>2, <3>3, <3>4, WaitedType, LeaveTruthful
    <2>4. CASE state.firing[r]
      <3>1. UNCHANGED messages
        BY <1>9, <2>4 DEF ConditionTrue
      <3>2. repeats'[r] + (IF TRUE = (last'[r].status = "firing") THEN 0 ELSE 1)
              =< repeats[r] + Owes(r)
        <4>1. (IF TRUE = (last'[r].status = "firing") THEN 0 ELSE 1) = Owes(r)
          BY <1>1, <1>10, <2>4, <3>1
        <4>2. repeats'[r] = repeats[r] /\ Owes(r) \in 0 .. 1
          BY <1>10, <3>1
        <4> QED
          BY <1>10, <4>1, <4>2
      <3> QED
        BY <1>2, <1>3, <1>4, <1>10, <2>1, <2>2, <2>4, <3>1, <3>2, WaitedType,
           LeaveTruthful
    <2> QED
      BY <2>3, <2>4
  <1> QED
    BY <1>6, <1>7, <1>8, <1>9 DEF Evaluate

LEMMA OwesType ==
    ASSUME TypeOK, NEW r \in Rules PROVE Owes(r) \in 0 .. 1 /\ repeats[r] \in Nat
  BY DEF TypeOK, Owes

\* Each failure lets the worker owe one message about a rule, and no more.
LEMMA FaultPaid ==
    ASSUME TypeOK, RepeatsPaid, faults' = faults + 1, UNCHANGED repeats
    PROVE  RepeatsPaid'
<1>1. faults \in Nat
  BY DEF TypeOK
<1>2. ASSUME NEW r \in Rules PROVE repeats[r] + Owes(r)' =< faults + 1
  <2>1. Owes(r)' \in 0 .. 1
    BY DEF Owes
  <2>2. repeats[r] + Owes(r) =< faults
    BY DEF RepeatsPaid
  <2> QED
    BY <1>1, <2>1, <2>2, OwesType
<1> QED
  BY <1>2 DEF RepeatsPaid

LEMMA PaidEnough == TypeOK /\ RepeatsPaid => \A r \in Rules : repeats[r] =< faults
<1> SUFFICES ASSUME TypeOK, RepeatsPaid, NEW r \in Rules PROVE repeats[r] =< faults
  OBVIOUS
<1>1. repeats[r] + Owes(r) =< faults /\ faults \in Nat
  BY DEF RepeatsPaid, TypeOK
<1> QED
  BY <1>1, OwesType

LEMMA StartTickTruthful ==
    ASSUME TypeOK, Truthful, NEW d \in 1 .. MaxGap, StartTick(d) PROVE Truthful'
  <1>1. \A r \in Rules : pending'[r] = Older(pending[r], d)
                         /\ found'[r] = Older(found[r], d)
    BY DEF StartTick, AllOlder
  <1>2. /\ firing' = firing /\ busy' = TRUE /\ todo' = Rules
        /\ last' = last /\ repeats' = repeats
        /\ lapsed \subseteq lapsed' /\ ~busy
    BY DEF StartTick, messages
  <1>3. \A r \in Rules \ lapsed :
           /\ firing[r] = (last[r].status = "firing")
           /\ pending[r] = No \/ pending[r] =< found[r]
    BY DEF StartTick, Truthful, StateTrue
  <1>4. \A r \in Rules \ lapsed : pending'[r] = No \/ pending'[r] =< found'[r]
    <2> SUFFICES ASSUME NEW r \in Rules \ lapsed
                 PROVE  pending'[r] = No \/ pending'[r] =< found'[r]
      OBVIOUS
    <2>1. CASE pending[r] = No
      BY <1>1, <2>1 DEF Older
    <2>2. CASE pending[r] # No
      BY <1>1, <1>3, <2>2, OlderMonotone DEF TypeOK
    <2> QED
      BY <2>1, <2>2
  <1>5. \A r \in Rules \ lapsed' :
           /\ state'.firing[r] = firing[r]
           /\ state'.pending[r] = pending'[r] \/ state'.pending[r] = No
    <2>1. CASE state' = [firing |-> firing, pending |-> pending']
      BY <2>1
    <2>2. CASE /\ state' = NewState
               /\ lapsed' = lapsed \cup {r \in Rules : firing[r] \/ pending[r] # No}
      BY <2>2 DEF NewState, TypeOK
    <2> QED
      BY <2>1, <2>2 DEF StartTick
  <1>6. StateTrue'
    BY <1>2, <1>3, <1>4, <1>5 DEF StateTrue
  <1>7. RepeatsPaid'
    <2>1. \/ faults' = faults /\ state'.firing = firing
          \/ faults' = faults + 1
      BY DEF StartTick, Fault
    <2> QED
      BY <1>2, <2>1, FaultPaid DEF Truthful, RepeatsPaid, Owes
  <1>8. \A r \in Rules : repeats[r] =< faults'
    <2>1. faults' = faults \/ faults' = faults + 1
      BY DEF StartTick, Fault
    <2> QED
      BY <2>1, PaidEnough DEF Truthful, TypeOK
  <1> QED
    BY <1>2, <1>6, <1>7, <1>8 DEF Truthful, MessagesAlternate, FiresOnlyIfHeld

LEMMA EndTickTruthful ==
    ASSUME TypeOK, Truthful, SaveState \/ SaveFails \/ Restart PROVE Truthful'
  <1>1. /\ busy' = FALSE /\ todo' = {} /\ found' = found /\ busy
        /\ last' = last /\ repeats' = repeats
    BY DEF SaveState, SaveFails, Restart, EndTick, messages
  <1>2. \A r \in Rules \ lapsed :
           /\ state.firing[r] = (last[r].status = "firing")
           /\ state.pending[r] = No \/ state.pending[r] =< found[r]
    BY <1>1 DEF Truthful, StateTrue
  <1>3. \A r \in Rules \ lapsed' :
           /\ firing'[r] = (last[r].status = "firing")
           /\ pending'[r] = No \/ pending'[r] =< found[r]
    <2>1. CASE SaveState
      BY <1>2, <2>1 DEF SaveState, Settled
    <2>2. CASE SaveFails \/ Restart
      BY <1>2, <2>2 DEF SaveFails, Restart, Unsaved
    <2> QED
      BY <2>1, <2>2
  <1>4. StateTrue'
    BY <1>1, <1>3 DEF StateTrue
  <1>5. RepeatsPaid'
    <2>1. \/ faults' = faults /\ firing' = state.firing
          \/ faults' = faults + 1
      BY DEF SaveState, SaveFails, Restart, Fault
    <2> QED
      BY <1>1, <2>1, FaultPaid DEF Truthful, RepeatsPaid, Owes
  <1>6. \A r \in Rules : repeats[r] =< faults'
    <2>1. faults' = faults \/ faults' = faults + 1
      BY DEF SaveState, SaveFails, Restart, Fault
    <2> QED
      BY <2>1, PaidEnough DEF Truthful, TypeOK
  <1> QED
    BY <1>1, <1>4, <1>5, <1>6 DEF Truthful, MessagesAlternate, FiresOnlyIfHeld

LEMMA NextTruthful == TypeOK /\ Truthful /\ [Next]_vars => Truthful'
<1> SUFFICES ASSUME TypeOK, Truthful, [Next]_vars PROVE Truthful'
  OBVIOUS
<1>1. CASE Configure \/ UNCHANGED vars
  BY <1>1
  DEF Configure, vars, messages, Truthful, StateTrue, MessagesAlternate,
      FiresOnlyIfHeld, RepeatsPaid, Owes
<1> QED
  BY <1>1, EvaluateTruthful, StartTickTruthful, EndTickTruthful DEF Next, Worker

\* The messages about a rule say "firing" and "resolved" in turn, and every
\* failure or restart is good for at most one repetition.
THEOREM MessagesAlternateCorrect == Spec => []MessagesAlternate
<1>1. Truthful => MessagesAlternate
  BY DEF Truthful
<1> QED
  BY <1>1, InitType, InitTruthful, NextType, NextTruthful, PTL DEF Spec

\* A rule fires only if no evaluation has found its condition false within the
\* time for which it must hold.
THEOREM FiresOnlyIfHeldCorrect == Spec => []FiresOnlyIfHeld
<1>1. Truthful => FiresOnlyIfHeld
  BY DEF Truthful
<1> QED
  BY <1>1, InitType, InitTruthful, NextType, NextTruthful, PTL DEF Spec
==============================================================================
