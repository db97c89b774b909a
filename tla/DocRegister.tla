----------------------------- MODULE DocRegister -----------------------------
(***************************************************************************)
(* What the documents' API promises to whoever reads a document, and the   *)
(* key-value store to whoever reads a key.  Each is a register whose       *)
(* readers may be answered with a value it had before, but only as long as *)
(* that value is kept somewhere: a value that has been forgotten comes     *)
(* back only when it is written again.                                     *)
(*                                                                         *)
(* DocsStore implements this module with the handlers, the table and Redis,*)
(* PlatformKV with a store and Redis; DocsEditor uses it as its server.    *)
(***************************************************************************)
CONSTANTS
    Docs,
    Values,     \* what a document can be, "no such document" among them
    Unread      \* no answer

ASSUME RegisterAssumption == Unread \notin Values

VARIABLES
    value,      \* what each document is
    answerable, \* the values its readers may be answered with
    answer      \* what this step answered a reader with

registerVars == <<value, answerable, answer>>

RegisterTypeOK ==
    /\ value \in [Docs -> Values]
    /\ answerable \in [Docs -> SUBSET Values]
    /\ answer \in Values \cup {Unread}

RegisterInit ==
    /\ value \in [Docs -> Values]
    /\ answerable = [d \in Docs |-> {value[d]}]
    /\ answer = Unread

\* Of what could be answered, S is kept, and the current value always is.
Keeps(d, S) == answerable' = [answerable EXCEPT ![d] = S \cup {value'[d]}]

Write(d, v) ==
    /\ value' = [value EXCEPT ![d] = v]
    /\ \E S \in SUBSET answerable[d] : Keeps(d, S)
    /\ answer' = Unread

Forget(d) ==
    /\ UNCHANGED value /\ answer' = Unread
    /\ \E S \in SUBSET answerable[d] : Keeps(d, S)

\* Nothing happens but that nobody is answered any more.
Quiet == answer' = Unread /\ UNCHANGED <<value, answerable>>

Answer(d) ==
    /\ answer' \in answerable[d]
    /\ UNCHANGED <<value, answerable>>

RegisterNext ==
    \/ Quiet
    \/ \E d \in Docs :
            \/ \E v \in Values : Write(d, v)
            \/ Forget(d) \/ Answer(d)

RegisterSpec == RegisterInit /\ [][RegisterNext]_registerVars

=============================================================================
