------------------------------ MODULE TeamUsage ------------------------------
(***************************************************************************)
(* What the plugin promises about the scope of Cursor usage: one team (or  *)
(* the personal account) is in force at a time; what is shown is scoped to *)
(* it, selecting another empties what is shown in the same step, and a     *)
(* reader is answered with usage of a team that was in force at some       *)
(* moment of its own request, or with no Cursor usage at all.              *)
(***************************************************************************)
CONSTANTS
    Selections,     \* the Cursor teams, and the personal account
    NoUsage,        \* a report without Cursor usage
    NoAnswer,       \* a request that is not answered yet
    Readers         \* clients that ask for a report

VARIABLES
    team,           \* the selection in force
    shown,          \* the Cursor scope of the published snapshot
    seen,           \* seen[r]: the selections in force since r asked
    answer          \* answer[r]: the Cursor scope r's request was answered with

vars == <<team, shown, seen, answer>>

Scopes == Selections \union {NoUsage}

Init ==
    /\ team \in Selections
    /\ shown = NoUsage
    /\ seen = [r \in Readers |-> {}]
    /\ answer = [r \in Readers |-> NoAnswer]

Waiting(r) == seen[r] # {} /\ answer[r] = NoAnswer

Select(t) ==
    /\ team' = t
    /\ shown' = NoUsage
    /\ seen' = [r \in Readers |->
                  IF Waiting(r) THEN seen[r] \union {t} ELSE seen[r]]
    /\ UNCHANGED answer

Show ==
    /\ shown' \in {team, NoUsage}
    /\ UNCHANGED <<team, seen, answer>>

Ask(r) ==
    /\ seen[r] = {}
    /\ seen' = [seen EXCEPT ![r] = {team}]
    /\ UNCHANGED <<team, shown, answer>>

Answer(r) ==
    /\ Waiting(r)
    /\ \E u \in seen[r] \union {NoUsage} : answer' = [answer EXCEPT ![r] = u]
    /\ UNCHANGED <<team, shown, seen>>

Done(r) ==
    /\ answer[r] # NoAnswer
    /\ seen' = [seen EXCEPT ![r] = {}]
    /\ answer' = [answer EXCEPT ![r] = NoAnswer]
    /\ UNCHANGED <<team, shown>>

\* A restart forgets what is shown and every request in flight. A selection
\* that was stored but not yet in force comes into force with it.
Restart(t) ==
    /\ team' = t
    /\ shown' = NoUsage
    /\ seen' = [r \in Readers |-> {}]
    /\ answer' = [r \in Readers |-> NoAnswer]

Next ==
    \/ \E t \in Selections : Select(t) \/ Restart(t)
    \/ Show
    \/ \E r \in Readers : Ask(r) \/ Answer(r) \/ Done(r)

Spec == Init /\ [][Next]_vars
==============================================================================
