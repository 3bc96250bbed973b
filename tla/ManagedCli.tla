------------------------------- MODULE ManagedCli -------------------------------
(***************************************************************************)
(* What ensure and update promise of the managed CodexBar CLI: releases    *)
(* become usable as a whole and in one step, whatever is killed; only a    *)
(* user's deletion takes one away; callers get the selected release while  *)
(* it is usable and else the pinned one; and a release is selected only    *)
(* after it has run.                                                       *)
(***************************************************************************)
CONSTANTS
    Versions,       \* releases of CodexBar
    Pinned,         \* the release the plugin was built for
    NoVersion,      \* nothing selected, nothing handed out
    Resolvers,      \* who asks for the CLI
    Deletable       \* the releases a user may delete

VARIABLES
    usable,         \* the releases that are installed
    selected,       \* the release an update selected last
    verified,       \* the releases that have run and reported themselves
    held            \* held[r]: the release r was given and has not run yet

vars == <<usable, selected, verified, held>>

Init ==
    /\ usable = {}
    /\ selected = NoVersion
    /\ verified = {}
    /\ held = [r \in Resolvers |-> NoVersion]

Resolved == IF selected \in usable THEN selected ELSE Pinned

Publish(v) ==
    /\ v \notin usable
    /\ usable' = usable \union {v}
    /\ UNCHANGED <<selected, verified, held>>

Give(r) ==
    /\ held[r] = NoVersion
    /\ Resolved \in usable
    /\ held' = [held EXCEPT ![r] = Resolved]
    /\ UNCHANGED <<usable, selected, verified>>

\* Nothing that was asked for is usable: the pinned release is installed.
PublishAndGive(r) ==
    /\ held[r] = NoVersion
    /\ Resolved = Pinned
    /\ Pinned \notin usable
    /\ usable' = usable \union {Pinned}
    /\ held' = [held EXCEPT ![r] = Pinned]
    /\ UNCHANGED <<selected, verified>>

Run(r) ==
    /\ held[r] \in usable \union Deletable
    /\ held' = [held EXCEPT ![r] = NoVersion]
    /\ UNCHANGED <<usable, selected, verified>>

Verify(v) ==
    /\ v \in usable
    /\ verified' = verified \union {v}
    /\ UNCHANGED <<usable, selected, held>>

Select(v) ==
    /\ v \in verified
    /\ v \in usable \union Deletable
    /\ selected' = v
    /\ UNCHANGED <<usable, verified, held>>

Lose(v) ==
    /\ v \in Deletable
    /\ usable' = usable \ {v}
    /\ UNCHANGED <<selected, verified, held>>

\* A restart forgets only who was given what.
Restart ==
    /\ held' = [r \in Resolvers |-> NoVersion]
    /\ UNCHANGED <<usable, selected, verified>>

Next ==
    \/ \E r \in Resolvers : Give(r) \/ PublishAndGive(r) \/ Run(r)
    \/ \E v \in Versions : Publish(v) \/ Verify(v) \/ Select(v) \/ Lose(v)
    \/ Restart

Spec == Init /\ [][Next]_vars
================================================================================
