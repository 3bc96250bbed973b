---------------------------- MODULE MCCursorFetch ----------------------------
(* The instance of CursorFetch that TLC checks. *)
EXTENDS CursorFetch

CONSTANTS a, b

MCAccounts == {a, b}

Credential(source, session, named, bearer) ==
    [source |-> source, session |-> session, user |-> named, bearer |-> bearer]

\* Headers pasted into the settings with no token and with another user's;
\* CodexBar's; and tokens on the host.  Cursor Desktop is signed in to account
\* a: exchanging the accounts gives the instances where it is b.
MCCredentials ==
    {Credential("setting", a, None, FALSE), Credential("setting", a, b, TRUE),
     Credential("codexbar", a, a, TRUE), Credential("environment", a, a, TRUE),
     Credential("desktop", a, a, TRUE),
     Credential("agent", a, a, TRUE), Credential("agent", b, b, TRUE)}

MCPageLengths == {1, 2}
==============================================================================
