------------------------------ MODULE MCCliInstall ------------------------------
(* The instances of CliInstall that TLC checks. *)
EXTENDS CliInstall

CONSTANTS v1, v2, v3, poll, session, update

MCTwoVersions == {v1, v2}
MCVersions == {v1, v2, v3}
MCResolvers == {poll, session}
MCUpdaters == {update}
MCPinned == {v1}
==================================================================================
