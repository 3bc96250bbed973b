--------------------------- MODULE MCUsageSnapshot ---------------------------
(* The instances of UsageSnapshot that TLC checks. *)
EXTENDS UsageSnapshot, TLC

CONSTANTS t1, t2, r1, r2, b1, s1, u1

MCNoTeams == {}
MCTeams == {t1}
MCTwoTeams == {t1, t2}
MCReaders == {r1, r2}
MCOneReader == {r1}
MCBgPolls == {b1}
MCSavers == {s1}
MCUpdaters == {u1}

\* Readers are interchangeable in every safety property.
Symmetry == Permutations(MCReaders)
==============================================================================
