----------------------------- MODULE MCReportMerge -----------------------------
(* The instances of ReportMerge that TLC checks. *)
EXTENDS ReportMerge

CONSTANTS p1, e1

MCDefaults == {p1, Cursor}
MCExtra == {e1}
MCAllow == {{}, {All}, {p1}}
MCPaused == {{}, {Cursor}, {p1}, {Augment}}

MCConfigs ==
    [paused : MCPaused, allow : MCAllow, credentials : SUBSET {Augment}]

MCNone == {}
MCDeadline == {"deadline"}
MCBoth == {"deadline", "host"}
================================================================================
