------------------------------ MODULE MCAgentTool ------------------------------
(* The instance of AgentTool that TLC checks: what CodexBar reports of Codex *)
(* and Copilot in both spellings, with windows left out, an informational    *)
(* window between the others, quotas used up and resets that pass.           *)
EXTENDS AgentTool

MCKinds == {"unclassified"}

MCIds == {"model", "other", "reset-credits"}

Wire(used, reset, minutes) ==
    [used |-> used, reset |-> reset, minutes |-> minutes]

Camel(used, reset, minutes) == [camel |-> Wire(used, reset, minutes), snake |-> NoFields]

Snake(used, reset, minutes) == [camel |-> NoFields, snake |-> Wire(used, reset, minutes)]

Entry(slots, extras, pace, updated, inventory) ==
    [slots |-> slots, extras |-> extras, pace |-> pace, updated |-> updated,
     inventory |-> inventory]

NoPace == <<None, None>>

Scoped(id, window) == [id |-> id, window |-> window]

Codex ==
    {\* A full account, the first quota used up, with an inventory.
     Entry(<<Camel(120, 3, 4), Camel(42, 6, 40), None>>,
           <<Scoped("model", Camel(100, 2, 40))>>, <<"summary", "empty">>, None, 2),
     \* The port, without a primary window: an informational window comes
     \* before a scoped one.
     Entry(<<None, Snake(13, 5, 7), None>>,
           <<Scoped(ResetCredits, Snake(0, 3, None)), Scoped("model", Snake(40, 4, 6)),
             Scoped(None, Snake(7, None, None))>>,
           NoPace, 0, None),
     \* Both quotas used up; the second resets later.
     Entry(<<Camel(100, 2, 4), Camel(100, 4, 40), Camel(0, 6, 7)>>,
           <<Scoped("model", None), Scoped("other", Camel(61, 5, 9))>>,
           <<"empty", None>>, 1, None),
     \* Dated ahead of the clock, both spellings, and usage left out.
     Entry(<<[camel |-> Wire(0, None, 8), snake |-> Wire(55, 6, 4)], None,
             Camel(None, 5, 8)>>,
           <<>>, <<None, "summary">>, 3, 0)}

Copilot ==
    {Entry(<<Camel(30, 6, None), None, Camel(100, 4, None)>>, <<>>, NoPace, None, None),
     Entry(<<None, Camel(100, 3, None), None>>, <<>>, NoPace, None, None)}

MCEntries ==
    [p \in Providers |->
       CASE p = "codex" -> Codex
         [] p = "copilot" -> Copilot
         [] p = "augment" -> {100}]
================================================================================
