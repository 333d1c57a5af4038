---------------------------- MODULE MCToolCalls ----------------------------
(* A chain, a shell command that is dangerous and a file write; the        *)
(* administrator may call the command safe and disable the write.           *)
EXTENDS ToolCalls

MCTools == {"shell.run", "file.write"}
MCRequests == {[tool |-> "shell.run", detected |-> "dangerous"],
               [tool |-> "file.write", detected |-> "medium"]}
MCFileWrites == {"file.write"}

\* The first task wants to be asked, the others run with both options off.
MCOptions ==
    LET first == CHOOSE t \in Tasks : TRUE IN
    [t \in Tasks |-> [autoSafe |-> t # first, askWrites |-> t = first]]

NoOverride == [risk |-> "none", enabled |-> TRUE]
MCConfigs == {[tool \in MCTools |-> NoOverride],
              [tool \in MCTools |-> [risk |-> "safe", enabled |-> tool = "shell.run"]]}
MCPolicies == {[tool \in MCTools |-> "ask"],
               [tool \in MCTools |-> IF tool = "shell.run" THEN "auto" ELSE "deny"]}
MCBreakable == {<<"shell.run", "before">>, <<"file.write", "after">>}
=============================================================================
