----------------------------- MODULE MCAgentHost -----------------------------
(***************************************************************************)
(* The parts of the desktop host that serve the Agent and share no state,   *)
(* one per behaviour: `part` names the one that runs, the others stay where *)
(* they started.  Every part is explored as by itself.                      *)
(***************************************************************************)
EXTENDS HostActions, Backups, Mcp, Watch

VARIABLE part

\* What the tool calls of one exploration have in common and where they differ:
\* two calls of one action, one call with two bindings, and the ways to act.
RestartCall(c, a, p) == [call |-> c, approval |-> a, action |-> "restart",
                         plan |-> p, effect |-> TRUE, via |-> "service"]
ToolCall(c, a) == [call |-> c, approval |-> a, action |-> "tool", plan |-> TRUE,
                   effect |-> TRUE, via |-> "mcp"]
LogsCall == [call |-> 3, approval |-> "a", action |-> "logs", plan |-> TRUE,
             effect |-> FALSE, via |-> "execute"]
ExecCall == [call |-> 2, approval |-> "b", action |-> "exec", plan |-> TRUE,
             effect |-> TRUE, via |-> "execute"]
MCOffers == {{RestartCall(1, "a", TRUE), RestartCall(2, "b", TRUE)},
             {RestartCall(1, "a", TRUE), RestartCall(1, "a", FALSE)},
             {ToolCall(1, "a"), ToolCall(2, "b")},
             {ToolCall(1, "a"), LogsCall}, {LogsCall, ExecCall}}

\* Every schedule inspects the same task.
MCWatchTask == [s \in Schedules |-> "task"]

AgentHostInit ==
  /\ part \in {"actions", "backups", "mcp", "watch"}
  /\ HostActionsInit /\ BackupsInit /\ McpInit /\ WatchInit
  \* One start is enough for a part that never moves.
  /\ part # "actions" => offered = CHOOSE o \in Offers : TRUE
  /\ part # "mcp" => mcpRow = [s \in Servers |-> NoServer]

AgentHostNext ==
  /\ \/ part = "actions" /\ HostActionsNext /\ UNCHANGED <<backupVars, mcpVars, watchVars>>
     \/ part = "backups" /\ BackupsNext /\ UNCHANGED <<actionVars, mcpVars, watchVars>>
     \/ part = "mcp" /\ McpNext /\ UNCHANGED <<actionVars, backupVars, watchVars>>
     \/ part = "watch" /\ WatchNext /\ UNCHANGED <<actionVars, backupVars, mcpVars>>
  /\ UNCHANGED part

AgentHostSpec ==
  AgentHostInit /\ [][AgentHostNext]_<<part, actionVars, backupVars, mcpVars, watchVars>>
=============================================================================
