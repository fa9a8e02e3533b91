------------------------------ MODULE MCServices ------------------------------
(* Small instances of the services a turn uses: background tasks, the LSP     *)
(* client, forked agents, the permission decision and sleep prevention.  They *)
(* share no state, so a behaviour moves one of them, chosen at the start.     *)
EXTENDS BackgroundTasks, LspClient, ForkedAgent, PermissionFlow, PreventSleep

CONSTANT Scenes

VARIABLE scene

serviceSuiteVars == <<scene, taskVars, lspVars, forkVars, permissionVars, sleepVars>>

Bash == "Bash"
McpTool == "mcp__s__t"
MCCallInputs ==
    {[tool |-> Bash, content |-> "ls"], [tool |-> Bash, content |-> "rm"],
     [tool |-> McpTool, content |-> NoContent]}
Rule(source, behavior, tool, pattern) ==
    [source |-> source, behavior |-> behavior, tool |-> tool, pattern |-> pattern]
MCRules ==
    {Rule("userSettings", "allow", Bash, NoPattern),
     Rule("policySettings", "deny", Bash, {"rm"}),
     Rule("projectSettings", "ask", "mcp__s", NoPattern)}
MCServerOf == [t \in {Bash, McpTool} |-> IF t = McpTool THEN "mcp__s" ELSE "none"]
MCDangerous == {"rm"}

ServiceSuiteInit ==
    /\ scene \in Scenes
    /\ TasksInit /\ LspInit /\ ForkInit /\ PermissionInit /\ SleepInit
    /\ scene # "permission" =>
        /\ settings = [rules |-> {}, defaultMode |-> NoDefault,
                       disableBypass |-> FALSE, managedOnly |-> FALSE]
        /\ input.content = "ls"

TasksScene ==
    /\ scene = "tasks" /\ TasksNext
    /\ UNCHANGED <<scene, lspVars, forkVars, permissionVars, sleepVars>>

LspScene ==
    /\ scene = "lsp" /\ LspNext
    /\ UNCHANGED <<scene, taskVars, forkVars, permissionVars, sleepVars>>

ForkScene ==
    /\ scene = "fork" /\ ForkNext
    /\ UNCHANGED <<scene, taskVars, lspVars, permissionVars, sleepVars>>

PermissionScene ==
    /\ scene = "permission" /\ PermissionNext
    /\ UNCHANGED <<scene, taskVars, lspVars, forkVars, sleepVars>>

SleepScene ==
    /\ scene = "sleep" /\ SleepNext
    /\ UNCHANGED <<scene, taskVars, lspVars, forkVars, permissionVars>>

ServiceSuiteNext ==
    TasksScene \/ LspScene \/ ForkScene \/ PermissionScene \/ SleepScene

ServiceSuiteSpec ==
    /\ ServiceSuiteInit
    /\ [][ServiceSuiteNext]_serviceSuiteVars
    /\ TasksFairness
=============================================================================
