---------------------------- MODULE PermissionFlow ----------------------------
(* The way of one tool call through permissions: PermissionEngine.evaluate    *)
(* (permissions/*.py), the permission hook, the session's "always allow", the *)
(* user or host, the pre-tool hook and the second evaluation in               *)
(* ToolRuntime.execute.  A rule's pattern is the set of contents it matches.  *)
EXTENDS Naturals, FiniteSets

CONSTANTS
    CallInputs,     \* inputs of a call: [tool |-> ..., content |-> ...]
    Rules,          \* rules that may stand in the settings
    NoPattern,      \* a rule without content
    NoContent,      \* a target without content
    ServerOf,       \* function: the rule name covering all tools of a tool's server
    NoDefault,      \* settings without a (valid) defaultMode
    Dangerous       \* contents the classifier finds dangerous

Modes == {"default", "acceptEdits", "bypassPermissions", "plan", "dontAsk"}
Behaviors == {"allow", "deny", "ask"}

SettingsChoices ==
    [rules : SUBSET Rules, defaultMode : Modes \cup {NoDefault},
     disableBypass : BOOLEAN, managedOnly : BOOLEAN]

(* Mutant: bypass is looked for before the default mode is.                   *)
ResolveModeEarly(mode, s) ==
    LET checked == IF mode = "bypassPermissions" /\ s.disableBypass THEN "default" ELSE mode
    IN  IF checked = "default" /\ s.defaultMode # NoDefault THEN s.defaultMode ELSE checked

(* _resolve_permission_mode.                                                  *)
ResolveMode(mode, s) ==
    LET resolved == IF mode = "default" /\ s.defaultMode # NoDefault
                    THEN s.defaultMode ELSE mode
    IN  IF resolved = "bypassPermissions" /\ s.disableBypass THEN "default" ELSE resolved

(* matches_permission_rule.                                                   *)
ToolMatches(r, tool) == r.tool = tool \/ r.tool = ServerOf[tool]
ContentMatches(r, content) ==
    r.pattern = NoPattern \/ (content # NoContent /\ content \in r.pattern)
Matches(r, in) == ToolMatches(r, in.tool) /\ ContentMatches(r, in.content)

(* rules_for_behavior.                                                        *)
RulesFor(s, behavior) ==
    {r \in s.rules : /\ r.behavior = behavior
                     /\ s.managedOnly => r.source = "policySettings"}
SomeRule(s, behavior, in) == \E r \in RulesFor(s, behavior) : Matches(r, in)

(* _finalize_ask_result.                                                      *)
AskOrDeny(mode) == IF mode = "dontAsk" THEN "deny" ELSE "ask"

(* classify_yolo denies a dangerous command when it is given one;             *)
(* classify_yolo_action never passes the content, and evaluate() looks at no  *)
(* other answer.                                                              *)
ClassifierDenies(tool, content) ==
    tool \in {"Bash", "PowerShell"} /\ content \in Dangerous

ClassifierBlocks(in) == ClassifierDenies(in.tool, NoContent)

(* Mutant: bypass mode comes before the rules.                                *)
EvaluateModeFirst(s, mode, in) ==
    IF mode = "bypassPermissions" THEN "allow"
    ELSE IF SomeRule(s, "deny", in) THEN "deny"
    ELSE IF SomeRule(s, "ask", in) THEN AskOrDeny(mode)
    ELSE IF SomeRule(s, "allow", in) THEN "allow"
    ELSE IF ClassifierBlocks(in) THEN "deny"
    ELSE AskOrDeny(mode)

Evaluate(s, mode, in) ==
    IF SomeRule(s, "deny", in) THEN "deny"
    ELSE IF SomeRule(s, "ask", in) THEN AskOrDeny(mode)
    ELSE IF mode = "bypassPermissions" \/ SomeRule(s, "allow", in) THEN "allow"
    ELSE IF ClassifierBlocks(in) THEN "deny"
    ELSE AskOrDeny(mode)

VARIABLES
    settings,       \* the settings of the turn
    permissionMode, \* state.permission_mode, set by control requests and plan tools
    engineMode,     \* the mode the call's PermissionEngine was built with
    callPhase,      \* idle, hook, evaluate, asking, pretool, run or refused
    input,          \* the call's input as updated so far
    allowedBy,      \* who allowed it explicitly: nobody, hook, session, user
    rewritten,      \* the input was replaced after it was allowed explicitly
    alwaysAllowed   \* session_allowed_tools

permissionVars == <<settings, permissionMode, engineMode, callPhase, input,
                    allowedBy, rewritten, alwaysAllowed>>

PermissionInit ==
    /\ settings \in SettingsChoices
    /\ permissionMode = "default"
    /\ engineMode = "default"
    /\ callPhase = "idle"
    /\ input \in CallInputs
    /\ allowedBy = "nobody"
    /\ rewritten = FALSE
    /\ alwaysAllowed = {}

SetMode(m) ==
    /\ permissionMode' = m
    /\ UNCHANGED <<settings, engineMode, callPhase, input, allowedBy, rewritten, alwaysAllowed>>

CallTool(in) ==
    /\ callPhase \in {"idle", "run", "refused"}
    /\ input' = in
    /\ engineMode' = ResolveMode(permissionMode, settings)
    /\ callPhase' = "hook"
    /\ allowedBy' = "nobody"
    /\ rewritten' = FALSE
    /\ UNCHANGED <<settings, permissionMode, alwaysAllowed>>

Refuse ==
    /\ callPhase' = "refused"
    /\ UNCHANGED <<settings, permissionMode, engineMode, input, allowedBy, rewritten, alwaysAllowed>>

AllowExplicitly(who, in) ==
    /\ callPhase' = "pretool"
    /\ allowedBy' = who
    /\ input' = in
    /\ UNCHANGED <<settings, permissionMode, engineMode>>

HookAllows(in) ==
    /\ callPhase = "hook"
    /\ AllowExplicitly("hook", in)
    /\ UNCHANGED <<rewritten, alwaysAllowed>>

HookDenies == callPhase = "hook" /\ Refuse

HookSilent ==
    /\ callPhase = "hook"
    /\ callPhase' = "evaluate"
    /\ UNCHANGED <<settings, permissionMode, engineMode, input, allowedBy, rewritten, alwaysAllowed>>

Verdict == Evaluate(settings, engineMode, input)

EvaluateAllows ==
    /\ callPhase = "evaluate" /\ Verdict = "allow"
    /\ callPhase' = "pretool"
    /\ UNCHANGED <<settings, permissionMode, engineMode, input, allowedBy, rewritten, alwaysAllowed>>

EvaluateDenies == callPhase = "evaluate" /\ Verdict = "deny" /\ Refuse

SessionAllows ==
    /\ callPhase = "evaluate" /\ Verdict = "ask" /\ input.tool \in alwaysAllowed
    /\ AllowExplicitly("session", input)
    /\ UNCHANGED <<rewritten, alwaysAllowed>>

AskSomebody ==
    /\ callPhase = "evaluate" /\ Verdict = "ask" /\ input.tool \notin alwaysAllowed
    /\ callPhase' = "asking"
    /\ UNCHANGED <<settings, permissionMode, engineMode, input, allowedBy, rewritten, alwaysAllowed>>

(* The dialog or the host allows, perhaps with another input, perhaps always. *)
UserAllows(in, always) ==
    /\ callPhase = "asking"
    /\ AllowExplicitly("user", in)
    /\ rewritten' = (in # input)
    /\ alwaysAllowed' = IF always THEN alwaysAllowed \cup {input.tool} ELSE alwaysAllowed

(* A denial, a timeout, a failing channel, or nobody to ask.                  *)
UserRefuses == callPhase = "asking" /\ Refuse

(* ToolRuntime.execute: a pre-tool hook may stop the call or replace its      *)
(* input; without an explicit permission the result is evaluated again.       *)
PreToolHookStops == callPhase = "pretool" /\ Refuse

(* Mutant: the verdict on the first input stands for the input that runs.     *)
ExecuteUnchecked(in) ==
    /\ callPhase = "pretool"
    /\ input' = in
    /\ rewritten' = (rewritten \/ in # input)
    /\ callPhase' = "run"
    /\ UNCHANGED <<settings, permissionMode, engineMode, allowedBy, alwaysAllowed>>

Execute(in) ==
    /\ callPhase = "pretool"
    /\ input' = in
    /\ rewritten' = (rewritten \/ in # input)
    /\ callPhase' = IF allowedBy # "nobody" \/ Evaluate(settings, engineMode, in) = "allow"
                    THEN "run" ELSE "refused"
    /\ UNCHANGED <<settings, permissionMode, engineMode, allowedBy, alwaysAllowed>>

SameTool(in) == in.tool = input.tool

PermissionNext ==
    \/ \E m \in Modes : SetMode(m)
    \/ \E in \in CallInputs : CallTool(in) \/ (SameTool(in) /\ (HookAllows(in) \/ Execute(in)))
    \/ \E in \in CallInputs, always \in BOOLEAN : SameTool(in) /\ UserAllows(in, always)
    \/ HookDenies \/ HookSilent
    \/ EvaluateAllows \/ EvaluateDenies
    \/ SessionAllows \/ AskSomebody \/ UserRefuses
    \/ PreToolHookStops

PermissionSpec == PermissionInit /\ [][PermissionNext]_permissionVars

PermissionTypeOK ==
    /\ settings \in SettingsChoices
    /\ {permissionMode, engineMode} \subseteq Modes
    /\ callPhase \in {"idle", "hook", "evaluate", "asking", "pretool", "run", "refused"}
    /\ input \in CallInputs
    /\ allowedBy \in {"nobody", "hook", "session", "user"}
    /\ rewritten \in BOOLEAN
    /\ alwaysAllowed \subseteq {in.tool : in \in CallInputs}

(* What runs was permitted as it runs: the input that is executed, after all  *)
(* rewriting, was allowed by the rules and mode unless somebody answered for  *)
(* the call.                                                                  *)
RunWasPermitted ==
    callPhase = "run" => \/ allowedBy # "nobody"
                         \/ Evaluate(settings, engineMode, input) = "allow"

(* A deny rule wins over "always allow" and over the user: such a call runs   *)
(* only if a permission hook allowed it or its input was replaced afterwards. *)
DenyRuleHolds ==
    (callPhase = "run" /\ SomeRule(settings, "deny", input))
        => (allowedBy = "hook" \/ rewritten)

(* Nobody is asked in dontAsk mode, nor for a call a rule denies.             *)
NoNeedlessQuestion ==
    callPhase = "asking" => /\ engineMode # "dontAsk"
                            /\ ~SomeRule(settings, "deny", input)

(* An administrator who disables bypass mode disables it: nothing runs by the *)
(* mode alone, whichever of mode and default mode asks for it.                *)
BypassStaysDisabled ==
    (callPhase = "run" /\ settings.disableBypass /\ allowedBy = "nobody")
        => SomeRule(settings, "allow", input)
=============================================================================
