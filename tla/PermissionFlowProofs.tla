-------------------------- MODULE PermissionFlowProofs --------------------------
(* Proofs about PermissionFlow, for any inputs, rules, settings and dangerous *)
(* contents.  Two lemmas say what a verdict means; with them each step is     *)
(* looked at without expanding Evaluate.                                      *)
EXTENDS PermissionFlow, TLAPS

(* A verdict "allow" (PermissionEngine.evaluate) excludes a deny rule and     *)
(* rests on the mode or on an allow rule.                                     *)
LEMMA AllowVerdict ==
    ASSUME NEW s, NEW mode, NEW in, Evaluate(s, mode, in) = "allow"
    PROVE  /\ ~SomeRule(s, "deny", in)
           /\ mode = "bypassPermissions" \/ SomeRule(s, "allow", in)
BY DEF Evaluate, AskOrDeny

(* A verdict "ask" excludes a deny rule and the mode dontAsk.                 *)
LEMMA AskVerdict ==
    ASSUME NEW s, NEW mode, NEW in, Evaluate(s, mode, in) = "ask"
    PROVE  ~SomeRule(s, "deny", in) /\ mode # "dontAsk"
BY DEF Evaluate, AskOrDeny

(* _resolve_permission_mode returns a mode, and never the one that the        *)
(* settings disable.                                                          *)
LEMMA ResolvedMode ==
    ASSUME NEW mode \in Modes, NEW s \in SettingsChoices
    PROVE  /\ ResolveMode(mode, s) \in Modes
           /\ s.disableBypass => ResolveMode(mode, s) # "bypassPermissions"
BY DEF ResolveMode, Modes, SettingsChoices

-----------------------------------------------------------------------------
(* The strengthening: the mode of the call's engine was resolved, and between *)
(* the verdict and the run a denied input is there only by a hook or by a     *)
(* replacement.                                                               *)
ModeIsResolved == settings.disableBypass => engineMode # "bypassPermissions"

DeniedOnlyByHand ==
    (callPhase \in {"pretool", "run"} /\ SomeRule(settings, "deny", input))
        => (allowedBy = "hook" \/ rewritten)

PermissionInv ==
    /\ PermissionTypeOK
    /\ ModeIsResolved
    /\ DeniedOnlyByHand
    /\ RunWasPermitted
    /\ NoNeedlessQuestion

LEMMA PermissionInitially == PermissionInit => PermissionInv
BY DEF PermissionInit, PermissionInv, PermissionTypeOK, ModeIsResolved, DeniedOnlyByHand,
       RunWasPermitted, NoNeedlessQuestion, Modes

(* Types are kept by every step.                                              *)
LEMMA PermissionTypes == PermissionTypeOK /\ [PermissionNext]_permissionVars => PermissionTypeOK'
<1> SUFFICES ASSUME PermissionTypeOK, [PermissionNext]_permissionVars PROVE PermissionTypeOK'
    OBVIOUS
<1> USE DEF PermissionTypeOK
<1>1. ASSUME NEW m \in Modes, SetMode(m) PROVE PermissionTypeOK'
    BY <1>1 DEF SetMode
<1>2. ASSUME NEW in \in CallInputs, CallTool(in) PROVE PermissionTypeOK'
    BY <1>2, ResolvedMode DEF CallTool
<1>3. ASSUME NEW in \in CallInputs, HookAllows(in) PROVE PermissionTypeOK'
    BY <1>3 DEF HookAllows, AllowExplicitly
<1>4. ASSUME NEW in \in CallInputs, Execute(in) PROVE PermissionTypeOK'
    BY <1>4 DEF Execute
<1>5. ASSUME NEW in \in CallInputs, NEW always \in BOOLEAN, UserAllows(in, always)
      PROVE  PermissionTypeOK'
    <2>1. alwaysAllowed' \subseteq {i.tool : i \in CallInputs}
        BY <1>5 DEF UserAllows
    <2> QED BY <1>5, <2>1 DEF UserAllows, AllowExplicitly
<1>6. CASE Refuse
    BY <1>6 DEF Refuse
<1>7. CASE HookSilent \/ EvaluateAllows \/ AskSomebody
    BY <1>7 DEF HookSilent, EvaluateAllows, AskSomebody
<1>8. CASE SessionAllows
    BY <1>8 DEF SessionAllows, AllowExplicitly
<1>9. CASE UNCHANGED permissionVars
    BY <1>9 DEF permissionVars
<1> QED
    BY <1>1, <1>2, <1>3, <1>4, <1>5, <1>6, <1>7, <1>8, <1>9
    DEF PermissionNext, HookDenies, EvaluateDenies, UserRefuses, PreToolHookStops

(* The rest of the invariant is kept by every step.                           *)
LEMMA PermissionStep == PermissionInv /\ [PermissionNext]_permissionVars => PermissionInv'
<1> SUFFICES ASSUME PermissionInv, [PermissionNext]_permissionVars PROVE PermissionInv'
    OBVIOUS
<1>0. PermissionTypeOK /\ PermissionTypeOK'
    BY PermissionTypes DEF PermissionInv
<1> DEFINE Rest == ModeIsResolved /\ DeniedOnlyByHand /\ RunWasPermitted /\ NoNeedlessQuestion
<1> SUFFICES Rest'
    BY <1>0 DEF PermissionInv
<1>i. Rest
    BY DEF PermissionInv
<1> USE DEF ModeIsResolved, DeniedOnlyByHand, RunWasPermitted, NoNeedlessQuestion
<1>1. ASSUME NEW m \in Modes, SetMode(m) PROVE Rest'
    BY <1>1, <1>i DEF SetMode
<1>2. ASSUME NEW in \in CallInputs, CallTool(in) PROVE Rest'
    BY <1>2, <1>i, <1>0, ResolvedMode DEF CallTool, PermissionTypeOK
<1>3. ASSUME NEW in \in CallInputs, HookAllows(in) PROVE Rest'
    BY <1>3, <1>i DEF HookAllows, AllowExplicitly
<1>4. ASSUME NEW in \in CallInputs, Execute(in) PROVE Rest'
    BY <1>4, <1>i, <1>0 DEF Execute, PermissionTypeOK
<1>5. ASSUME NEW in \in CallInputs, NEW always \in BOOLEAN, UserAllows(in, always)
      PROVE  Rest'
    BY <1>5, <1>i DEF UserAllows, AllowExplicitly
<1>6. CASE Refuse
    BY <1>6, <1>i DEF Refuse
<1>7. CASE HookSilent
    BY <1>7, <1>i DEF HookSilent
<1>8. CASE EvaluateAllows
    BY <1>8, <1>i, AllowVerdict DEF EvaluateAllows, Verdict
<1>9. CASE SessionAllows
    BY <1>9, <1>i, AskVerdict DEF SessionAllows, AllowExplicitly, Verdict
<1>10. CASE AskSomebody
    BY <1>10, <1>i, AskVerdict DEF AskSomebody, Verdict
<1>11. CASE UNCHANGED permissionVars
    BY <1>11, <1>i DEF permissionVars
<1> QED
    BY <1>1, <1>2, <1>3, <1>4, <1>5, <1>6, <1>7, <1>8, <1>9, <1>10, <1>11
    DEF PermissionNext, HookDenies, EvaluateDenies, UserRefuses, PreToolHookStops

THEOREM PermissionInvariant == PermissionSpec => []PermissionInv
BY PermissionInitially, PermissionStep, PTL DEF PermissionSpec

-----------------------------------------------------------------------------
(* What runs was permitted as it runs, whoever rewrote the input on the way.  *)
THEOREM RunsArePermitted == PermissionSpec => []RunWasPermitted
<1>1. PermissionInv => RunWasPermitted
    BY DEF PermissionInv
<1> QED BY <1>1, PermissionInvariant, PTL

(* A deny rule wins over everybody but a permission hook.                     *)
THEOREM DenyWins == PermissionSpec => []DenyRuleHolds
<1>1. PermissionInv => DenyRuleHolds
    BY DEF PermissionInv, DeniedOnlyByHand, DenyRuleHolds
<1> QED BY <1>1, PermissionInvariant, PTL

(* Nobody is asked what a rule or the mode has decided.                       *)
THEOREM QuestionsAreNeeded == PermissionSpec => []NoNeedlessQuestion
<1>1. PermissionInv => NoNeedlessQuestion
    BY DEF PermissionInv
<1> QED BY <1>1, PermissionInvariant, PTL

(* Bypass mode stays disabled: what runs unasked has an allow rule.           *)
THEOREM BypassIsDisabled == PermissionSpec => []BypassStaysDisabled
<1>1. PermissionInv => BypassStaysDisabled
    BY AllowVerdict DEF PermissionInv, ModeIsResolved, RunWasPermitted, BypassStaysDisabled
<1> QED BY <1>1, PermissionInvariant, PTL
=============================================================================
