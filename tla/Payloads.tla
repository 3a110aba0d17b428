------------------------------ MODULE Payloads ------------------------------
(***************************************************************************)
(* What the proxy sends upstream for what it was sent: the model of a site *)
(* (upstream/resolve-model.ts), a site's payload                           *)
(* (upstream/sanitize-payload.ts) and an agent's                           *)
(* (upstream/agent-payload.ts).  These are pure functions of a body and    *)
(* the configuration of its sender.                                        *)
(*                                                                         *)
(* A body is a function from fields to values: any JSON, for nothing looks *)
(* at its types before.  Absent is undefined, OtherType a value of a type  *)
(* that the code does not act on in the field.  The value of reasoning is  *)
(* its max_tokens.  Fields that neither contour reads are left out.        *)
(***************************************************************************)
EXTENDS Integers, Sequences, FiniteSets, SequencesExt

CONSTANTS Absent, OtherType,
          Bodies,      \* what callers send
          Sites,       \* [defaultModel, allowedModels, fallbackModels]
          Targets,     \* of agents: [model, usageMode, cap]; a cap of 0 is none
          Sentinels, AnyModel, QwenModels

VARIABLES case         \* the body, its sender, and what goes upstream

payloadVars == <<case>>

Fields == {"model", "models", "provider", "route", "transforms", "plugins", "preset", "debug",
           "stream", "stream_options", "n", "service_tier", "store", "web_search_options",
           "max_tokens", "max_completion_tokens", "reasoning", "usage"}

ASSUME PayloadsAssumption ==
    /\ \A body \in Bodies : <<body["model"]>> # Absent /\ body = [f \in Fields |-> body[f]]
    /\ \A site \in Sites :
          /\ site.fallbackModels = [i \in 1..Len(site.fallbackModels) |-> site.fallbackModels[i]]
          /\ Len(site.fallbackModels) \in Nat
          /\ <<site.defaultModel>> \o site.fallbackModels # Absent
    /\ \A target \in Targets :
          target.cap \in Nat /\ target.usageMode \in {"openrouter", "stream_options", "none"}

----------------------------------------------------------------------------
(* normalizeRequested: a placeholder, and what is no string, asks for no   *)
(* model.                                                                  *)
NormalizeRequested(model) == IF model \in Sentinels \cup {OtherType} THEN Absent ELSE model

(* resolveModel: the model and the fallbacks, or nothing.                  *)
ResolveModel(requested, site) ==
    LET asked == NormalizeRequested(requested)
    IN  IF asked = Absent \/ site.allowedModels = {}
        THEN <<site.defaultModel>> \o site.fallbackModels
        ELSE IF {AnyModel, asked} \cap site.allowedModels # {} THEN <<asked>> ELSE <<>>

Without(body, fields) == [f \in DOMAIN body |-> IF f \in fields THEN Absent ELSE body[f]]

(* Mutant of DenyFields: the list of models is let through.                *)
DenyFieldsFewer == {"model", "provider", "route", "transforms", "plugins", "stream", "stream_options",
                    "debug"}

DenyFields == {"model", "models", "provider", "route", "transforms", "plugins", "stream",
               "stream_options", "debug"}

(* applyModelPayloadOverrides: thinking is switched off where nothing is   *)
(* said of it.                                                             *)
Overrides(model, body) ==
    IF model \in QwenModels /\ body["reasoning"] = Absent
    THEN [body EXCEPT !["reasoning"] = 0] ELSE body

(* buildUpstreamPayload.                                                   *)
BuildUpstreamPayload(body, models) ==
    LET out == Without(body, DenyFields)
    IN  Overrides(models[1],
            IF Len(models) > 1
            THEN [out EXCEPT !["models"] = models, !["stream"] = "no"]
            ELSE [out EXCEPT !["model"] = models[1], !["stream"] = "no"])

----------------------------------------------------------------------------
AgentDenyFields == {"models", "provider", "route", "transforms", "plugins", "preset", "debug"}
AgentCostFields == {"n", "service_tier", "store", "web_search_options"}

(* Mutant of LimitFields: the field newer models use is forgotten.         *)
LimitFieldsOld == {"max_tokens", "reasoning"}

(* max_tokens, max_completion_tokens and reasoning.max_tokens.             *)
LimitFields == {"max_tokens", "max_completion_tokens", "reasoning"}

(* Mutant of Capped: every limit is set to the cap, lower ones too.        *)
CappedAlways(body, cap) ==
    [f \in DOMAIN body |-> IF f \in LimitFields /\ cap > 0 /\ body[f] \in Int THEN cap ELSE body[f]]

(* Only a number is compared: a limit of another type goes on as it came.  *)
Capped(body, cap) ==
    [f \in DOMAIN body |->
        IF f \in LimitFields /\ cap > 0 /\ body[f] \in Int /\ body[f] > cap THEN cap ELSE body[f]]

(* Mutant of AskUsage: the caller's own options are kept as they are.      *)
AskUsageUnlessSet(body, usageMode) ==
    IF body["stream"] # "yes" THEN [body EXCEPT !["stream_options"] = Absent]
    ELSE IF usageMode = "openrouter" THEN [body EXCEPT !["usage"] = "include"]
    ELSE IF usageMode = "stream_options" /\ body["stream_options"] = Absent
    THEN [body EXCEPT !["stream_options"] = "include"] ELSE body

(* A stream is asked for its usage in the way the provider knows, over     *)
(* what the caller said; without a stream its options are an error.        *)
AskUsage(body, usageMode) ==
    IF body["stream"] # "yes" THEN [body EXCEPT !["stream_options"] = Absent]
    ELSE IF usageMode = "openrouter" THEN [body EXCEPT !["usage"] = "include"]
    ELSE IF usageMode = "stream_options" THEN [body EXCEPT !["stream_options"] = "include"]
    ELSE body

(* buildAgentPayload.                                                      *)
BuildAgentPayload(body, target) ==
    AskUsage([Capped(Without(body, AgentDenyFields \cup AgentCostFields), target.cap)
                 EXCEPT !["model"] = target.model],
             target.usageMode)

----------------------------------------------------------------------------
SiteCall(body, site) ==
    LET models == ResolveModel(body["model"], site)
    IN  case' = [of |-> "site", body |-> body, site |-> site,
                 sent |-> IF models = <<>> THEN Absent ELSE BuildUpstreamPayload(body, models)]

AgentCall(body, target) ==
    case' = [of |-> "agent", body |-> body, target |-> target, sent |-> BuildAgentPayload(body, target)]

PayloadsInit == case = Absent

PayloadsNext ==
    /\ case = Absent
    /\ \E body \in Bodies :
          \/ \E site \in Sites : SiteCall(body, site)
          \/ \E target \in Targets : AgentCall(body, target)

PayloadsSpec == PayloadsInit /\ [][PayloadsNext]_payloadVars

----------------------------------------------------------------------------
Sent == case # Absent /\ case.sent # Absent

(* Every model that may answer a site's call: the upstream takes `models'  *)
(* before `model'.                                                         *)
AnsweringModels(sent) == IF sent["models"] # Absent THEN Range(sent["models"]) ELSE {sent["model"]}

(* A site's call may be answered, and paid, only by the one model it asked *)
(* for and may use, or by the site's own list, and no route, provider,     *)
(* plugin or stream of the caller's choice goes upstream                   *)
(* (sanitize-payload.ts).  A body with a preset is left out: the code      *)
(* takes presets from agents as a way round the model and not from sites.  *)
OnlyModelsOfTheSite ==
    Sent /\ case.of = "site" =>
        LET asked == case.body["model"]
            own   == {case.site.defaultModel} \cup Range(case.site.fallbackModels)
            models == AnsweringModels(case.sent)
        IN  /\ case.body["preset"] = Absent =>
                  \/ /\ models = own
                     /\ asked \in Sentinels \cup {Absent, OtherType} \/ case.site.allowedModels = {}
                  \/ models = {asked} /\ {AnyModel, asked} \cap case.site.allowedModels # {}
            /\ \A f \in {"provider", "route", "transforms", "plugins", "debug", "stream_options"} :
                  case.sent[f] = Absent
            /\ case.sent["stream"] = "no"

(* An agent's call is answered by the model of its key alone, by no route, *)
(* preset or plugin of the caller's choice; none of the fields that        *)
(* multiply its cost goes upstream, and no number in a field that limits   *)
(* the answer is above the cap or above what was asked (agent-payload.ts). *)
AgentStaysInBudget ==
    Sent /\ case.of = "agent" =>
        /\ AnsweringModels(case.sent) = {case.target.model}
        /\ \A f \in {"provider", "route", "transforms", "plugins", "preset", "debug",
                     "n", "service_tier", "store", "web_search_options"} : case.sent[f] = Absent
        /\ \A f \in {"max_tokens", "max_completion_tokens", "reasoning"} :
              /\ case.target.cap > 0 /\ case.sent[f] \in Int => case.sent[f] <= case.target.cap
              /\ case.sent[f] # case.body[f] => case.sent[f] < case.body[f]

(* Every stream of an agent reports its usage unless the provider cannot,  *)
(* and no call without a stream carries the options of one.                *)
StreamsReportUsage ==
    Sent /\ case.of = "agent" =>
        IF case.sent["stream"] # "yes" THEN case.sent["stream_options"] = Absent
        ELSE \/ case.target.usageMode = "none"
             \/ case.sent[IF case.target.usageMode = "openrouter" THEN "usage" ELSE "stream_options"]
                = "include"

(* What a body can change, and what not: the models that may answer a site *)
(* that names no preset; the model, the fields of cost and the numbers of  *)
(* tokens of an agent; and whether its stream reports what it used.        *)
PayloadsSound == OnlyModelsOfTheSite /\ AgentStaysInBudget /\ StreamsReportUsage
=============================================================================
