----------------------------- MODULE LLMClient -------------------------------
(* llm/client.py: how a client is built, and how one structured request falls *)
(* back from the provider's native structured output to the schema in the     *)
(* prompt.  Retrying is left to the caller (AgentCall): a tier is left only   *)
(* for an error that says it is not supported.                                *)
EXTENDS Naturals, Sequences

VARIABLES
  client,    \* NoClient, or what the factory built: wire, thinking, endpoint
  tier,      \* requests of the structured call that were refused so far
  sentAs,    \* history: the forms the call's requests were sent in
  met,       \* history: the errors they met
  outcome    \* "none", "open", "text", "error" of the call

clientVars == <<client, tier, sentAs, met, outcome>>

NoClient == [wire |-> "none", thinking |-> FALSE, url |-> "none"]

(* The registry, by provider: its wire, the variable its base URL defaults    *)
(* to, whether one is required and whether /v1 is appended.                   *)
Registry ==
  [anthropic |-> [wire |-> "anthropic", default |-> TRUE, required |-> FALSE, v1 |-> FALSE],
   openai |-> [wire |-> "openai", default |-> TRUE, required |-> FALSE, v1 |-> TRUE],
   openai_compatible |-> [wire |-> "openai", default |-> FALSE, required |-> TRUE, v1 |-> FALSE]]

(* _resolve_base_url: the agent's variable before the provider's; "none" is   *)
(* the SDK's own endpoint.                                                    *)
BaseUrl(spec, own, common) ==
  IF own THEN "own" ELSE IF spec.default /\ common THEN "common" ELSE "none"

(* The request forms of structured_json, in the order they are tried.         *)
Tiers(c) ==
  IF c.wire = "openai" THEN <<"json_schema", "json_object", "prompt">>
  ELSE IF c.thinking THEN <<"prompt">> ELSE <<"tool_use", "prompt">>

(* Errors a request may meet; "no_tool_use" is an answer without the tool.    *)
ErrorsOf(form) ==
  {"bad_request", "rate_limit", "auth", "overload", "refuses_thinking", "not_found",
   "unprocessable", "type_error", "empty"}
  \cup (IF form = "tool_use" THEN {"no_tool_use"} ELSE {})

(* What moves the call on to its next form.                                   *)
NotSupportedByStatus(c, e) == e \notin {"auth", "empty"}
NotSupported(c, e) ==
  IF c.wire = "openai"
  THEN e \in {"bad_request", "unprocessable", "not_found", "type_error"}
  ELSE e \in {"bad_request", "refuses_thinking", "no_tool_use"}

ClientInit == client = NoClient /\ tier = 0 /\ sentAs = <<>> /\ met = <<>> /\ outcome = "none"

(* LLMClientFactory.create; a missing key or required URL raises.             *)
CreateClient ==
  /\ client = NoClient
  /\ \E provider \in DOMAIN Registry, own, common, thinking \in BOOLEAN :
       LET spec == Registry[provider]
           url == BaseUrl(spec, own, common)
       IN /\ url # "none" \/ ~spec.required
          /\ client' = [wire |-> spec.wire, thinking |-> thinking, url |-> url]
  /\ UNCHANGED <<tier, sentAs, met, outcome>>

StartRequest ==
  /\ client # NoClient /\ outcome = "none"
  /\ outcome' = "open"
  /\ sentAs' = <<Tiers(client)[1]>>
  /\ UNCHANGED <<client, tier, met>>

RequestAnswered ==
  /\ outcome = "open"
  /\ outcome' = "text"
  /\ UNCHANGED <<client, tier, sentAs, met>>

(* The last form's error is the call's, whatever it is.                       *)
RequestFails ==
  /\ outcome = "open"
  /\ \E e \in ErrorsOf(sentAs[Len(sentAs)]) :
       /\ met' = Append(met, e)
       /\ IF NotSupported(client, e) /\ tier + 1 < Len(Tiers(client))
          THEN /\ tier' = tier + 1
               /\ sentAs' = Append(sentAs, Tiers(client)[tier + 2])
               /\ UNCHANGED outcome
          ELSE outcome' = "error" /\ UNCHANGED <<tier, sentAs>>
  /\ UNCHANGED client

ClientNext == CreateClient \/ StartRequest \/ RequestAnswered \/ RequestFails
ClientSpec == ClientInit /\ [][ClientNext]_clientVars

-----------------------------------------------------------------------------
(* A structured call sends another request only after the form before was     *)
(* refused, never after a rate limit, an overload or a bad key, which are the *)
(* caller's to retry; no form is tried twice, and a call that ends with a     *)
(* refused form has tried the plain prompt.                                   *)
FormsInOrder ==
  /\ \A i \in DOMAIN sentAs :
       /\ i > 1 => met[i - 1] \notin {"rate_limit", "overload", "auth"}
       /\ \A j \in DOMAIN sentAs : sentAs[i] = sentAs[j] => i = j
  /\ outcome = "error" /\ met[Len(met)] = "bad_request" => sentAs[Len(sentAs)] = "prompt"
=============================================================================
