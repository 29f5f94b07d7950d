----------------------------- MODULE AgentCall ------------------------------
(* BaseAgent._call_llm_with_retry: the coroutines that call one agent at the  *)
(* same time share its client, circuit breaker, failure window and credential *)
(* pool (CredentialPool: rotating a key changes nothing a call reads).  A     *)
(* call runs without interruption between two answers of the provider;        *)
(* waiting for the answer and the backoff before the next request are one     *)
(* wait, since nothing is read or written between them.                       *)
EXTENDS Integers, Sequences, FiniteSets

-----------------------------------------------------------------------------
(* llm/error_classifier.py: what kind of failure an exception of the provider *)
(* is, and which recoveries its kind allows.  An exception is the class it    *)
(* has, the HTTP status it carries (0: none) and what its message matches.    *)
ErrorKind == {"auth_transient", "auth_permanent", "rate_limit", "overload",
              "context_overflow", "transport", "format", "parse",
              "provider_empty", "unknown"}

Raisable == [class : {"runtime", "connection", "output", "parse", "api"},
             status : {0, 400, 401, 403, 404, 429, 503},
             says : {"empty", "overflow", "quota", "other"}]

(* The tests of classify_error in their order: the first that holds decides.  *)
Kind(e) ==
  IF e.class = "runtime" /\ e.says = "empty" THEN "provider_empty"
  ELSE IF e.class = "connection" THEN "transport"
  ELSE IF e.status = 401 THEN "auth_permanent"
  ELSE IF e.status = 403 THEN IF e.says = "quota" THEN "auth_transient" ELSE "auth_permanent"
  ELSE IF e.status = 429 THEN "rate_limit"
  ELSE IF e.status = 400 THEN IF e.says = "overflow" THEN "context_overflow" ELSE "format"
  ELSE IF e.status >= 500 THEN "overload"
  ELSE IF e.says = "overflow" THEN "context_overflow"
  ELSE IF e.class = "output" THEN "format"
  ELSE IF e.class = "parse" THEN "parse"   \* category FORMAT, retryable
  ELSE "unknown"

Fatal == {"auth_permanent", "format"}
ShouldFallBack == {"provider_empty", "auth_permanent", "overload"}

-----------------------------------------------------------------------------
CONSTANTS
  Caller,           \* coroutines of the phases that share the agent
  MaxCalls,         \* bound: calls made by all callers together
  MaxRetries,       \* AgentLLMConfig.max_retries
  MaxWaits,         \* MAX_RATE_LIMIT_WAITS
  Threshold,        \* CIRCUIT_BREAKER_THRESHOLD
  WindowSize,       \* _SLIDING_WINDOW_SIZE
  MinSamples,       \* _SLIDING_WINDOW_MIN_SAMPLES
  Limit,            \* the budget, in answers paid for
  HasFallback,      \* AgentLLMConfig.fallback is configured
  Routed,           \* the models select_model may pick for a prompt
  Exceptions        \* the exceptions the provider's client may raise

ASSUME AgentCallAssumption ==
  /\ {MaxCalls, MaxRetries, MaxWaits, Threshold, MinSamples, Limit} \subseteq Nat \ {0}
  /\ WindowSize \in Nat /\ MinSamples <= WindowSize
  /\ Exceptions \subseteq Raisable
  /\ HasFallback \in BOOLEAN /\ Routed \subseteq {"full", "cheap"}

VARIABLES
  llm, usingFallback,   \* self.llm, self._using_fallback
  failures,             \* self._consecutive_failures, counted up to Threshold
  window,               \* self._sliding_window
  model,                \* client.model of each client
  spent,                \* the cost tracker's total
  asking,               \* callers with a call in flight
  attempt, waits,       \* its RetryBudget
  swapped,              \* callers that hold the breaker's temporary swap
  override,             \* the client and model its with_model will restore
  made, sent,           \* history: calls made so far, requests of each call in flight,
                        \* counted up to one more than MaxSent
  forGood               \* history: _on_fallback_needed switched the provider

shared == <<llm, usingFallback, failures, window, model, spent>>
private == <<asking, attempt, waits, swapped, override, made, sent>>
agentVars == <<shared, private, forGood>>

Client == {"primary", "fallback"}
Model == {"full", "cheap"}
Errors == {Kind(e) : e \in Exceptions}
CountsForBreaker == ErrorKind \ {"rate_limit", "transport"}

AtMostThreshold(n) == IF n < Threshold THEN n ELSE Threshold
Push(w, ok) == LET grown == Append(w, ok)
               IN IF Len(grown) > WindowSize THEN Tail(grown) ELSE grown
Unhealthy(w) == /\ Len(w) >= MinSamples
                /\ 10 * Cardinality({i \in DOMAIN w : ~w[i]}) >= 6 * Len(w)

CanFallBack == HasFallback /\ ~usingFallback
Spend == IF spent < Limit THEN spent + 1 ELSE spent

MaxSent == 2 * (MaxRetries + MaxWaits - 1)
NoOverride == [client |-> "primary", old |-> "full"]

(* What a failed request leads to, for a window that holds its failure.       *)
FallsOverTwice(kind, w) == HasFallback /\ (kind = "provider_empty" \/ Unhealthy(w))
FallsOver(kind, w) ==
  /\ CanFallBack
  /\ kind = "provider_empty" \/ Unhealthy(w) \/ kind \in Fatal \cap ShouldFallBack

AgentInit ==
  /\ llm = "primary" /\ usingFallback = FALSE
  /\ failures = 0 /\ window = <<>>
  /\ model = [c \in Client |-> "full"]
  /\ spent = 0
  /\ asking = {} /\ swapped = {}
  /\ attempt = [c \in Caller |-> 0] /\ waits = [c \in Caller |-> 0]
  /\ override = [c \in Caller |-> NoOverride]
  /\ made = 0 /\ sent = [c \in Caller |-> 0]
  /\ forGood = FALSE

-----------------------------------------------------------------------------
Restored(c) == [model EXCEPT ![override[c].client] = override[c].old]

(* The call is over: with_model is left and its locals are gone.              *)
Gone(c) ==
  /\ asking' = asking \ {c}
  /\ model' = Restored(c)
  /\ override' = [override EXCEPT ![c] = NoOverride]
  /\ attempt' = [attempt EXCEPT ![c] = 0]
  /\ waits' = [waits EXCEPT ![c] = 0]
  /\ sent' = [sent EXCEPT ![c] = 0]
  /\ UNCHANGED made

(* It returns or raises: a temporary swap it made is undone in its finally.   *)
End(c) ==
  /\ Gone(c)
  /\ swapped' = swapped \ {c}
  /\ IF c \in swapped THEN llm' = "primary" /\ usingFallback' = FALSE
                      ELSE UNCHANGED <<llm, usingFallback>>

(* The loop goes round: the next request is sent with whatever client the     *)
(* agent holds by then.                                                       *)
Again(c, tries, pauses, m) ==
  /\ attempt' = [attempt EXCEPT ![c] = tries]
  /\ waits' = [waits EXCEPT ![c] = pauses]
  /\ sent' = [sent EXCEPT ![c] = IF @ > MaxSent THEN @ ELSE @ + 1]
  /\ model' = m
  /\ UNCHANGED <<asking, swapped, override, made>>

NotSent == UNCHANGED <<shared, asking, attempt, waits, swapped, override, sent, forGood>>

Begin(c) ==
  /\ c \notin asking /\ made < MaxCalls
  /\ made' = made + 1
  /\ \/ spent >= Limit /\ NotSent              \* RunBudgetExceeded
     \/ spent < Limit /\ failures >= Threshold /\ ~CanFallBack /\ NotSent   \* CircuitBreakerOpen
     \/ /\ spent < Limit
        /\ failures >= Threshold => CanFallBack
        /\ LET swap == failures >= Threshold
               client == IF swap THEN "fallback" ELSE llm
           IN /\ llm' = client
              /\ usingFallback' = (usingFallback \/ swap)
              /\ failures' = IF swap THEN 0 ELSE failures
              /\ swapped' = IF swap THEN swapped \cup {c} ELSE swapped
              /\ \E m \in IF client = "primary" THEN Routed ELSE {"full"} :
                   /\ override' = [override EXCEPT ![c] = [client |-> client, old |-> model[client]]]
                   /\ model' = [model EXCEPT ![client] = m]
        /\ asking' = asking \cup {c}
        /\ sent' = [sent EXCEPT ![c] = 1]
        /\ UNCHANGED <<attempt, waits, window, spent, forGood>>

(* _on_fallback_needed, asked only when a fallback can still be switched to.  *)
SwitchForGood ==
  /\ llm' = "fallback" /\ usingFallback' = TRUE
  /\ failures' = 0 /\ window' = <<>>
  /\ forGood' = TRUE

Exhaust(c, kind, f, w) ==
  /\ failures' = IF kind \in CountsForBreaker THEN AtMostThreshold(f + 1) ELSE f
  /\ window' = w
  /\ UNCHANGED forGood
  /\ End(c)

(* The except branch, after an answer that left failures f, window w and      *)
(* client models m behind.                                                    *)
RaisedSwitching(c, kind, f, w, m) ==
  /\ llm' = "fallback" /\ usingFallback' = TRUE /\ window' = <<>> /\ forGood' = TRUE
  /\ IF attempt[c] + 1 < MaxRetries
     THEN failures' = 0 /\ Again(c, attempt[c] + 1, waits[c], m)
     ELSE /\ failures' = IF kind \in CountsForBreaker THEN 1 ELSE 0
          /\ Gone(c) /\ UNCHANGED swapped

RaisedFatal(c, kind, f, w) ==
  /\ kind \in Fatal
  /\ failures' = AtMostThreshold(f + 1) /\ window' = w
  /\ End(c)
  /\ UNCHANGED forGood

RaisedRateLimitUncounted(c, f, w, m) ==
  /\ failures' = f /\ window' = w
  /\ Again(c, attempt[c], waits[c], m)
  /\ UNCHANGED <<llm, usingFallback, forGood>>

RaisedRateLimit(c, f, w, m) ==
  /\ IF waits[c] + 1 < MaxWaits
     THEN /\ failures' = f /\ window' = w
          /\ Again(c, attempt[c], waits[c] + 1, m)
          /\ UNCHANGED <<llm, usingFallback, forGood>>
     ELSE Exhaust(c, "rate_limit", f, w)

RaisedRetryable(c, kind, f, w, m) ==
  /\ kind \notin Fatal \cup {"rate_limit"}
  /\ \/ /\ attempt[c] + 1 < MaxRetries
        /\ failures' = f /\ window' = w
        /\ Again(c, attempt[c] + 1, waits[c], m)
        /\ UNCHANGED <<llm, usingFallback, forGood>>
     \/ /\ attempt[c] + 1 >= MaxRetries
        /\ kind \in ShouldFallBack /\ CanFallBack
        /\ SwitchForGood
        /\ Again(c, 0, 0, m)
     \/ /\ attempt[c] + 1 >= MaxRetries
        /\ kind \notin ShouldFallBack \/ ~CanFallBack
        /\ Exhaust(c, kind, f, w)

Raised(c, kind, f, w, m) ==
  IF FallsOver(kind, w)
  THEN RaisedSwitching(c, kind, f, w, m)
  ELSE \/ RaisedFatal(c, kind, f, w)
       \/ kind = "rate_limit" /\ RaisedRateLimit(c, f, w, m)
       \/ RaisedRetryable(c, kind, f, w, m)

Fail(c, kind) ==
  /\ c \in asking
  /\ UNCHANGED <<spent, made>>
  /\ Raised(c, kind, failures, Push(window, FALSE), model)

(* An answer is recorded and paid for, and with_model left, before the budget *)
(* is tested again: RunBudgetExceeded is raised inside the try, where it is   *)
(* an error of unknown kind like any other.                                   *)
Answer(c) ==
  /\ c \in asking
  /\ spent' = Spend
  /\ IF Spend < Limit
     THEN /\ failures' = 0
          /\ window' = Push(window, TRUE)
          /\ End(c)
          /\ UNCHANGED forGood
     ELSE Raised(c, "unknown", 0, Push(Push(window, TRUE), FALSE), Restored(c))

(* JudgeReviewPhase calls reset_circuit_breaker when it is entered, between   *)
(* the calls of this agent.                                                   *)
ResetBreaker ==
  /\ asking = {} /\ failures > 0
  /\ failures' = 0 /\ window' = <<>>
  /\ UNCHANGED <<llm, usingFallback, model, spent, private, forGood>>

CallStep(c) == Begin(c) \/ Answer(c) \/ \E kind \in Errors : Fail(c, kind)
AgentNext == (\E c \in Caller : CallStep(c)) \/ ResetBreaker

AgentSpec == AgentInit /\ [][AgentNext]_agentVars

-----------------------------------------------------------------------------
(* What the calls of one agent promise to the phases that make them.          *)

(* The shared state of the agent and the budget of each call are well formed. *)
AgentTypeOK ==
  /\ llm \in Client /\ usingFallback \in BOOLEAN
  /\ failures \in 0 .. Threshold
  /\ window \in Seq(BOOLEAN) /\ Len(window) <= WindowSize
  /\ model \in [Client -> Model]
  /\ spent \in 0 .. Limit
  /\ asking \subseteq Caller /\ swapped \subseteq asking
  /\ attempt \in [Caller -> 0 .. MaxRetries - 1]
  /\ waits \in [Caller -> 0 .. MaxWaits - 1]
  /\ override \in [Caller -> [client : Client, old : Model]]
  /\ made \in 0 .. MaxCalls /\ sent \in [Caller -> 0 .. MaxSent + 1]
  /\ forGood \in BOOLEAN

(* The agent talks to its fallback exactly while a switch for good was made   *)
(* or one call holds the breaker's temporary swap, however the calls overlap: *)
(* a swap is always undone, and never undoes a switch for good.               *)
ProviderIsRight ==
  /\ usingFallback <=> llm = "fallback"
  /\ llm = "fallback" <=> forGood \/ swapped # {}
  /\ Cardinality(swapped) <= 1
  /\ ~(forGood /\ swapped # {})

(* One call sends a bounded number of requests, whatever mixture of errors it *)
(* meets and whoever switches the provider meanwhile: the budget is renewed   *)
(* at most once, when this call itself exhausts it before the switch.         *)
RequestsBounded ==
  \A c \in Caller : sent[c] <= MaxSent

(* set_budget's docstring: once the spending has reached the limit the check  *)
(* after the call raises, so that no later request is sent.                   *)
NothingSentOverBudget ==
  [][\A c \in Caller : sent'[c] > sent[c] /\ c \in asking => spent' < Limit]_agentVars
=============================================================================
