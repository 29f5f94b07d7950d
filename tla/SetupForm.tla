------------------------------ MODULE SetupForm ------------------------------
(***************************************************************************)
(* The setup form (models/setup.py, cli/commands/setup.py): which forms    *)
(* are accepted, and what one agent is configured with.  Agents do not     *)
(* depend on one another, so one stands for all.                           *)
(***************************************************************************)
EXTENDS Sequences, SequencesExt

Provider == {"anthropic", "openai"}
NoChoice == [provider |-> "none", model |-> "none"]
Choice == {NoChoice} \cup [provider : Provider, model : {"x", "y"}]

FormCase ==
  [on : SUBSET Provider, models : [Provider -> {<<>>, <<"x">>, <<"y", "x">>}],
   default : Provider \cup {"none"}, choice : Choice, fallback : Choice,
   overrides : {"valid", "invalid"}]

\* The provider that was named, or the only one there is.
DefaultProvider(form) ==
  IF form.default # "none" THEN form.default ELSE CHOOSE x \in form.on : TRUE

Offered(form, choice) ==
  choice # NoChoice =>
    choice.provider \in form.on /\ choice.model \in ToSet(form.models[choice.provider])

ValidForm(form) ==
  /\ form.on # {}
  /\ \A x \in form.on : form.models[x] # <<>>
  /\ IF form.default = "none" THEN form.on # Provider ELSE form.default \in form.on
  /\ Offered(form, form.choice)
  /\ Offered(form, form.fallback)

First(form, provider) == [provider |-> provider, model |-> form.models[provider][1]]

(* With both providers on, an agent of the default provider falls back to the *)
(* chosen model, else to the other provider's first, and an agent of the      *)
(* other provider to the default; with one, to the default model.  Nothing    *)
(* falls back to itself.                                                      *)
SelfPointing(form, own) ==   \* mutant
  IF own.provider = DefaultProvider(form) /\ form.fallback # NoChoice THEN form.fallback
  ELSE First(form, DefaultProvider(form))
Fallback(form, own) ==
  LET default == DefaultProvider(form)
      wanted ==
        IF form.on = Provider /\ own.provider = default
        THEN IF form.fallback # NoChoice THEN form.fallback
             ELSE First(form, CHOOSE x \in Provider \ {default} : TRUE)
        ELSE First(form, default)
  IN IF wanted = own THEN NoChoice ELSE wanted

AgentBlock(form) ==
  LET own == IF form.choice # NoChoice THEN form.choice
             ELSE First(form, DefaultProvider(form))
  IN [own |-> own, fallback |-> Fallback(form, own)]

(* The keys are written before the configuration is validated, the            *)
(* configuration only after.                                                  *)
ApplySetupPayload(form) ==
  IF ~ValidForm(form) THEN [env |-> FALSE, config |-> FALSE, agent |-> NoChoice]
  ELSE [env |-> TRUE, config |-> form.overrides = "valid", agent |-> AgentBlock(form)]
=============================================================================
