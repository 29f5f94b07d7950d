------------------------------ MODULE PartProofs ------------------------------
(* The parts of the tools: for each, the inductive invariant that carries its *)
(* safety property, and the theorem for every value of its constants.  A part *)
(* moves alone, so each proof looks at the steps of its own part only.        *)
EXTENDS ToolProperties, FiniteSetTheorems, TLAPS

-----------------------------------------------------------------------------
(* A step of the whole is a step of each part, or leaves the part alone: what *)
(* is proved of a part's own steps holds of every behaviour.                  *)
LEMMA PartsStandApart ==
  ASSUME [ToolsNext]_toolVars
  PROVE  /\ [AgentNext]_agentVars /\ [PoolNext]_poolVars /\ [ClientNext]_clientVars
         /\ [DisputeNext]_disputeVars /\ [Judge]_judgeVars /\ [LayerNext]_layerVars
         /\ [PlanNext]_planVars /\ [ReplayNext]_replayVars /\ [WebNext]_webVars
         /\ [LedgerNext]_ledgerVars /\ [RoutingNext]_routingVars
<1>1. CASE UNCHANGED toolVars
  BY <1>1, Zenon DEF toolVars, parts
<1>2. CASE ToolsNext
  <2>1. ASSUME NEW a \in Algorithms, Only(a)
        PROVE  /\ UNCHANGED agentVars /\ UNCHANGED poolVars /\ UNCHANGED clientVars
               /\ UNCHANGED disputeVars /\ UNCHANGED judgeVars /\ UNCHANGED layerVars
               /\ UNCHANGED planVars /\ UNCHANGED replayVars /\ UNCHANGED webVars
               /\ UNCHANGED ledgerVars /\ UNCHANGED routingVars
    BY <2>1, ZenonT(30) DEF Only, Algorithms
  <2>2. CASE AskAlgorithm
    BY <2>1, <2>2 DEF AskAlgorithm, Algorithms
  <2>3. CASE Only("calls") /\ AgentNext
    BY <2>3 DEF Only
  <2>4. CASE Only("keys") /\ PoolNext
    BY <2>4 DEF Only
  <2>5. CASE Only("client") /\ ClientNext
    BY <2>5 DEF Only
  <2>6. CASE Only("dispute") /\ DisputeNext
    BY <2>6 DEF Only
  <2>7. CASE Only("judge") /\ Judge
    BY <2>7 DEF Only
  <2>8. CASE Only("routing") /\ RoutingNext
    BY <2>8 DEF Only
  <2>9. CASE Only("layers") /\ LayerNext
    BY <2>9 DEF Only
  <2>10. CASE Only("plan") /\ PlanNext
    BY <2>10 DEF Only
  <2>11. CASE Only("replay") /\ ReplayNext
    BY <2>11 DEF Only
  <2>12. CASE Only("web") /\ WebNext
    BY <2>12 DEF Only
  <2>13. CASE Only("ledger") /\ LedgerNext
    BY <2>13 DEF Only
  <2>14. CASE Only("memory") /\ MemoryNext
    BY <2>14 DEF Only
  <2>. QED  BY <1>2, <2>2, <2>3, <2>4, <2>5, <2>6, <2>7, <2>8, <2>9, <2>10, <2>11, <2>12,
               <2>13, <2>14 DEF ToolsNext
<1>. QED  BY <1>1, <1>2

-----------------------------------------------------------------------------
(* Request forms. *)
Form == {"json_schema", "json_object", "tool_use", "prompt"}
Error == {"bad_request", "rate_limit", "auth", "overload", "refuses_thinking", "not_found",
          "unprocessable", "type_error", "empty", "no_tool_use"}
Configured == [wire : {"anthropic", "openai"}, thinking : BOOLEAN, url : {"own", "common", "none"}]

\* The forms sent are the first of the client's, in its order; every error
\* but the last says that its form is not supported, and the last one does so
\* only if no form was left.
ClientInv ==
  /\ outcome \in {"none", "open", "text", "error"} /\ tier \in Nat
  /\ sentAs \in Seq(Form) /\ met \in Seq(Error)
  /\ outcome = "none" => tier = 0 /\ sentAs = <<>> /\ met = <<>>
  /\ outcome # "none" =>
       /\ client \in Configured
       /\ Len(sentAs) = tier + 1 /\ tier < Len(Tiers(client))
       /\ \A i \in 1 .. tier + 1 : sentAs[i] = Tiers(client)[i]
       /\ Len(met) = IF outcome = "error" THEN tier + 1 ELSE tier
       /\ \A i \in 1 .. tier : NotSupported(client, met[i])
  /\ outcome = "error" => (NotSupported(client, met[tier + 1]) => tier + 1 = Len(Tiers(client)))
  /\ client # NoClient => client \in Configured

LEMMA TiersAre ==
  ASSUME NEW c \in Configured
  PROVE  /\ Tiers(c) \in Seq(Form) /\ Len(Tiers(c)) \in 1 .. 3
         /\ Tiers(c)[Len(Tiers(c))] = "prompt"
         /\ \A i, j \in 1 .. Len(Tiers(c)) : Tiers(c)[i] = Tiers(c)[j] => i = j
<1>1. CASE c.wire = "openai"
  <2>1. Tiers(c) = <<"json_schema", "json_object", "prompt">>
    BY <1>1 DEF Tiers
  <2>. QED  BY <2>1 DEF Form
<1>2. CASE c.wire # "openai" /\ c.thinking
  <2>1. Tiers(c) = <<"prompt">>
    BY <1>2 DEF Tiers
  <2>. QED  BY <2>1 DEF Form
<1>3. CASE c.wire # "openai" /\ ~c.thinking
  <2>1. Tiers(c) = <<"tool_use", "prompt">>
    BY <1>3 DEF Tiers
  <2>. QED  BY <2>1 DEF Form
<1>. QED  BY <1>1, <1>2, <1>3

LEMMA ErrorsAreErrors == ASSUME NEW form PROVE ErrorsOf(form) \subseteq Error
BY DEF ErrorsOf, Error

LEMMA ClientInvStarts == ClientInit => ClientInv
BY DEF ClientInit, ClientInv, NoClient

LEMMA ClientInvKept ==
  ASSUME ClientInv, [ClientNext]_clientVars
  PROVE  ClientInv'
<1>. USE DEF ClientInv
<1>1. CASE UNCHANGED clientVars
  BY <1>1 DEF clientVars
<1>2. CASE CreateClient
  <2>1. PICK provider \in DOMAIN Registry, own \in BOOLEAN, common \in BOOLEAN, thinking \in BOOLEAN :
          client' = [wire |-> Registry[provider].wire, thinking |-> thinking,
                     url |-> BaseUrl(Registry[provider], own, common)]
    BY <1>2 DEF CreateClient
  <2>2. Registry[provider].wire \in {"anthropic", "openai"}
    BY DEF Registry
  <2>3. client' \in Configured
    BY <2>1, <2>2 DEF BaseUrl, Configured
  <2>4. outcome = "none"
    BY <1>2 DEF CreateClient, NoClient, Configured
  <2>. QED  BY <1>2, <2>3, <2>4 DEF CreateClient
<1>3. CASE StartRequest
  <2>1. client \in Configured
    BY <1>3 DEF StartRequest
  <2>2. Tiers(client)[1] \in Form /\ Len(Tiers(client)) \in 1 .. 3
    BY <2>1, TiersAre
  <2>. QED  BY <1>3, <2>1, <2>2 DEF StartRequest
<1>4. CASE RequestAnswered
  BY <1>4 DEF RequestAnswered
<1>5. CASE RequestFails
  <2>1. PICK e \in ErrorsOf(sentAs[Len(sentAs)]) :
          /\ met' = Append(met, e)
          /\ IF NotSupported(client, e) /\ tier + 1 < Len(Tiers(client))
             THEN /\ tier' = tier + 1
                  /\ sentAs' = Append(sentAs, Tiers(client)[tier + 2])
                  /\ UNCHANGED outcome
             ELSE outcome' = "error" /\ UNCHANGED <<tier, sentAs>>
    BY <1>5 DEF RequestFails
  <2>2. e \in Error
    BY <2>1, ErrorsAreErrors
  <2>3. client \in Configured /\ outcome = "open" /\ client' = client /\ Len(met) = tier
    BY <1>5 DEF RequestFails
  <2>4. /\ met' \in Seq(Error) /\ Len(met') = tier + 1 /\ met'[tier + 1] = e
        /\ \A i \in 1 .. tier : met'[i] = met[i]
    BY <2>1, <2>2, <2>3
  <2>5. Tiers(client) \in Seq(Form) /\ Len(Tiers(client)) \in 1 .. 3
    BY <2>3, TiersAre
  <2>6. CASE NotSupported(client, e) /\ tier + 1 < Len(Tiers(client))
    <3>1. Tiers(client)[tier + 2] \in Form
      BY <2>5, <2>6
    <3>2. /\ sentAs' \in Seq(Form) /\ Len(sentAs') = tier + 2 /\ sentAs'[tier + 2] = Tiers(client)[tier + 2]
          /\ \A i \in 1 .. tier + 1 : sentAs'[i] = sentAs[i]
      <4>1. sentAs \in Seq(Form) /\ Len(sentAs) = tier + 1 /\ tier \in Nat
        BY <2>3
      <4>2. sentAs' = Append(sentAs, Tiers(client)[tier + 2])
        BY <2>1, <2>6
      <4>. QED  BY <3>1, <4>1, <4>2
    <3>. QED  BY <2>1, <2>3, <2>4, <2>6, <3>2
  <2>7. CASE ~(NotSupported(client, e) /\ tier + 1 < Len(Tiers(client)))
    BY <2>1, <2>3, <2>4, <2>5, <2>7
  <2>. QED  BY <2>6, <2>7
<1>. QED  BY <1>1, <1>2, <1>3, <1>4, <1>5 DEF ClientNext

LEMMA FormsFollow == ClientInv => FormsInOrder
<1>. SUFFICES ASSUME ClientInv PROVE FormsInOrder
  OBVIOUS
<1>1. CASE outcome = "none"
  BY <1>1 DEF ClientInv, FormsInOrder
<1>2. CASE outcome # "none"
  <2>. USE DEF ClientInv
  <2>0. client \in Configured /\ Len(sentAs) = tier + 1 /\ DOMAIN sentAs = 1 .. tier + 1
    BY <1>2
  <2>1. /\ Len(Tiers(client)) \in 1 .. 3
        /\ Tiers(client)[Len(Tiers(client))] = "prompt"
        /\ \A i, j \in 1 .. Len(Tiers(client)) : Tiers(client)[i] = Tiers(client)[j] => i = j
    BY <2>0, TiersAre
  <2>2. ASSUME NEW i \in DOMAIN sentAs, i > 1
        PROVE  met[i - 1] \notin {"rate_limit", "overload", "auth"}
    BY <1>2, <2>0, <2>2 DEF NotSupported
  <2>3. ASSUME NEW i \in DOMAIN sentAs, NEW j \in DOMAIN sentAs, sentAs[i] = sentAs[j]
        PROVE  i = j
    BY <1>2, <2>0, <2>1, <2>3
  <2>4. ASSUME outcome = "error", met[Len(met)] = "bad_request"
        PROVE  sentAs[Len(sentAs)] = "prompt"
    <3>1. NotSupported(client, met[tier + 1])
      BY <1>2, <2>4 DEF NotSupported
    <3>. QED  BY <1>2, <2>0, <2>1, <2>4, <3>1
  <2>. QED  BY <2>2, <2>3, <2>4 DEF FormsInOrder
<1>. QED  BY <1>1, <1>2

(* A structured request goes through the client's forms in their order, each  *)
(* once: the next is sent only because the one before was not supported, and  *)
(* the request fails with a bad request only when the last was refused.       *)
THEOREM FormsAreTriedInOrder == ToolsSpec => []FormsInOrder
<1>1. ToolsInit => ClientInv
  BY ClientInvStarts DEF ToolsInit
<1>2. ClientInv /\ [ToolsNext]_toolVars => ClientInv'
  BY ClientInvKept, PartsStandApart
<1>. QED  BY <1>1, <1>2, FormsFollow, PTL DEF ToolsSpec

-----------------------------------------------------------------------------
(* A layer under dispute. *)
Open(f) == recordOf[f] # "skip" /\ defects[f] # {} /\ f \notin unread

\* What carries NoDefectSlipsThrough: from a review on, every file it read
\* that holds a defect has an issue that must be fixed, which a dispute cannot
\* close and an approval does not survive.
DisputeInv ==
  /\ progress \in {"judged", "approved", "exhausted"} =>
       \A f \in LayerFile : Open(f) => \E i \in issues : i.file = f /\ i.must
  /\ progress = "approved" => Approved(issues)
  /\ progress = "exhausted" => Stuck(issues) \subseteq escalatedTo

LEMMA DefectIsAnIssue ==
  ASSUME NEW f \in LayerFile, defects[f] # {}
  PROVE  \E i \in Deterministic(f) : i.file = f /\ i.must
<1>1. PICK d : d \in defects[f]
  OBVIOUS
<1>2. Issue(f, d, "critical", TRUE, FALSE) \in Deterministic(f)
  BY <1>1 DEF Deterministic
<1>. QED  BY <1>2 DEF Issue

LEMMA ReviewKeepsDispute ==
  ASSUME Review
  PROVE  DisputeInv'
<1>1. PICK said \in [Risky -> ReviewAnswer \cup {"failed", "raised"}] :
        LET heards == {f \in Risky : said[f] # "raised"}
        IN /\ issues' = UNION {Deterministic(f) : f \in (Reviewed \ Risky) \cup heards}
                          \cup UNION {Finding(f, said[f]) : f \in heards}
           /\ unread' = Risky \ heards
  BY Zenon DEF Review, ReviewBatch
<1>2. progress' = "judged" /\ UNCHANGED <<recordOf, defects>>
  BY DEF Review
<1>3. ASSUME NEW f \in LayerFile, Open(f)'
      PROVE  \E i \in issues' : i.file = f /\ i.must
  <2>1. recordOf[f] # "skip" /\ defects[f] # {} /\ f \notin unread'
    BY <1>2, <1>3 DEF Open
  <2>2. f \in (Reviewed \ Risky) \cup {g \in Risky : said[g] # "raised"}
    BY <1>1, <2>1 DEF Reviewed
  <2>3. Deterministic(f) \subseteq issues'
    BY <1>1, <2>2
  <2>. QED  BY <2>1, <2>3, DefectIsAnIssue
<1>. QED  BY <1>2, <1>3 DEF DisputeInv

LEMMA DisputeInvKept ==
  ASSUME DisputeInv, [DisputeNext]_disputeVars
  PROVE  DisputeInv'
<1>1. CASE UNCHANGED disputeVars
  BY <1>1 DEF disputeVars, DisputeInv, Open, Approved, Stuck
<1>2. CASE MergeLayerFiles
  BY <1>2 DEF MergeLayerFiles, DisputeInv
<1>3. CASE Review
  BY <1>3, ReviewKeepsDispute
<1>4. CASE AcceptAll
  BY <1>4 DEF AcceptAll, Repair, DisputeInv
<1>5. CASE ReEvaluate
  <2>1. Authoritative(issues) \subseteq issues'
    BY <1>5 DEF ReEvaluate
  <2>2. progress = "judged" /\ UNCHANGED <<progress, recordOf, defects, unread>>
    BY <1>5 DEF ReEvaluate, Disputing
  <2>3. ASSUME NEW f \in LayerFile, Open(f)'
        PROVE  \E i \in issues' : i.file = f /\ i.must
    <3>1. PICK i \in issues : i.file = f /\ i.must
      BY <2>2, <2>3 DEF DisputeInv, Open
    <3>. QED  BY <2>1, <3>1 DEF Authoritative
  <2>. QED  BY <2>2, <2>3 DEF DisputeInv
<1>6. CASE Approve
  BY <1>6 DEF Approve, DisputeInv, Open, Approved, Stuck
<1>7. CASE GiveUp
  BY <1>7 DEF GiveUp, DisputeInv, Open, Approved, Stuck
<1>. QED  BY <1>1, <1>2, <1>3, <1>4, <1>5, <1>6, <1>7 DEF DisputeNext

\* A file with a defect has an issue that must be fixed: so its layer is not
\* approved, and it is among the files a person is asked about.
LEMMA DefectsAreSeen == DisputeInv => NoDefectSlipsThrough
<1>. SUFFICES ASSUME DisputeInv, NEW f \in LayerFile, Open(f),
                     progress \in {"approved", "exhausted"}
              PROVE  progress # "approved" /\ f \in escalatedTo
  BY Zenon DEF NoDefectSlipsThrough, Open
<1>1. PICK i \in issues : i.file = f /\ i.must
  BY DEF DisputeInv
<1>2. ~Approved(issues)
  BY <1>1 DEF Approved
<1>3. f \in Stuck(issues)
  BY <1>1 DEF Stuck
<1>. QED  BY <1>2, <1>3 DEF DisputeInv

(* No layer is approved over a syntax error or a conflict marker that a       *)
(* review read, for any layer, any number of rounds and any chunking of the   *)
(* reviews: NoDefectSlipsThrough holds of every behaviour.                    *)
THEOREM DefectsNeverSlipThrough == ToolsSpec => []NoDefectSlipsThrough
<1>1. ToolsInit => DisputeInv
  BY DEF ToolsInit, DisputeInit, DisputeInv
<1>2. DisputeInv /\ [ToolsNext]_toolVars => DisputeInv'
  BY DisputeInvKept, PartsStandApart
<1>. QED  BY <1>1, <1>2, DefectsAreSeen, PTL DEF ToolsSpec

-----------------------------------------------------------------------------
(* What a run has paid. *)
Amount == [usd : Nat, tokens : Nat]
Covers(a, b) == a.usd >= b.usd /\ a.tokens >= b.tokens

\* What each account covers.  The checkpoint may lack what the phase now
\* running has paid, since a death counts that as lost; the summary too, until
\* the snapshot that ends the phase.
LedgerInv ==
  /\ doing \in {"idle", "loop", "phase", "over", "dead"}
  /\ {priorSummary, tracked, summary, paid, lost, unsaved} \subseteq Amount
  /\ saved = NoCheckpoint \/ saved \in Amount
  /\ doing \in {"loop", "phase"} => Covers(Plus(Plus(priorSummary, tracked), lost), paid)
  /\ doing \in {"idle", "loop", "phase"} => Covers(Plus(Plus(summary, lost), unsaved), paid)
  /\ saved # NoCheckpoint => Covers(Plus(Plus(saved, lost), unsaved), paid)
  /\ doing # "phase" => unsaved = Nothing

LEMMA AmountsAdd ==
  ASSUME NEW a \in Amount, NEW b \in Amount
  PROVE  /\ Plus(a, b) \in Amount
         /\ Plus(a, b).usd = a.usd + b.usd /\ Plus(a, b).tokens = a.tokens + b.tokens
BY DEF Plus, Amount

LEMMA LedgerInvKept ==
  ASSUME LedgerInv, [LedgerNext]_ledgerVars
  PROVE  LedgerInv'
<1>0. /\ priorSummary \in Amount /\ tracked \in Amount /\ summary \in Amount /\ paid \in Amount
      /\ lost \in Amount /\ unsaved \in Amount /\ Nothing \in Amount
      /\ Nothing.usd = 0 /\ Nothing.tokens = 0
  BY DEF LedgerInv, Nothing, Amount
<1>00. \A a \in Amount : a.usd \in Nat /\ a.tokens \in Nat
  BY DEF Amount
<1>1. CASE UNCHANGED ledgerVars
  BY <1>1 DEF ledgerVars, LedgerInv, Covers, Plus
<1>2. CASE Run
  <2>1. Covers(Plus(Plus(summary, lost), unsaved), paid) /\ unsaved = Nothing
    BY <1>2 DEF Run, LedgerInv
  <2>2. Covers(Plus(Plus(summary, tracked), lost), paid)
    BY <1>0, <1>00, <2>1, AmountsAdd DEF Covers
  <2>. QED  BY <1>0, <1>2, <2>1, <2>2 DEF Run, LedgerInv
<1>3. ASSUME doing \in {"loop", "phase"}, SnapshotAndSave, doing' \in {"idle", "loop", "over"},
             UNCHANGED <<priorSummary, tracked, paid, lost>>
      PROVE  LedgerInv'
  <2>1. Covers(Plus(Plus(priorSummary, tracked), lost), paid)
    BY <1>3 DEF LedgerInv
  <2>2. summary' = Plus(priorSummary, tracked) /\ saved' = summary' /\ unsaved' = Nothing
    BY <1>3 DEF SnapshotAndSave
  <2>3. summary' \in Amount
    BY <1>0, <2>2, AmountsAdd
  <2>4. Covers(Plus(Plus(summary', lost), Nothing), paid)
    BY <1>0, <1>00, <2>1, <2>2, <2>3, AmountsAdd DEF Covers
  <2>. QED  BY <1>0, <1>3, <2>1, <2>2, <2>3, <2>4 DEF LedgerInv
<1>4. CASE CeilingHalt
  BY <1>3, <1>4 DEF CeilingHalt
<1>5. CASE StartPhase
  BY <1>5 DEF StartPhase, LedgerInv
<1>6. ASSUME NEW price \in Price, Call(price)
      PROVE  LedgerInv'
  <2>. DEFINE cost == CostOf(price)
  <2>1. cost \in Amount
    BY DEF CostOf, Amount
  <2>2. /\ tracked' = Plus(tracked, cost) /\ paid' = Plus(paid, cost) /\ unsaved' = Plus(unsaved, cost)
        /\ doing = "phase" /\ UNCHANGED <<doing, priorSummary, summary, saved, lost>>
    BY <1>6 DEF Call
  <2>. HIDE DEF cost
  <2>3. tracked' \in Amount /\ paid' \in Amount /\ unsaved' \in Amount
    BY <1>0, <2>1, <2>2, AmountsAdd
  <2>4. Covers(Plus(Plus(priorSummary, tracked'), lost), paid')
    <3>1. Covers(Plus(Plus(priorSummary, tracked), lost), paid)
      BY <2>2 DEF LedgerInv
    <3>. QED  BY <1>0, <1>00, <2>1, <2>2, <2>3, <3>1, AmountsAdd DEF Covers
  <2>5. ASSUME NEW a \in Amount, Covers(Plus(Plus(a, lost), unsaved), paid)
        PROVE  Covers(Plus(Plus(a, lost), unsaved'), paid')
    BY <1>0, <1>00, <2>1, <2>2, <2>3, <2>5, AmountsAdd DEF Covers
  <2>. QED  BY <1>0, <2>2, <2>3, <2>4, <2>5 DEF LedgerInv
<1>7. CASE BudgetExceeded
  BY <1>3, <1>7 DEF BudgetExceeded
<1>8. CASE EndPhase
  BY <1>3, <1>8 DEF EndPhase
<1>9. CASE Die
  <2>1. /\ saved' \in {saved, summary} /\ doing' = "dead" /\ lost' = Plus(lost, unsaved)
        /\ tracked' = Nothing /\ priorSummary' = Nothing /\ unsaved' = Nothing
        /\ UNCHANGED <<summary, paid>> /\ doing \in {"idle", "loop", "phase"}
    BY <1>9 DEF Die
  <2>2. lost' \in Amount
    BY <1>0, <2>1, AmountsAdd
  <2>3. ASSUME NEW a \in Amount, Covers(Plus(Plus(a, lost), unsaved), paid)
        PROVE  Covers(Plus(Plus(a, lost'), Nothing), paid)
    BY <1>0, <1>00, <2>1, <2>2, <2>3, AmountsAdd DEF Covers
  <2>. QED  BY <1>0, <2>1, <2>2, <2>3 DEF LedgerInv
<1>10. CASE Resume
  BY <1>0, <1>10 DEF Resume, LedgerInv
<1>. QED  BY <1>1, <1>2, <1>4, <1>5, <1>6, <1>7, <1>8, <1>9, <1>10 DEF LedgerNext

LEMMA SpendingFollows == LedgerInv => SpendIsCounted
<1>. SUFFICES ASSUME LedgerInv, doing \in {"loop", "phase"}
              PROVE  /\ Plus(priorSummary, tracked).usd + lost.usd >= paid.usd
                     /\ Plus(priorSummary, tracked).tokens + lost.tokens >= paid.tokens
  BY Zenon DEF SpendIsCounted
<1>1. priorSummary \in Amount /\ tracked \in Amount /\ lost \in Amount /\ Plus(priorSummary, tracked) \in Amount
  BY AmountsAdd DEF LedgerInv
<1>. QED  BY <1>1, AmountsAdd DEF LedgerInv, Covers

(* What the ceiling is compared with covers what the finished phases of every *)
(* process paid, for any prices paid, any ceilings and any number of runs,    *)
(* deaths and resumes: SpendIsCounted holds of every behaviour.               *)
THEOREM SpendingIsCounted == ToolsSpec => []SpendIsCounted
<1>1. ToolsInit => LedgerInv
  BY DEF ToolsInit, LedgerInit, LedgerInv, Nothing, Amount, Covers, Plus
<1>2. LedgerInv /\ [ToolsNext]_toolVars => LedgerInv'
  BY LedgerInvKept, PartsStandApart
<1>. QED  BY <1>1, <1>2, SpendingFollows, PTL DEF ToolsSpec

-----------------------------------------------------------------------------
(* The web loop. *)

\* The gate the loop waits at is still open, or its event is set: every answer
\* that closes a gate sets its event, whether or not anyone waits.
LEMMA WakingKept ==
  ASSUME AnsweredGateWakes, [WebNext]_webVars
  PROVE  AnsweredGateWakes'
<1>. USE DEF AnsweredGateWakes, loopVars, setupVars, answers
<1>1. CASE UNCHANGED webVars
  BY <1>1 DEF webVars, Unanswered
<1>2. CASE TransitionToRun \/ Connected \/ HumanReviewRuns \/ RunReturns
  BY <1>2 DEF TransitionToRun, Connected, HumanReviewRuns, RunReturns
<1>3. CASE RunStops \/ RunEnds
  BY <1>3 DEF RunStops, StopAt, RunEnds
<1>4. CASE AfterRun
  <2>1. serving' = "judge" => resolution' = "none"
    BY <1>4 DEF AfterRun, OpenGate
  <2>2. serving' = "conflicts" => Unanswered' # {}
    BY <1>4 DEF AfterRun, OpenGate, Unanswered
  <2>. QED  BY <2>1, <2>2
<1>5. CASE Wake \/ RunAgain
  BY <1>5 DEF Wake, RunAgain
<1>6. CASE SetupSubmit
  BY <1>6 DEF SetupSubmit, Unanswered
<1>7. ASSUME NEW s \in SUBSET AskedFile, ApplyDecisions(s)
      PROVE  AnsweredGateWakes'
  <2>1. Unanswered' = {} => Unanswered \subseteq s
    BY <1>7 DEF ApplyDecisions, Unanswered
  <2>2. woken \subseteq woken' /\ (Unanswered \subseteq s => "conflicts" \in woken')
    BY <1>7 DEF ApplyDecisions
  <2>3. UNCHANGED <<serving, resolution>>
    BY <1>7 DEF ApplyDecisions
  <2>. QED  BY <2>1, <2>2, <2>3
<1>8. CASE ApplyPlanReview \/ ApplyUserPlanDecisions
  BY <1>8 DEF ApplyPlanReview, ApplyUserPlanDecisions, Unanswered
<1>9. CASE ApplyJudgeResolution
  BY <1>9 DEF ApplyJudgeResolution, Unanswered
<1>10. CASE HandleCancelRun
  BY <1>10 DEF HandleCancelRun, Gate
<1>. QED  BY <1>1, <1>2, <1>3, <1>4, <1>5, <1>6, <1>7, <1>8, <1>9, <1>10
          DEF WebNext, ServeNext, Command

(* The loop never sleeps over an answer it has, for any files and gates and   *)
(* any order of the browsers' commands: AnsweredGateWakes is an invariant,    *)
(* and needs no strengthening.                                                *)
THEOREM AnsweredGatesWake == ToolsSpec => []AnsweredGateWakes
<1>1. ToolsInit => AnsweredGateWakes
  BY DEF ToolsInit, WebInit, AnsweredGateWakes
<1>2. AnsweredGateWakes /\ [ToolsNext]_toolVars => AnsweredGateWakes'
  BY WakingKept, PartsStandApart
<1>. QED  BY <1>1, <1>2, PTL DEF ToolsSpec

-----------------------------------------------------------------------------
(* The layers of one auto merge. *)

\* A set of numbers that is not empty has its least element where Min says.
LEMMA MinIsLeast ==
  ASSUME NEW S \in SUBSET Nat, S # {}
  PROVE  Min(S) \in S /\ \A y \in S : Min(S) <= y
<1>1. \E x \in S : \A y \in S : ~ (<<y, x>> \in OpToRel(<, Nat))
  BY WFMin, NatLessThanWellFounded, Zenon
<1>2. PICK x \in S : \A y \in S : ~ (<<y, x>> \in OpToRel(<, Nat))
  BY <1>1
<1>3. \A y \in S : x <= y
  <2>. SUFFICES ASSUME NEW y \in S PROVE x <= y
    OBVIOUS
  <2>1. x \in Nat /\ y \in Nat /\ <<y, x>> \in Nat \X Nat /\ <<y, x>>[1] = y /\ <<y, x>>[2] = x
    OBVIOUS
  <2>2. ~(y < x)
    BY <1>2, <2>1, Zenon DEF OpToRel
  <2>. QED  BY <2>1, <2>2
<1>. QED  BY <1>3 DEF Min

LeftOut(l) == begunOn[l] = NotBegun
HeldBack(l) == \E d \in dependsOn[l] : holds[d] # "nothing" /\ (d > l \/ LeftOut(d))

\* A layer that was taken up lies before all that are left, and was left out
\* exactly for the reason LayersSkippedForCause gives.
LayerInv ==
  /\ dependsOn \in LayerPlans /\ left \subseteq WithBatches
  /\ DOMAIN begunOn = Layer
  /\ completed = VacuouslyComplete \cup {l \in Layer : ~LeftOut(l)}
  /\ \A l \in left : LeftOut(l)
  /\ \A l \in Layer : ~LeftOut(l) => holds[l] # "nothing" /\ dependsOn[l] \subseteq begunOn[l]
  /\ \A l \in WithBatches \ left : /\ \A m \in left : l < m
                                   /\ LeftOut(l) <=> HeldBack(l)

\* The layer taken up next: nothing of what it needs that comes later is
\* complete yet.
LEMMA NextLayer ==
  ASSUME LayerInv, left # {}
  PROVE  /\ Min(left) \in left /\ Min(left) \in Layer /\ holds[Min(left)] # "nothing"
         /\ \A m \in left \ {Min(left)} : Min(left) < m
         /\ VerifyLayerDeps(Min(left)) <=> ~HeldBack(Min(left))
<1>. DEFINE l == Min(left)
<1>1. left \in SUBSET Nat /\ left \subseteq Layer /\ Layer \subseteq Nat /\ WithBatches \subseteq Layer
  BY LayerAssumption DEF LayerInv, WithBatches
<1>2. l \in left /\ (\A y \in left : l <= y)
  BY <1>1, MinIsLeast
<1>. HIDE DEF l
<1>3. l \in Layer /\ holds[l] # "nothing"
  BY <1>1, <1>2 DEF LayerInv, WithBatches
<1>4. \A m \in left \ {l} : l < m
  BY <1>1, <1>2
<1>5. dependsOn[l] \subseteq Layer /\ l \notin dependsOn[l]
  BY <1>3, LayerAssumption DEF LayerInv
<1>6. ASSUME NEW d \in dependsOn[l]
      PROVE  d \notin completed <=> holds[d] # "nothing" /\ (d > l \/ LeftOut(d))
  <2>1. d \in Layer /\ d # l
    BY <1>5, <1>6
  <2>2. d \notin completed <=> holds[d] # "nothing" /\ LeftOut(d)
    BY <2>1 DEF LayerInv, VacuouslyComplete, WithBatches
  <2>3. ASSUME holds[d] # "nothing", d > l PROVE LeftOut(d)
    <3>1. d \in left
      <4>. SUFFICES ASSUME d \notin left PROVE FALSE
        OBVIOUS
      <4>1. d < l
        BY <1>2, <2>1, <2>3 DEF LayerInv, WithBatches
      <4>. QED  BY <1>1, <1>3, <2>1, <2>3, <4>1
    <3>. QED  BY <3>1 DEF LayerInv
  <2>. QED  BY <2>2, <2>3
<1>7. VerifyLayerDeps(l) <=> ~HeldBack(l)
  BY <1>6 DEF VerifyLayerDeps, HeldBack
<1>. QED  BY <1>2, <1>3, <1>4, <1>7 DEF l

LEMMA LayerInvKept ==
  ASSUME LayerInv, [LayerNext]_layerVars
  PROVE  LayerInv'
<1>0. Layer \subseteq Nat \ {0} /\ WithBatches \subseteq Layer /\ left \subseteq Layer
      /\ \A l \in Layer : dependsOn[l] \subseteq Layer
  BY LayerAssumption DEF LayerInv, WithBatches
<1>1. CASE UNCHANGED layerVars
  BY <1>1 DEF layerVars, LayerInv, LeftOut, HeldBack, WithBatches, VacuouslyComplete
<1>2. CASE left # {} /\ (MergeOneLayer \/ SkipLayer)
  <2>0. PICK l : l = Min(left)
    OBVIOUS
  <2>1. /\ l \in left /\ l \in Layer /\ holds[l] # "nothing"
        /\ \A m \in left \ {l} : l < m
        /\ VerifyLayerDeps(l) <=> ~HeldBack(l)
    BY <1>2, <2>0, NextLayer
  <2>2. left' = left \ {l} /\ UNCHANGED <<dependsOn, holds>>
    BY <1>2, <2>0 DEF MergeOneLayer, SkipLayer
  <2>3. \/ /\ ~HeldBack(l) /\ VerifyLayerDeps(l)
           /\ begunOn' = [begunOn EXCEPT ![l] = completed] /\ completed' = completed \cup {l}
        \/ HeldBack(l) /\ UNCHANGED <<begunOn, completed>>
    BY <1>2, <2>0, <2>1 DEF MergeOneLayer, SkipLayer
  <2>4. DOMAIN begunOn' = Layer /\ (\A m \in Layer \ {l} : begunOn'[m] = begunOn[m])
        /\ (HeldBack(l) => begunOn'[l] = begunOn[l])
        /\ (~HeldBack(l) => begunOn'[l] = completed)
    BY <2>1, <2>3 DEF LayerInv
  <2>5. completed # NotBegun
    <3>1. 0 \notin completed
      BY <1>0 DEF LayerInv, VacuouslyComplete
    <3>. QED  BY <3>1 DEF NotBegun
  <2>6. LeftOut(l)' <=> HeldBack(l)
    BY <2>1, <2>4, <2>5 DEF LayerInv, LeftOut
  <2>7. \A m \in Layer \ {l} : LeftOut(m)' <=> LeftOut(m)
    BY <2>4 DEF LeftOut
  <2>8. WithBatches' = WithBatches /\ VacuouslyComplete' = VacuouslyComplete
    BY <2>2 DEF WithBatches, VacuouslyComplete
  <2>9. completed' = VacuouslyComplete \cup {m \in Layer : ~LeftOut(m)'}
    <3>1. completed' = IF HeldBack(l) THEN completed ELSE completed \cup {l}
      BY <2>3
    <3>2. LeftOut(l) /\ l \notin VacuouslyComplete
      BY <2>1 DEF LayerInv, VacuouslyComplete, WithBatches
    <3>3. {m \in Layer : ~LeftOut(m)'} =
            IF HeldBack(l) THEN {m \in Layer : ~LeftOut(m)} ELSE {m \in Layer : ~LeftOut(m)} \cup {l}
      BY <2>1, <2>6, <2>7, <3>2
    <3>. QED  BY <3>1, <3>3 DEF LayerInv
  <2>10. \A m \in Layer : ~LeftOut(m)' => holds[m] # "nothing" /\ dependsOn[m] \subseteq begunOn'[m]
    BY <2>1, <2>3, <2>4, <2>6, <2>7 DEF LayerInv, VerifyLayerDeps
  <2>11. ASSUME NEW m \in WithBatches \ left'
         PROVE  (\A k \in left' : m < k) /\ (LeftOut(m)' <=> HeldBack(m)')
    <3>1. CASE m = l
      <4>1. HeldBack(l)' <=> HeldBack(l)
        <5>1. l \notin dependsOn[l] /\ dependsOn[l] \subseteq Layer
          BY <1>0, <2>1, LayerAssumption DEF LayerInv
        <5>. QED  BY <2>2, <2>7, <5>1 DEF HeldBack
      <4>. QED  BY <2>1, <2>2, <2>6, <3>1, <4>1
    <3>2. CASE m # l
      <4>1. m \in WithBatches \ left /\ m \in Layer
        BY <1>0, <2>2, <3>2
      <4>2. m < l
        BY <2>1, <4>1 DEF LayerInv
      <4>3. l > m
        BY <1>0, <2>1, <4>1, <4>2
      <4>4. HeldBack(m)' <=> HeldBack(m)
        <5>1. \A d \in dependsOn[m] : d \in Layer /\ (d = l \/ (LeftOut(d)' <=> LeftOut(d)))
          BY <1>0, <2>7, <4>1
        <5>. QED  BY <2>2, <4>3, <5>1 DEF HeldBack
      <4>. QED  BY <2>2, <2>7, <3>2, <4>1, <4>4 DEF LayerInv
    <3>. QED  BY <3>1, <3>2
  <2>12. \A m \in left' : LeftOut(m)'
    BY <1>0, <2>2, <2>7 DEF LayerInv
  <2>. QED  BY <2>2, <2>4, <2>8, <2>9, <2>10, <2>11, <2>12 DEF LayerInv
<1>3. CASE EnterAgain
  <2>1. UNCHANGED <<dependsOn, holds>> /\ left' = WithBatches /\ completed' = VacuouslyComplete
        /\ begunOn' = [l \in Layer |-> NotBegun]
    BY <1>3 DEF EnterAgain
  <2>2. WithBatches' = WithBatches /\ VacuouslyComplete' = VacuouslyComplete
    BY <2>1 DEF WithBatches, VacuouslyComplete
  <2>3. \A l \in Layer : LeftOut(l)'
    BY <2>1 DEF LeftOut
  <2>. QED  BY <1>0, <2>1, <2>2, <2>3 DEF LayerInv
<1>4. MergeOneLayer \/ SkipLayer => left # {}
  BY DEF MergeOneLayer, SkipLayer
<1>. QED  BY <1>1, <1>2, <1>3, <1>4 DEF LayerNext

(* For any plan and any layers: a layer is merged on what it depends on, and  *)
(* left out only for a layer that comes later or was itself left out.         *)
THEOREM LayersAreSkippedForCause == ToolsSpec => []LayersSkippedForCause
<1>1. ToolsInit => LayerInv
  <2>. SUFFICES ASSUME LayerInit PROVE LayerInv
    BY DEF ToolsInit
  <2>1. \A l \in Layer : LeftOut(l)
    BY DEF LayerInit, LeftOut
  <2>2. {l \in Layer : ~LeftOut(l)} = {}
    BY <2>1
  <2>3. WithBatches \ left = {} /\ WithBatches \subseteq Layer
    BY DEF LayerInit, WithBatches
  <2>. QED  BY <2>1, <2>2, <2>3 DEF LayerInit, LayerInv
<1>2. LayerInv /\ [ToolsNext]_toolVars => LayerInv'
  BY LayerInvKept, PartsStandApart
<1>3. LayerInv => LayersSkippedForCause
  <2>. SUFFICES ASSUME LayerInv PROVE LayersSkippedForCause
    OBVIOUS
  <2>1. \A l \in Layer : begunOn[l] # NotBegun => dependsOn[l] \subseteq begunOn[l]
    BY DEF LayerInv, LeftOut
  <2>2. ASSUME left = {}, NEW l \in Layer, holds[l] # "nothing"
        PROVE  begunOn[l] = NotBegun
                 <=> \E d \in dependsOn[l] : holds[d] # "nothing" /\ (d > l \/ begunOn[d] = NotBegun)
    BY <2>2 DEF LayerInv, WithBatches, LeftOut, HeldBack
  <2>. QED  BY <2>1, <2>2 DEF LayersSkippedForCause
<1>. QED  BY <1>1, <1>2, <1>3, PTL DEF ToolsSpec

-----------------------------------------------------------------------------
(* The ring of keys. *)
LEMMA RingArithmetic ==
  ASSUME NEW i \in Key, NEW n \in Key
  PROVE  Place(i, n) \in Key /\ Place(i, n + 1) \in Key
         /\ Place(i, n) = IF i + n < PoolSize THEN i + n ELSE i + n - PoolSize
BY PoolSizeAssumption DEF Place, Key

PoolInv == index \in Key /\ cooling \subseteq Key /\ inUse \in Key

\* The ring is looked at all round: a key is found unless every key is
\* cooling, and the one found is not.
LEMMA ActiveKey ==
  ASSUME NEW i \in Key, NEW cool \in SUBSET Key
  PROVE  /\ GetActive(i, cool).index \in Key
         /\ GetActive(i, cool).key = NoKey => cool = Key
         /\ GetActive(i, cool).key # NoKey => GetActive(i, cool).key \in Key \ cool
<1>0. Key \subseteq Nat /\ NoKey \notin Key /\ LookedAt(i, cool) \subseteq Key
  BY PoolSizeAssumption DEF Key, NoKey, LookedAt
<1>1. CASE LookedAt(i, cool) = {}
  <2>1. ASSUME NEW k \in Key PROVE k \in cool
    <3>1. PICK n \in Key : IF i + n < PoolSize THEN k = i + n ELSE k = i + n - PoolSize
      <4>1. CASE k >= i
        <5>1. k - i \in Key /\ i + (k - i) < PoolSize /\ k = i + (k - i)
          BY <4>1, PoolSizeAssumption DEF Key
        <5>. QED  BY <5>1
      <4>2. CASE k < i
        <5>1. k + PoolSize - i \in Key /\ ~(i + (k + PoolSize - i) < PoolSize)
              /\ k = i + (k + PoolSize - i) - PoolSize
          BY <4>2, PoolSizeAssumption DEF Key
        <5>. QED  BY <5>1
      <4>. QED  BY <1>0, <4>1, <4>2
    <3>2. Place(i, n) = k
      BY <3>1, RingArithmetic
    <3>. QED  BY <1>1, <3>2 DEF LookedAt, Key
  <2>. QED  BY <1>1, <2>1 DEF GetActive
<1>2. CASE LookedAt(i, cool) # {}
  <2>1. LookedAt(i, cool) \in SUBSET Nat
    BY <1>0
  <2>2. Min(LookedAt(i, cool)) \in LookedAt(i, cool)
        /\ \A y \in LookedAt(i, cool) : Min(LookedAt(i, cool)) <= y
    BY <1>2, <2>1, MinIsLeast
  <2>. DEFINE n == CHOOSE n \in LookedAt(i, cool) : \A m \in LookedAt(i, cool) : n <= m
  <2>3. n \in LookedAt(i, cool)
    BY <2>2
  <2>4. GetActive(i, cool) = [key |-> Place(i, n), index |-> Place(i, n + 1)]
    BY <1>2 DEF GetActive
  <2>. HIDE DEF n
  <2>5. n \in Key /\ Place(i, n) \notin cool
    BY <1>0, <2>3 DEF LookedAt
  <2>. QED  BY <1>0, <2>4, <2>5, RingArithmetic
<1>. QED  BY <1>1, <1>2

LEMMA RotationKeepsPool ==
  ASSUME PoolInv, RotateKey
  PROVE  PoolInv' /\ (cooling' # cooling => inUse' \notin cooling' \/ cooling' = Key)
<1>. DEFINE current == GetActive(index, cooling)
            cooled == cooling \cup {current.key}
            next == GetActive(current.index, cooled)
<1>1. IF current.key = NoKey
      THEN UNCHANGED poolVars
      ELSE /\ cooling' = cooled
           /\ index' = next.index
           /\ inUse' = IF next.key = NoKey THEN inUse ELSE next.key
  BY DEF RotateKey
<1>2. /\ current.index \in Key
      /\ current.key # NoKey => current.key \in Key
  BY ActiveKey DEF PoolInv
<1>3. CASE current.key = NoKey
  BY <1>1, <1>3 DEF poolVars, PoolInv
<1>4. CASE current.key # NoKey
  <2>1. cooled \in SUBSET Key
    BY <1>2, <1>4 DEF PoolInv
  <2>2. /\ next.index \in Key
        /\ next.key = NoKey => cooled = Key
        /\ next.key # NoKey => next.key \in Key \ cooled
    BY <1>2, <2>1, ActiveKey
  <2>. HIDE DEF next, cooled, current
  <2>. QED  BY <1>1, <1>4, <2>1, <2>2 DEF PoolInv
<1>. QED  BY <1>3, <1>4

LEMMA PoolInvKept ==
  ASSUME PoolInv, [PoolNext]_poolVars
  PROVE  PoolInv' /\ (cooling' # cooling /\ cooling \subseteq cooling'
                        => inUse' \notin cooling' \/ cooling' = Key)
<1>1. CASE UNCHANGED poolVars
  BY <1>1 DEF poolVars, PoolInv
<1>2. CASE RotateKey
  BY <1>2, RotationKeepsPool
<1>3. ASSUME NEW k \in Key, KeyRecovers(k)
      PROVE  PoolInv' /\ ~(cooling \subseteq cooling')
  BY <1>3 DEF KeyRecovers, PoolInv
<1>. QED  BY <1>1, <1>2, <1>3 DEF PoolNext

(* A rotation leaves the agent on a key that is free whenever one is, for any *)
(* number of keys and from any place in the ring.                             *)
THEOREM RotationFindsTheFreeKey == ToolsSpec => RotationSound
<1>1. ToolsInit => PoolInv
  BY PoolSizeAssumption DEF ToolsInit, PoolInit, PoolInv, Key
<1>2. PoolInv /\ [ToolsNext]_toolVars
        => PoolInv' /\ [cooling' # cooling /\ cooling \subseteq cooling'
                          => inUse' \notin cooling' \/ cooling' = Key]_poolVars
  BY PoolInvKept, PartsStandApart
<1>. QED  BY <1>1, <1>2, PTL DEF ToolsSpec, RotationSound

-----------------------------------------------------------------------------
(* The rounds of the judge phase. *)
JudgeInv ==
  /\ dispute \in Nat /\ verdict \in {"none", "pass", "conditional", "fail"}
  /\ verdict = "none" => prior = {}

LEMMA VerdictIsPass == ASSUME NEW S PROVE Verdict(S) \in {"pass", "conditional", "fail"}
                                          /\ (Verdict(S) = "pass" => S = {})
BY DEF Verdict

\* Whether a check finds anything does not depend on the file's name.
LEMMA ChecksAreNameless ==
  ASSUME NEW f, NEW x, CheckIssues(f, x) = {}
  PROVE  CheckIssues("", x) = {}
<1>1. /\ CategoryIssue(f, x) = {} /\ ScanIssues(f, x) = {} /\ DuplicateSymbols(f, x) = {}
      /\ InventedSymbols(f, x) = {}
  BY DEF CheckIssues
<1>2. CategoryIssue("", x) = {}
  BY <1>1 DEF CategoryIssue
<1>3. ScanIssues("", x) = {}
  BY <1>1 DEF ScanIssues, When
<1>4. DuplicateSymbols("", x) = {} /\ InventedSymbols("", x) = {}
  BY <1>1 DEF DuplicateSymbols, InventedSymbols, When
<1>. QED  BY <1>2, <1>3, <1>4 DEF CheckIssues

LEMMA OneRound ==
  ASSUME JudgeInv, Judge, verdict' = "pass"
  PROVE  /\ \A i \in found', j \in prior : i.file # j.file \/ i.type # j.type
         /\ \A f \in RiskyFile :
              /\ dispute' = 0 => toldBy'[f] \notin {"vetoed", "drift"}
              /\ f \in sensitive => toldBy'[f] \notin {"taken", "confident"}
<1>1. PICK facts \in [RiskyFile -> Fact] :
        /\ \A f \in RiskyFile : facts[f].sensitive = (f \in sensitive)
        /\ toldBy' = [f \in RiskyFile |-> PathOf(facts[f])]
        /\ found' = UNION {IssuesOf(f, facts[f]) : f \in RiskyFile}
  BY Zenon DEF Judge
<1>2. (IF dispute' > 0 /\ prior # {} THEN Frozen(found', prior) ELSE found') = {}
  <2>1. verdict' = Verdict(IF dispute' > 0 /\ prior # {} THEN Frozen(found', prior) ELSE found')
    BY Zenon DEF Judge
  <2>. QED  BY <2>1, VerdictIsPass
<1>3. dispute' \in Nat /\ (dispute' = 0 => prior = {})
  BY DEF Judge, JudgeInv
<1>4. ASSUME NEW i \in found', NEW j \in prior
      PROVE  i.file # j.file \/ i.type # j.type
  <2>1. Frozen(found', prior) = {}
    BY <1>2, <1>3, <1>4
  <2>. QED  BY <2>1 DEF Frozen, SameIssue
<1>5. ASSUME NEW f \in RiskyFile, dispute' = 0
      PROVE  toldBy'[f] \notin {"vetoed", "drift"}
  <2>1. IssuesOf(f, facts[f]) = {}
    BY <1>1, <1>2, <1>5
  <2>2. PathOf(facts[f]) # "drift"
    BY <2>1 DEF IssuesOf, When
  <2>3. CheckIssues(f, facts[f].checks) = {}
    BY <2>1 DEF IssuesOf
  <2>4. ~\E i \in CheckIssues("", facts[f].checks) : i.veto
    BY <2>3, ChecksAreNameless
  <2>5. PathOf(facts[f]) # "vetoed"
    BY <2>4 DEF PathOf
  <2>. QED  BY <1>1, <2>2, <2>5
<1>6. ASSUME NEW f \in RiskyFile, f \in sensitive
      PROVE  toldBy'[f] \notin {"taken", "confident"}
  <2>1. facts[f].sensitive /\ toldBy'[f] = PathOf(facts[f])
    BY <1>1, <1>6
  <2>. QED  BY <2>1 DEF PathOf, TakeVerified, SkippedAsConfident
<1>. QED  BY <1>4, <1>5, <1>6

LEMMA JudgeInvKept ==
  ASSUME JudgeInv, [Judge]_judgeVars
  PROVE  JudgeInv'
<1>1. CASE UNCHANGED judgeVars
  BY <1>1 DEF judgeVars, JudgeInv
<1>2. CASE Judge
  <2>1. dispute' \in Nat
    BY <1>2 DEF Judge, JudgeInv
  <2>2. verdict' = Verdict(IF dispute' > 0 /\ prior # {} THEN Frozen(found', prior) ELSE found')
    BY <1>2, Zenon DEF Judge
  <2>. QED  BY <2>1, <2>2, VerdictIsPass DEF JudgeInv
<1>. QED  BY <1>1, <1>2

(* A PASS is earned in any round, whatever files are of high risk and         *)
(* whatever the repair between the rounds did: PassIsEarned holds of every    *)
(* behaviour.                                                                 *)
THEOREM EveryPassIsEarned == ToolsSpec => PassIsEarned
<1>1. ToolsInit => JudgeInv
  BY DEF ToolsInit, JudgeInit, JudgeInv
<1>2. JudgeInv /\ [ToolsNext]_toolVars => JudgeInv'
  BY JudgeInvKept, PartsStandApart
<1>3. JudgeInv /\ [ToolsNext]_toolVars =>
        [verdict' = "pass" =>
           /\ \A i \in found', j \in prior : i.file # j.file \/ i.type # j.type
           /\ \A f \in RiskyFile :
                /\ dispute' = 0 => toldBy'[f] \notin {"vetoed", "drift"}
                /\ f \in sensitive => toldBy'[f] \notin {"taken", "confident"}]_judgeVars
  <2>. SUFFICES ASSUME JudgeInv, [Judge]_judgeVars, verdict' = "pass"
                PROVE  \/ /\ \A i \in found', j \in prior : i.file # j.file \/ i.type # j.type
                          /\ \A f \in RiskyFile :
                               /\ dispute' = 0 => toldBy'[f] \notin {"vetoed", "drift"}
                               /\ f \in sensitive => toldBy'[f] \notin {"taken", "confident"}
                       \/ UNCHANGED judgeVars
    BY PartsStandApart
  <2>. QED  BY OneRound
<1>. QED  BY <1>1, <1>2, <1>3, PTL DEF ToolsSpec, PassIsEarned

-----------------------------------------------------------------------------
(* The replay of commits. *)

\* What is saved and what is in memory is checked in the same way: a file that
\* left its batch is neither picked nor taken, and before a rerun it is merged.
Sound(p) ==
  /\ p.drained \subseteq ReplayFile /\ DOMAIN p.mark = ReplayFile
  /\ \A f \in p.drained : /\ p.mark[f] \notin {"picked", "taken"}
                          /\ ~rerun => p.mark[f] = "merged"

\* The check of the files passes over those that left their batches: what it
\* does not look at is never picked or taken, because a replay is over before
\* any record is dropped for a rerun.
ReplayInv ==
  /\ Sound(Persistent) /\ Sound(savedReplay)
  /\ at \in {"full", "partial"} => ~rerun
  /\ PickedIsUpstream

LEMMA CheckedFiles ==
  ASSUME ReplayInv, CheckDrift
  PROVE  /\ mark' \in [ReplayFile -> {mark[f] : f \in ReplayFile} \cup {"taken", "none"}]
         /\ \A f \in drained : mark'[f] = mark[f]
         /\ PickedIsUpstream'
<1>1. PICK repaired \in SUBSET Drifted :
        /\ written' = written \cup repaired
        /\ mark' = [f \in ReplayFile |-> IF f \in repaired THEN "taken"
                                         ELSE IF f \in Drifted THEN "none" ELSE mark[f]]
  BY Zenon DEF CheckDrift
<1>2. UNCHANGED <<head, drained, uncategorised>>
  BY DEF CheckDrift
<1>3. Upstreams \subseteq ReplayFile /\ drained \subseteq ReplayFile /\ drained \cap Drifted = {}
  BY CommitReplayAssumption DEF ReplayInv, Sound, Persistent, Drifted
<1>4. \A f \in drained : mark'[f] = mark[f]
  BY <1>1, <1>3
<1>5. ASSUME ~uncategorised, NEW f \in Upstreams, mark'[f] \in {"picked", "taken"}
      PROVE  f \in written' \/ head[f] = Top(f)
  <2>1. CASE f \in Drifted
    BY <1>1, <1>3, <1>5, <2>1
  <2>2. CASE f \notin Drifted
    <3>1. mark'[f] = mark[f]
      BY <1>1, <1>3, <2>2
    <3>2. f \notin drained
      BY <1>5, <3>1 DEF ReplayInv, Sound, Persistent
    <3>3. AtUpstream(f)
      BY <1>5, <2>2, <3>1, <3>2 DEF Drifted
    <3>. QED  BY <1>1, <3>3 DEF AtUpstream
  <2>. QED  BY <2>1, <2>2
<1>6. \A f \in Upstreams : Top(f)' = Top(f)
  BY DEF Top, CommitsOf
<1>. QED  BY <1>1, <1>2, <1>4, <1>5, <1>6 DEF PickedIsUpstream

LEMMA ReplayInvKept ==
  ASSUME ReplayInv, [ReplayNext]_replayVars
  PROVE  ReplayInv'
<1>. USE DEF ReplayInv, Sound, Persistent
<1>1. CASE UNCHANGED replayVars
  BY <1>1 DEF replayVars, PickedIsUpstream, Top, CommitsOf
<1>2. CASE EnterReplay
  BY <1>2 DEF EnterReplay, SkipReplay, PickedIsUpstream, settings
<1>3. CASE PickFull
  BY <1>3, Zenon DEF PickFull, PickedIsUpstream, settings
<1>4. CASE FullDone
  BY <1>4 DEF FullDone, PickedIsUpstream, settings
<1>5. CASE PickPartial
  BY <1>5, Zenon DEF PickPartial, PickedIsUpstream, settings
<1>6. CASE ReplayDone
  BY <1>6 DEF ReplayDone, PickedIsUpstream, settings
<1>7. CASE NativeMerge
  <2>1. PICK merged \in SUBSET Free :
          /\ mark' = [f \in ReplayFile |-> IF f \in merged THEN "merged" ELSE mark[f]]
          /\ drained' = drained \cup merged
    BY <1>7 DEF NativeMerge
  <2>2. merged \subseteq ReplayFile
    BY DEF Free
  <2>. QED  BY <1>7, <2>1, <2>2 DEF NativeMerge, PickedIsUpstream, settings
<1>8. CASE PrePassPauses
  BY <1>8 DEF PrePassPauses, PickedIsUpstream, worktree
<1>9. CASE UserDecides
  BY <1>9 DEF UserDecides, PickedIsUpstream, worktree
<1>10. CASE MergeBatches
  <2>1. PICK failed \in SUBSET (Free \cap Upstreams) :
          mark' = [f \in ReplayFile |-> IF f \in (Free \cap Upstreams) \ failed THEN "taken"
                                        ELSE IF f \in failed THEN "escalated" ELSE mark[f]]
    BY <1>10 DEF MergeBatches
  <2>2. \A f \in drained : mark'[f] = mark[f]
    BY <2>1 DEF Free
  <2>. QED  BY <1>10, <2>1, <2>2 DEF MergeBatches, PickedIsUpstream, settings
<1>11. CASE CheckDrift
  <2>1. /\ mark' \in [ReplayFile -> {mark[f] : f \in ReplayFile} \cup {"taken", "none"}]
        /\ \A f \in drained : mark'[f] = mark[f]
        /\ PickedIsUpstream'
    BY <1>11, CheckedFiles
  <2>. QED  BY <1>11, <2>1 DEF CheckDrift
<1>12. CASE Rerun1
  BY <1>12 DEF Rerun1, PickedIsUpstream, worktree
<1>13. CASE Dies
  BY <1>13 DEF Dies, PickedIsUpstream, worktree
<1>. QED  BY <1>1, <1>2, <1>3, <1>4, <1>5, <1>6, <1>7, <1>8, <1>9, <1>10, <1>11, <1>12, <1>13
          DEF ReplayNext

(* A file recorded as picked or taken is upstream's last version at the end   *)
(* of the phase, for any history and any files, whenever the process died and *)
(* whatever was rerun: PickedIsUpstream holds of every behaviour.             *)
THEOREM PickedFilesAreUpstreams == ToolsSpec => []PickedIsUpstream
<1>1. ToolsInit => ReplayInv
  BY DEF ToolsInit, ReplayInit, ReplayInv, Sound, Persistent, PickedIsUpstream
<1>2. ReplayInv /\ [ToolsNext]_toolVars => ReplayInv'
  BY ReplayInvKept, PartsStandApart
<1>3. ReplayInv => PickedIsUpstream
  BY DEF ReplayInv
<1>. QED  BY <1>1, <1>2, <1>3, PTL DEF ToolsSpec

-----------------------------------------------------------------------------
(* The review of a plan. *)
SegmentRead(k) ==
  \/ snapshot[k].result = "unparsed"
  \/ \E h \in heardOn : h[1] = k /\ \A f \in Segments[k] : placed[f] \in {h[2][f], issue[f]}

\* Once the first round is over every segment was read up to the moves that
\* the last verdict asks for; a segment's cache remembers what was heard.
PlanInv ==
  /\ rated \in [PlanFile -> 1 .. 3] /\ placed \in [PlanFile -> 0 .. 3]
  /\ issue \in [PlanFile -> 0 .. 3]
  /\ stage \in {"review", "revise", "approved", "human"} /\ revision \in Nat
  /\ \A k \in DOMAIN Segments :
       snapshot[k].result = "approved" => <<k, snapshot[k].of>> \in heardOn
  /\ revision > 0 \/ stage \in {"revise", "approved"} => \A k \in DOMAIN Segments : SegmentRead(k)
  /\ stage = "approved" => Mismatched = {}

LEMMA SegmentsHoldFiles == \A k \in DOMAIN Segments : Segments[k] \subseteq PlanFile
BY PlanNegotiationAssumption

\* A segment's signature is the placement of its files.
LEMMA HeardAsPlaced ==
  ASSUME NEW k \in DOMAIN Segments, NEW H, <<k, Signature(k)>> \in H
  PROVE  \E h \in H : h[1] = k /\ \A f \in Segments[k] : placed[f] = h[2][f]
<1>1. <<k, Signature(k)>>[1] = k /\ <<k, Signature(k)>>[2] = Signature(k)
  OBVIOUS
<1>2. \A f \in Segments[k] : Signature(k)[f] = placed[f]
  BY DEF Signature
<1>. QED  BY <1>1, <1>2

LEMMA JudgeKeepsPlan ==
  ASSUME PlanInv, JudgePlan
  PROVE  PlanInv'
<1>. DEFINE cached == {k \in DOMAIN Segments : Cached(k)}
            safe == {k \in DOMAIN Segments \ cached : Len(Segments) > 1 /\ ObviouslySafe(k)}
            ask == DOMAIN Segments \ (cached \cup safe)
<1>1. PICK said \in [ask -> {"approved", "revision", "unparsed"}],
           wants \in [PlanFile -> 0 .. 3],
           late \in {{}} \cup {{f} : f \in {g \in PlanFile : placed[g] # 0}},
           movable \in BOOLEAN :
        LET read == UNION {Segments[k] : k \in {j \in ask : said[j] # "unparsed"}}
            fnd == [f \in PlanFile |->
                      IF wants[f] # 0 THEN wants[f]
                      ELSE IF f \in Mismatched THEN rated[f]
                      ELSE IF f \in late THEN placed[f] ELSE 0]
            flagged == {f \in PlanFile : fnd[f] # 0}
            objected == Mismatched \cup late # {} \/ \E k \in ask : said[k] # "approved"
            failed == Len(Segments) = 1 /\ flagged = {} /\ \E k \in ask : said[k] = "unparsed"
            opposed == \E f \in Mismatched \ late : wants[f] # 0 /\ wants[f] < placed[f]
        IN /\ \A f \in PlanFile : wants[f] # 0 => f \in read /\ wants[f] # placed[f]
           /\ snapshot' = [k \in DOMAIN Segments |->
                             IF k \in cached THEN snapshot[k]
                             ELSE [of |-> Signature(k),
                                   result |-> IF k \in ask THEN said[k] ELSE "approved"]]
           /\ heardOn' = heardOn \cup
                {<<k, [f \in Segments[k] |-> placed[f]]>> :
                   k \in safe \cup {j \in ask : said[j] # "unparsed"}}
           /\ issue' = fnd
           /\ soft' = (movable /\ \A f \in late : wants[f] # 0 \/ f \in Mismatched)
           /\ stage' = IF failed \/ opposed THEN "human"
                       ELSE IF ~objected \/ flagged = {} THEN "approved"
                       ELSE IF revision < MaxRevisions THEN "revise" ELSE "human"
  BY ZenonT(60) DEF JudgePlan
<1>2. UNCHANGED <<rated, placed, plain, revision, agreed>>
  BY DEF JudgePlan
<1>3. /\ \A k \in cached : Cached(k) /\ snapshot'[k] = snapshot[k]
      /\ \A k \in safe : snapshot'[k] = [of |-> Signature(k), result |-> "approved"]
      /\ \A k \in ask : snapshot'[k] = [of |-> Signature(k), result |-> said[k]]
      /\ DOMAIN Segments = cached \cup safe \cup ask
  BY <1>1
<1>4. heardOn \subseteq heardOn'
      /\ \A k \in DOMAIN Segments :
           k \in safe \/ (k \in ask /\ said[k] # "unparsed") => <<k, Signature(k)>> \in heardOn'
  BY <1>1 DEF Signature
<1>5. issue' \in [PlanFile -> 0 .. 3]
  BY <1>1 DEF PlanInv
<1>6. stage' = "approved" => Mismatched = {}
  <2>1. \A f \in Mismatched : f \in PlanFile /\ rated[f] # 0
    BY DEF Mismatched, PlanInv
  <2>2. stage' = "approved" => Mismatched = {} \/ {f \in PlanFile : issue'[f] # 0} = {}
    BY <1>1
  <2>3. \A f \in Mismatched : issue'[f] # 0
    BY <1>1, <2>1
  <2>. QED  BY <2>1, <2>2, <2>3
<1>66. stage' \in {"approved", "revise", "human"}
  BY <1>1
<1>. HIDE DEF cached, safe, ask
<1>7. ASSUME NEW k \in DOMAIN Segments
      PROVE  snapshot'[k].result \in {"approved", "revision", "unparsed"}
             /\ (snapshot'[k].result # "unparsed" => <<k, Signature(k)>> \in heardOn')
             /\ (snapshot'[k].result = "approved" => <<k, snapshot'[k].of>> \in heardOn')
  <2>1. CASE k \in cached
    BY <1>3, <1>4, <2>1 DEF Cached, PlanInv
  <2>2. CASE k \in safe
    <3>1. snapshot'[k].result = "approved" /\ snapshot'[k].of = Signature(k)
      <4>1. snapshot'[k] = [of |-> Signature(k), result |-> "approved"]
        BY <1>3, <2>2
      <4>. QED  BY <4>1
    <3>. QED  BY <1>4, <2>2, <3>1
  <2>3. CASE k \in ask
    <3>1. snapshot'[k].result = said[k] /\ snapshot'[k].of = Signature(k)
      <4>1. snapshot'[k] = [of |-> Signature(k), result |-> said[k]]
        BY <1>3, <2>3
      <4>. QED  BY <4>1
    <3>. QED  BY <1>1, <1>4, <2>3, <3>1
  <2>. QED  BY <1>3, <2>1, <2>2, <2>3
<1>8. ASSUME NEW k \in DOMAIN Segments
      PROVE  SegmentRead(k)'
  <2>1. CASE snapshot'[k].result = "unparsed"
    BY <2>1 DEF SegmentRead
  <2>2. CASE snapshot'[k].result # "unparsed"
    <3>1. PICK h \in heardOn' : h[1] = k /\ \A f \in Segments[k] : placed[f] = h[2][f]
      <4>1. <<k, Signature(k)>> \in heardOn'
        BY <1>7, <2>2
      <4>. QED  BY <4>1, HeardAsPlaced
    <3>. QED  BY <1>2, <3>1 DEF SegmentRead
  <2>. QED  BY <2>1, <2>2
<1>9. Mismatched' = Mismatched
  BY <1>2 DEF Mismatched
<1>. QED  BY <1>2, <1>5, <1>6, <1>66, <1>7, <1>8, <1>9 DEF PlanInv

LEMMA PlanInvKept ==
  ASSUME PlanInv, [PlanNext]_planVars
  PROVE  PlanInv'
<1>1. CASE UNCHANGED planVars
  BY <1>1 DEF planVars, PlanInv, SegmentRead, Mismatched
<1>2. CASE ShortCircuit
  BY <1>2 DEF ShortCircuit, ShortCircuits, PlanInv, SegmentRead, Mismatched
<1>3. CASE JudgePlan
  BY <1>3, JudgeKeepsPlan
<1>4. CASE ReviewEnds
  BY <1>4 DEF ReviewEnds, PlanInv, SegmentRead, Mismatched
<1>5. CASE AnswerIssues
  <2>1. PICK accepted \in SUBSET PlanFile :
          placed' = [f \in PlanFile |-> IF f \in accepted THEN issue[f] ELSE placed[f]]
    <3>1. PICK answered \in [Flagged -> {"accept", "reject", "discuss"}],
               order \in {p \in [Flagged -> Flagged] : \A f \in Flagged : \E g \in Flagged : p[g] = f} :
            LET accepted == {f \in Flagged : answered[order[f]] = "accept"}
            IN  /\ placed' = [f \in PlanFile |-> IF f \in accepted THEN issue[f] ELSE placed[f]]
                /\ agreed' = \A f \in Flagged : answered[f] = "accept"
                /\ stage' = IF placed' # placed \/ \E f \in Flagged : answered[f] = "discuss"
                            THEN "review" ELSE "human"
      BY <1>5, ZenonT(60) DEF AnswerIssues
    <3>2. {f \in Flagged : answered[order[f]] = "accept"} \subseteq PlanFile
      BY DEF Flagged
    <3>. QED  BY <3>1, <3>2
  <2>2. /\ stage = "revise" /\ stage' \in {"review", "human"} /\ revision' = revision + 1
        /\ UNCHANGED <<rated, snapshot, issue, heardOn>>
    BY <1>5, Zenon DEF AnswerIssues
  <2>3. placed' \in [PlanFile -> 0 .. 3]
    BY <2>1 DEF PlanInv
  <2>4. \A f \in PlanFile : placed'[f] \in {placed[f], issue[f]}
    BY <2>1
  <2>5. ASSUME NEW k \in DOMAIN Segments
        PROVE  SegmentRead(k)'
    <3>1. SegmentRead(k)
      BY <2>2 DEF PlanInv
    <3>. QED  BY <2>2, <2>4, <3>1, SegmentsHoldFiles DEF SegmentRead
  <2>. QED  BY <2>2, <2>3, <2>5 DEF PlanInv
<1>. QED  BY <1>1, <1>2, <1>3, <1>4, <1>5 DEF PlanNext

(* An approved plan was read as it stands, up to the moves its last verdict   *)
(* asked for, and no file is in a laxer batch than the classifier's, for any  *)
(* plan, any segments and any number of revisions.                            *)
THEOREM ApprovedPlansWereRead == ToolsSpec => []ApprovedMeansRead
<1>1. ToolsInit => PlanInv
  <2>. SUFFICES ASSUME PlanInit PROVE PlanInv
    BY DEF ToolsInit
  <2>1. PICK c \in PlanCases : rated = c.rated /\ placed = c.placed /\ plain = c.plain
    BY DEF PlanInit
  <2>2. rated \in [PlanFile -> 1 .. 3] /\ placed \in [PlanFile -> 0 .. 3]
    BY <2>1, PlanNegotiationAssumption
  <2>. QED  BY <2>2 DEF PlanInit, PlanInv
<1>2. PlanInv /\ [ToolsNext]_toolVars => PlanInv'
  BY PlanInvKept, PartsStandApart
<1>3. PlanInv => ApprovedMeansRead
  BY DEF PlanInv, ApprovedMeansRead, SegmentRead, Mismatched
<1>. QED  BY <1>1, <1>2, <1>3, PTL DEF ToolsSpec

-----------------------------------------------------------------------------
(* The conflict analysis. *)
Rounds == Seq(Seq(SUBSET Nat))

LEMMA CarrierCarries ==
  ASSUME entry \in RoutingCases, NEW f \in Entered
  PROVE  IF Carrier(f) = 0 THEN \A i \in DOMAIN entry.commits : f \notin entry.commits[i]
         ELSE /\ Carrier(f) \in DOMAIN entry.commits
              /\ f \in entry.commits[Carrier(f)] /\ entry.commits[Carrier(f)] \in SUBSET Nat
<1>. DEFINE I == {i \in 1 .. Len(entry.commits) : f \in entry.commits[i]}
<1>1. entry.commits \in Seq(SUBSET Nat)
  BY RoutingAssumption
<1>2. Carrier(f) = IF I # {} THEN Min(I) ELSE 0
  BY DEF Carrier, SelectInSeq
<1>3. I \in SUBSET Nat /\ (I # {} => Min(I) \in I)
  <2>1. I \in SUBSET Nat
    BY <1>1
  <2>. QED  BY <2>1, MinIsLeast
<1>4. 0 \notin I /\ DOMAIN entry.commits = 1 .. Len(entry.commits)
      /\ \A i \in I : i \in DOMAIN entry.commits /\ f \in entry.commits[i]
                   /\ entry.commits[i] \in SUBSET Nat
  BY <1>1
<1>5. I = {} => \A i \in DOMAIN entry.commits : f \notin entry.commits[i]
  BY <1>4
<1>. HIDE DEF I
<1>. QED  BY <1>2, <1>3, <1>4, <1>5

LEMMA PutCommitKeeps ==
  ASSUME NEW b \in Rounds, NEW c \in SUBSET Nat
  PROVE  /\ PutCommit(b, c) \in Rounds
         /\ \E i \in DOMAIN PutCommit(b, c) : c \subseteq FilesIn(PutCommit(b, c)[i])
         /\ \A i \in DOMAIN b : \E j \in DOMAIN PutCommit(b, c) :
              FilesIn(b[i]) \subseteq FilesIn(PutCommit(b, c)[j])
<1>. DEFINE p == PutCommit(b, c)
<1>0. ASSUME NEW r \in Seq(SUBSET Nat)
      PROVE  /\ Append(r, c) \in Seq(SUBSET Nat)
             /\ c \subseteq FilesIn(Append(r, c)) /\ FilesIn(r) \subseteq FilesIn(Append(r, c))
  <2>1. Append(r, c) \in Seq(SUBSET Nat) /\ Len(Append(r, c)) = Len(r) + 1
        /\ Append(r, c)[Len(r) + 1] = c /\ \A i \in 1 .. Len(r) : Append(r, c)[i] = r[i]
    OBVIOUS
  <2>2. ToSet(Append(r, c)) = ToSet(r) \cup {c}
    BY <2>1 DEF ToSet
  <2>. QED  BY <2>1, <2>2 DEF FilesIn
<1>1. CASE b # <<>> /\ Fits(c, Last(b))
  <2>. DEFINE n == Len(b)
              last == Append(b[n], c)
  <2>1. p = Append(Front(b), Append(Last(b), c))
    BY <1>1 DEF PutCommit
  <2>2. n \in Nat \ {0} /\ Last(b) = b[n] /\ b[n] \in Seq(SUBSET Nat)
    BY <1>1 DEF Last, Rounds
  <2>3. Front(b) \in Rounds /\ Len(Front(b)) = n - 1 /\ \A i \in 1 .. n - 1 : Front(b)[i] = b[i]
    <3>1. Front(b) = [i \in 1 .. n - 1 |-> b[i]]
      BY <2>2 DEF Front
    <3>2. \A i \in 1 .. n - 1 : b[i] \in Seq(SUBSET Nat)
      BY <2>2 DEF Rounds
    <3>. QED  BY <2>2, <3>1, <3>2 DEF Rounds
  <2>4. last \in Seq(SUBSET Nat) /\ c \subseteq FilesIn(last) /\ FilesIn(b[n]) \subseteq FilesIn(last)
    BY <1>0, <2>2
  <2>. HIDE DEF last
  <2>5. p = Append(Front(b), last)
    BY <2>1, <2>2 DEF last
  <2>6. p \in Rounds /\ DOMAIN p = 1 .. n /\ p[n] = last /\ \A i \in 1 .. n - 1 : p[i] = b[i]
    <3>. HIDE DEF p
    <3>. QED  BY <2>2, <2>3, <2>4, <2>5 DEF Rounds
  <2>. HIDE DEF p
  <2>7. \A i \in DOMAIN b : FilesIn(b[i]) \subseteq FilesIn(p[i])
    <3>1. \A i \in DOMAIN b : i = n \/ i \in 1 .. n - 1
      BY <2>2 DEF Rounds
    <3>. QED  BY <2>4, <2>6, <3>1
  <2>8. DOMAIN b = 1 .. n /\ n \in 1 .. n
    BY <2>2 DEF Rounds
  <2>. QED  BY <2>4, <2>6, <2>7, <2>8 DEF p
<1>2. CASE ~(b # <<>> /\ Fits(c, Last(b)))
  <2>1. p = Append(b, <<c>>)
    BY <1>2 DEF PutCommit
  <2>2. <<c>> \in Seq(SUBSET Nat) /\ c \subseteq FilesIn(<<c>>)
    BY DEF FilesIn, ToSet
  <2>. HIDE DEF p
  <2>3. p \in Rounds /\ DOMAIN p = 1 .. Len(b) + 1 /\ p[Len(b) + 1] = <<c>>
        /\ \A i \in 1 .. Len(b) : p[i] = b[i]
    BY <2>1, <2>2 DEF Rounds
  <2>4. DOMAIN b = 1 .. Len(b) /\ Len(b) \in Nat
    BY DEF Rounds
  <2>. QED  BY <2>2, <2>3, <2>4 DEF p
<1>. QED  BY <1>1, <1>2

\* The rounds that the first n files of the worklist lead to, as the function
\* CommitRounds takes its last value from.
IsBuilt(g, n) ==
  g = [m \in 0 .. n |->
         IF m = 0 THEN <<>>
         ELSE IF BringsCommit(m) THEN PutCommit(g[m - 1], entry.commits[Carrier(m)])
         ELSE g[m - 1]]

LEMMA RoundsAreBuilt ==
  ASSUME entry \in RoutingCases
  PROVE  \E g : IsBuilt(g, Len(entry.kind)) /\ CommitRounds = g[Len(entry.kind)]
<1>. DEFINE N == Len(entry.kind)
            T == {n \in 0 .. N : ~ \E g : IsBuilt(g, n)}
<1>0. N \in Nat
  BY RoutingAssumption
<1>1. T = {}
  <2>. SUFFICES ASSUME T # {} PROVE FALSE
    OBVIOUS
  <2>1. PICK m \in T : \A k \in T : m <= k
    <3>1. T \in SUBSET Nat
      BY <1>0
    <3>. HIDE DEF T
    <3>. QED  BY <3>1, MinIsLeast
  <2>2. m \in 0 .. N /\ ~ \E g : IsBuilt(g, m)
    OBVIOUS
  <2>3. m # 0
    <3>. DEFINE g == [k \in 0 .. 0 |-> <<>>]
    <3>1. IsBuilt(g, 0)
      BY DEF IsBuilt
    <3>. QED  BY <2>2, <3>1
  <2>4. m - 1 \in 0 .. N /\ m - 1 \notin T
    BY <1>0, <2>1, <2>2, <2>3
  <2>5. PICK g : IsBuilt(g, m - 1)
    BY <2>4
  <2>. DEFINE Next(k, r) == IF k = 0 THEN <<>>
                            ELSE IF BringsCommit(k) THEN PutCommit(r, entry.commits[Carrier(k)])
                            ELSE r
              h == [k \in 0 .. m |-> IF k < m THEN g[k] ELSE Next(m, g[m - 1])]
  <2>6. g = [k \in 0 .. m - 1 |-> Next(k, g[k - 1])]
    BY <2>5, Zenon DEF IsBuilt
  <2>7. \A k \in 0 .. m : h[k] = Next(k, h[k - 1])
    <3>. HIDE DEF Next
    <3>1. \A k \in 0 .. m - 1 : g[k] = Next(k, g[k - 1])
      BY <2>6
    <3>2. g[0] = Next(0, h[0 - 1])
      BY <1>0, <2>2, <2>3, <3>1 DEF Next
    <3>. QED  BY <1>0, <2>2, <2>3, <3>1, <3>2
  <2>8. h = [k \in 0 .. m |-> Next(k, h[k - 1])]
    <3>. HIDE DEF Next
    <3>. QED  BY <2>7
  <2>9. IsBuilt(h, m)
    <3>. HIDE DEF h
    <3>. QED  BY <2>8, Zenon DEF IsBuilt
  <2>. QED  BY <2>2, <2>9
<1>2. \E g : IsBuilt(g, N)
  <2>1. N \in 0 .. N
    BY <1>0
  <2>. QED  BY <1>1, <2>1
<1>3. CommitRounds = (CHOOSE g : IsBuilt(g, N))[N]
  BY DEF CommitRounds, IsBuilt
<1>. QED  BY <1>2, <1>3

LEMMA RoundsCoverTheStream ==
  ASSUME entry \in RoutingCases
  PROVE  /\ CommitRounds \in Rounds
         /\ \A f \in StreamA : \E i \in DOMAIN CommitRounds : f \in FilesIn(CommitRounds[i])
<1>. DEFINE N == Len(entry.kind)
<1>0. N \in Nat /\ Entered = 1 .. N /\ StreamA \subseteq Entered
  BY RoutingAssumption DEF Entered, StreamA, LLMFiles
<1>1. PICK g : IsBuilt(g, N) /\ CommitRounds = g[N]
  BY RoundsAreBuilt
<1>. DEFINE Brought(h, n) == \E i \in DOMAIN g[n] : entry.commits[Carrier(h)] \subseteq FilesIn(g[n][i])
            Fine(n) == /\ g[n] \in Rounds
                       /\ \A h \in 1 .. n : BringsCommit(h) => Brought(h, n)
            T == {n \in 0 .. N : ~Fine(n)}
<1>2. \A n \in 0 .. N :
        g[n] = IF n = 0 THEN <<>>
               ELSE IF BringsCommit(n) THEN PutCommit(g[n - 1], entry.commits[Carrier(n)])
               ELSE g[n - 1]
  BY <1>1 DEF IsBuilt
<1>3. \A h \in StreamA : Carrier(h) \in DOMAIN entry.commits
                         /\ h \in entry.commits[Carrier(h)]
                         /\ entry.commits[Carrier(h)] \in SUBSET Nat
  BY <1>0, CarrierCarries DEF StreamA
<1>4. T = {}
  <2>. SUFFICES ASSUME T # {} PROVE FALSE
    OBVIOUS
  <2>1. PICK m \in T : \A k \in T : m <= k
    <3>1. T \in SUBSET Nat
      BY <1>0
    <3>. HIDE DEF T
    <3>. QED  BY <3>1, MinIsLeast
  <2>2. m \in 0 .. N /\ ~Fine(m)
    OBVIOUS
  <2>3. Fine(0)
    <3>1. g[0] = <<>> /\ 1 .. 0 = {}
      BY <1>0, <1>2
    <3>. QED  BY <3>1 DEF Rounds
  <2>4. m \in 1 .. N /\ m - 1 \in 0 .. N
    <3>1. m # 0
      BY <2>2, <2>3
    <3>. QED  BY <1>0, <2>2, <3>1
  <2>5. Fine(m - 1)
    <3>1. m - 1 \notin T
      <4>. HIDE DEF T
      <4>. QED  BY <1>0, <2>1, <2>2, <2>4
    <3>. QED  BY <2>4, <3>1
  <2>6. \A h \in 1 .. m : h = m \/ h \in 1 .. m - 1
    BY <2>4, <1>0
  <2>7. CASE BringsCommit(m)
    <3>. DEFINE c == entry.commits[Carrier(m)]
    <3>1. c \in SUBSET Nat
      BY <1>3, <2>7 DEF BringsCommit
    <3>2. g[m] = PutCommit(g[m - 1], c)
      BY <1>2, <2>2, <2>4, <2>7
    <3>3. /\ g[m] \in Rounds
          /\ \E i \in DOMAIN g[m] : c \subseteq FilesIn(g[m][i])
          /\ \A i \in DOMAIN g[m - 1] : \E j \in DOMAIN g[m] : FilesIn(g[m - 1][i]) \subseteq FilesIn(g[m][j])
      <4>. HIDE DEF c
      <4>. QED  BY <2>5, <3>1, <3>2, PutCommitKeeps
    <3>4. \A h \in 1 .. m - 1 : BringsCommit(h) => Brought(h, m)
      <4>. SUFFICES ASSUME NEW h \in 1 .. m - 1, BringsCommit(h) PROVE Brought(h, m)
        OBVIOUS
      <4>1. PICK i \in DOMAIN g[m - 1] : entry.commits[Carrier(h)] \subseteq FilesIn(g[m - 1][i])
        BY <2>5
      <4>2. PICK j \in DOMAIN g[m] : FilesIn(g[m - 1][i]) \subseteq FilesIn(g[m][j])
        BY <3>3
      <4>. QED  BY <4>1, <4>2
    <3>. QED  BY <2>2, <2>6, <3>3, <3>4
  <2>8. CASE ~BringsCommit(m)
    <3>1. g[m] = g[m - 1]
      BY <1>2, <2>2, <2>4, <2>8
    <3>. QED  BY <2>2, <2>5, <2>6, <2>8, <3>1
  <2>. QED  BY <2>7, <2>8
<1>5. Fine(N)
  <2>1. N \in 0 .. N
    BY <1>0
  <2>. QED  BY <1>4, <2>1
<1>6. ASSUME NEW f \in StreamA PROVE \E i \in DOMAIN g[N] : f \in FilesIn(g[N][i])
  <2>. DEFINE S == {h \in StreamA : Carrier(h) = Carrier(f)}
  <2>1. PICK h \in S : \A k \in S : h <= k
    <3>1. StreamA \subseteq Nat
      BY <1>0
    <3>2. S \in SUBSET Nat /\ f \in S
      BY <3>1
    <3>. HIDE DEF S
    <3>. QED  BY <3>2, MinIsLeast
  <2>2. h \in StreamA /\ h \in 1 .. N /\ Carrier(h) = Carrier(f)
    BY <1>0
  <2>3. \A k \in StreamA : k < h => Carrier(k) # Carrier(f)
    <3>. SUFFICES ASSUME NEW k \in StreamA, k < h, Carrier(k) = Carrier(f) PROVE FALSE
      OBVIOUS
    <3>1. h <= k
      BY <2>1
    <3>. QED  BY <1>0, <2>2, <3>1
  <2>4. BringsCommit(h)
    BY <2>2, <2>3 DEF BringsCommit
  <2>5. PICK i \in DOMAIN g[N] : entry.commits[Carrier(f)] \subseteq FilesIn(g[N][i])
    BY <1>5, <2>2, <2>4
  <2>. QED  BY <1>3, <2>5
<1>. QED  BY <1>1, <1>5, <1>6

\* What is not yet settled or analysed waits in a round of the stream or among
\* the files to ask one by one.
Waits(f) ==
  \/ f \in StreamA /\ \E i \in DOMAIN rounds : f \in FilesIn(rounds[i])
  \/ f \in StreamB /\ (f \in toAsk \/ f \notin entry.known)

RoutingInv ==
  /\ entry \in RoutingCases /\ entry.recorded \subseteq settled
  /\ DOMAIN analysed = Entered /\ toAsk \subseteq StreamB
  /\ \A f \in DOMAIN heard : heard[f] # "none"
  /\ rounds \in Rounds
  /\ step \in {"route", "rounds", "asking", "files", "done"}
  /\ step = "asking" => rounds # <<>>
  /\ step \in {"files", "done"} => rounds = <<>>
  /\ step \in {"rounds", "asking", "files"} =>
       \A f \in Entered : f \in settled \/ analysed[f] # "none" \/ Waits(f)
  /\ step = "done" => \A f \in Entered : f \in settled \cup asked \/ f \in StreamB \ entry.known

LEMMA RoutingInvKept ==
  ASSUME RoutingInv, [RoutingNext]_routingVars
  PROVE  RoutingInv'
<1>0. entry' = entry => /\ Entered' = Entered /\ StreamA' = StreamA /\ StreamB' = StreamB
                        /\ Ruled' = Ruled
  <2>. SUFFICES ASSUME entry' = entry
                PROVE  /\ Entered' = Entered /\ StreamA' = StreamA /\ StreamB' = StreamB
                       /\ Ruled' = Ruled
    OBVIOUS
  <2>1. Entered' = Entered /\ Ruled' = Ruled
    BY DEF Entered, Ruled, OfKind
  <2>2. LLMFiles' = LLMFiles
    BY DEF LLMFiles, Missing, Ruled, Binary, Entered, OfKind
  <2>3. ASSUME NEW f PROVE Carrier(f)' = Carrier(f)
    BY DEF Carrier, SelectInSeq
  <2>4. StreamA' = StreamA
    BY <2>2, <2>3 DEF StreamA
  <2>. QED  BY <2>1, <2>2, <2>4 DEF StreamB
<1>a. StreamA \cap StreamB = {} /\ StreamA \cap Ruled = {} /\ StreamA \subseteq Entered
      /\ StreamB \subseteq Entered
  BY DEF StreamA, StreamB, LLMFiles
<1>b. rounds # <<>> => /\ Tail(rounds) \in Rounds /\ rounds[1] \in Seq(SUBSET Nat)
                       /\ \A i \in DOMAIN rounds : i = 1 \/ \E j \in DOMAIN Tail(rounds) : rounds[i] = Tail(rounds)[j]
  <2>. SUFFICES ASSUME rounds # <<>>
                PROVE  /\ Tail(rounds) \in Rounds /\ rounds[1] \in Seq(SUBSET Nat)
                       /\ \A i \in DOMAIN rounds : i = 1 \/ \E j \in DOMAIN Tail(rounds) : rounds[i] = Tail(rounds)[j]
    OBVIOUS
  <2>1. rounds \in Seq(Seq(SUBSET Nat))
    BY DEF RoutingInv, Rounds
  <2>2. Len(rounds) \in Nat \ {0} /\ DOMAIN rounds = 1 .. Len(rounds)
        /\ Tail(rounds) \in Seq(Seq(SUBSET Nat)) /\ DOMAIN Tail(rounds) = 1 .. Len(rounds) - 1
        /\ \A j \in 1 .. Len(rounds) - 1 : Tail(rounds)[j] = rounds[j + 1]
    BY <2>1
  <2>3. ASSUME NEW i \in DOMAIN rounds, i # 1
        PROVE  \E j \in DOMAIN Tail(rounds) : rounds[i] = Tail(rounds)[j]
    <3>1. i - 1 \in 1 .. Len(rounds) - 1 /\ i = (i - 1) + 1
      BY <2>2, <2>3
    <3>2. Tail(rounds)[i - 1] = rounds[i]
      BY <2>2, <3>1
    <3>. QED  BY <2>2, <3>1, <3>2
  <2>. QED  BY <2>1, <2>2, <2>3 DEF Rounds
<1>1. CASE UNCHANGED routingVars
  BY <1>0, <1>1 DEF routingVars, RoutingInv, Waits
<1>2. CASE RouteFiles
  <2>1. step = "route" /\ step' = "rounds" /\ entry' = entry /\ UNCHANGED <<heard, asked>>
        /\ rounds' = CommitRounds /\ toAsk' = StreamB /\ settled' = settled \cup CopiedBytes
    BY <1>2 DEF RouteFiles
  <2>2. analysed' = [f \in Entered |->
          IF f \in Ruled \cup (Missing \ entry.recorded) THEN "take"
          ELSE IF f \in Binary \ CopiedBytes THEN "escalate" ELSE "none"]
    BY <1>2 DEF RouteFiles
  <2>3. rounds' \in Rounds /\ \A f \in StreamA : \E i \in DOMAIN rounds' : f \in FilesIn(rounds'[i])
    BY <2>1, RoundsCoverTheStream DEF RoutingInv
  <2>4. ASSUME NEW f \in Entered PROVE f \in settled' \/ analysed'[f] # "none" \/ Waits(f)'
    <3>1. CASE f \in StreamA \cup StreamB
      BY <1>0, <2>1, <2>3, <3>1 DEF Waits
    <3>2. CASE f \notin StreamA \cup StreamB
      <4>1. f \in Missing \cup Ruled \cup Binary
        BY <3>2 DEF StreamA, StreamB, LLMFiles
      <4>2. CASE f \in Ruled \cup (Missing \ entry.recorded)
        BY <2>2, <4>2
      <4>3. CASE f \in Missing \cap entry.recorded
        BY <2>1, <4>3 DEF RoutingInv
      <4>4. CASE f \in Binary
        <5>1. f \in CopiedBytes \/ f \in Binary \ CopiedBytes
          BY <4>4
        <5>. QED  BY <2>1, <2>2, <5>1
      <4>. QED  BY <4>1, <4>2, <4>3, <4>4
    <3>. QED  BY <3>1, <3>2
  <2>5. DOMAIN analysed' = Entered'
    BY <1>0, <2>1, <2>2
  <2>. QED  BY <1>0, <2>1, <2>3, <2>4, <2>5 DEF RoutingInv
<1>3. CASE StartRound
  <2>1. step = "rounds" /\ rounds # <<>> /\ UNCHANGED <<entry, toAsk, analysed, settled, asked>>
    BY <1>3 DEF StartRound
  <2>2. CASE RoundFilesOf(rounds[1]) = {}
    <3>1. rounds' = Tail(rounds) /\ UNCHANGED <<step, heard>>
      BY <1>3, <2>2 DEF StartRound
    <3>2. FilesIn(rounds[1]) \cap StreamA \subseteq settled
      BY <1>a, <2>2 DEF RoundFilesOf
    <3>3. ASSUME NEW f \in Entered PROVE f \in settled' \/ analysed'[f] # "none" \/ Waits(f)'
      <4>1. f \in settled \/ analysed[f] # "none" \/ Waits(f)
        BY <2>1 DEF RoutingInv
      <4>2. ASSUME NEW i \in DOMAIN rounds, f \in FilesIn(rounds[i]), f \in StreamA, f \notin settled
            PROVE  \E j \in DOMAIN rounds' : f \in FilesIn(rounds'[j])
        <5>1. i # 1
          BY <3>2, <4>2
        <5>. QED  BY <1>b, <2>1, <3>1, <4>2, <5>1
      <4>. QED  BY <1>0, <2>1, <4>1, <4>2 DEF Waits
    <3>. QED  BY <1>0, <1>b, <2>1, <3>1, <3>3 DEF RoutingInv
  <2>3. CASE RoundFilesOf(rounds[1]) # {}
    <3>1. step' = "asking" /\ heard' = Unheard /\ UNCHANGED rounds
      BY <1>3, <2>3 DEF StartRound
    <3>. QED  BY <1>0, <2>1, <3>1 DEF RoutingInv, Waits, Unheard
  <2>. QED  BY <2>2, <2>3
<1>4. CASE AskRound
  <2>1. UNCHANGED <<entry, step, rounds, toAsk, analysed, settled, asked>>
    BY <1>4 DEF AskRound
  <2>2. \A f \in DOMAIN heard' : heard'[f] # "none"
    <3>1. CASE UNCHANGED heard
      BY <3>1 DEF RoutingInv
    <3>2. ASSUME NEW answered \in SUBSET calls[1].files, NEW a \in [answered -> Strategy],
                 heard' = [f \in answered \cup DOMAIN heard |-> IF f \in answered THEN a[f] ELSE heard[f]]
          PROVE  \A f \in DOMAIN heard' : heard'[f] # "none"
      BY <3>2 DEF Strategy, RoutingInv
    <3>. QED  BY <1>4, <3>1, <3>2 DEF AskRound
  <2>. QED  BY <1>0, <2>1, <2>2 DEF RoutingInv, Waits
<1>5. CASE EndRound
  <2>. DEFINE asks == RoundFilesOf(rounds[1])
              done == FillUnheard(asks)
  <2>1. step = "asking" /\ step' = "rounds" /\ rounds' = Tail(rounds)
        /\ UNCHANGED <<entry, heard, toAsk, settled, asked>>
    BY <1>5 DEF EndRound
  <2>2. analysed' = [f \in Entered |-> IF f \in DOMAIN done THEN done[f] ELSE analysed[f]]
    BY <1>5 DEF EndRound
  <2>3. rounds # <<>>
    BY <2>1 DEF RoutingInv
  <2>4. DOMAIN done = asks /\ \A f \in asks : done[f] # "none"
    <3>1. done = [f \in asks |-> IF f \in DOMAIN heard THEN heard[f] ELSE "escalate"]
      BY DEF FillUnheard
    <3>. HIDE DEF done, asks
    <3>. QED  BY <3>1 DEF RoutingInv
  <2>. HIDE DEF done
  <2>5. ASSUME NEW f \in Entered PROVE f \in settled' \/ analysed'[f] # "none" \/ Waits(f)'
    <3>1. f \in settled \/ analysed[f] # "none" \/ Waits(f)
      BY <2>1 DEF RoutingInv
    <3>2. analysed[f] # "none" \/ f \in asks => analysed'[f] # "none"
      <4>. HIDE DEF asks
      <4>. QED  BY <2>2, <2>4
    <3>3. ASSUME NEW i \in DOMAIN rounds, f \in FilesIn(rounds[i]), f \in StreamA,
                 f \notin settled, f \notin asks
          PROVE  \E j \in DOMAIN rounds' : f \in FilesIn(rounds'[j])
      <4>1. i # 1
        BY <1>a, <3>3 DEF RoundFilesOf
      <4>. QED  BY <1>b, <2>1, <2>3, <3>3, <4>1
    <3>. HIDE DEF asks
    <3>. QED  BY <1>0, <2>1, <3>1, <3>2, <3>3 DEF Waits
  <2>6. DOMAIN analysed' = Entered'
    BY <1>0, <2>1, <2>2
  <2>. QED  BY <1>0, <1>b, <2>1, <2>3, <2>5, <2>6 DEF RoutingInv
<1>6. CASE SkipRounds
  <2>1. step = "rounds" /\ rounds' = <<>> /\ UNCHANGED <<entry, step, heard, toAsk, settled, asked>>
    BY <1>6 DEF SkipRounds
  <2>2. analysed' = [f \in Entered |-> IF f \in StreamA /\ analysed[f] = "none" THEN "escalate" ELSE analysed[f]]
    BY <1>6 DEF SkipRounds
  <2>3. DOMAIN analysed' = Entered'
    BY <1>0, <2>1, <2>2
  <2>4. ASSUME NEW f \in Entered PROVE f \in settled' \/ analysed'[f] # "none" \/ Waits(f)'
    <3>1. f \in settled \/ analysed[f] # "none" \/ Waits(f)
      BY <2>1 DEF RoutingInv
    <3>2. f \in StreamA \/ analysed[f] # "none" => analysed'[f] # "none"
      BY <2>2
    <3>. QED  BY <1>0, <2>1, <3>1, <3>2 DEF Waits
  <2>. QED  BY <1>0, <2>1, <2>3, <2>4 DEF RoutingInv, Rounds
<1>7. CASE RoundsDone
  BY <1>0, <1>7 DEF RoundsDone, RoutingInv, Waits
<1>8. CASE AskFile
  <2>1. PICK f \in toAsk :
          /\ toAsk' = toAsk \ {f}
          /\ \/ f \notin entry.known /\ UNCHANGED analysed
             \/ \E a \in Strategy : analysed' = [analysed EXCEPT ![f] = a]
    BY <1>8, Zenon DEF AskFile, Strategy
  <2>2. step = "files" /\ UNCHANGED <<entry, step, rounds, heard, settled, asked>>
    BY <1>8 DEF AskFile
  <2>3. f \in Entered /\ f \in StreamB
    BY <1>a DEF RoutingInv
  <2>4. /\ DOMAIN analysed' = Entered
        /\ \A g \in Entered \ {f} : analysed'[g] = analysed[g]
        /\ f \notin entry.known \/ analysed'[f] # "none"
    BY <2>1, <2>3 DEF RoutingInv, Strategy
  <2>5. ASSUME NEW g \in Entered PROVE g \in settled' \/ analysed'[g] # "none" \/ Waits(g)'
    <3>1. g \in settled \/ analysed[g] # "none" \/ Waits(g)
      BY <2>2 DEF RoutingInv
    <3>. QED  BY <1>0, <2>1, <2>2, <2>3, <2>4, <3>1 DEF Waits
  <2>. QED  BY <1>0, <2>1, <2>2, <2>4, <2>5 DEF RoutingInv
<1>9. CASE DecideFiles
  <2>. DEFINE due == {f \in Entered : analysed[f] # "none"} \ settled
  <2>1. step = "files" /\ toAsk = {} /\ step' = "done" /\ UNCHANGED <<entry, rounds, heard, toAsk, analysed>>
        /\ asked' = {f \in due : Decided(f) = "escalate"}
        /\ settled' = settled \cup {f \in due : Decided(f) # "escalate"}
    BY <1>9 DEF DecideFiles
  <2>2. rounds = <<>>
    BY <2>1 DEF RoutingInv
  <2>3. ASSUME NEW f \in Entered PROVE f \in settled' \cup asked' \/ f \in StreamB \ entry.known
    <3>1. f \in settled \/ analysed[f] # "none" \/ f \in StreamB \ entry.known
      BY <2>1, <2>2, <2>3 DEF RoutingInv, Waits
    <3>2. f \in settled \/ f \in due \/ f \in StreamB \ entry.known
      BY <3>1
    <3>. HIDE DEF due
    <3>. QED  BY <2>1, <3>2
  <2>4. settled \subseteq settled'
    BY <2>1
  <2>. HIDE DEF due
  <2>. QED  BY <1>0, <2>1, <2>2, <2>3, <2>4 DEF RoutingInv
<1>. QED  BY <1>1, <1>2, <1>3, <1>4, <1>5, <1>6, <1>7, <1>8, <1>9 DEF RoutingNext

(* For any worklist, commits, rounds and failures of the analyst: no file is  *)
(* dropped between the records, the commit rounds, the one-by-one stream and  *)
(* the questions, but one without a FileDiff that no commit carries.          *)
THEOREM NoFileIsForgotten == ToolsSpec => []NothingForgotten
<1>1. ToolsInit => RoutingInv
  <2>. SUFFICES ASSUME RoutingInit PROVE RoutingInv
    BY DEF ToolsInit
  <2>. QED  BY DEF RoutingInit, RoutingInv, Rounds, Unheard
<1>2. RoutingInv /\ [ToolsNext]_toolVars => RoutingInv'
  BY RoutingInvKept, PartsStandApart
<1>3. RoutingInv => NothingForgotten
  <2>. SUFFICES ASSUME RoutingInv, step = "done", NEW f \in Entered
                PROVE  \/ f \in settled \cup asked
                       \/ f \notin entry.known /\ \A i \in DOMAIN entry.commits : f \notin entry.commits[i]
    BY DEF NothingForgotten, Entered
  <2>1. f \in settled \cup asked \/ f \in StreamB \ entry.known
    BY DEF RoutingInv
  <2>2. f \in StreamB => \A i \in DOMAIN entry.commits : f \notin entry.commits[i]
    <3>1. f \in StreamB => Carrier(f) = 0
      BY DEF StreamA, StreamB
    <3>. QED  BY <3>1, CarrierCarries DEF RoutingInv
  <2>. QED  BY <2>1, <2>2
<1>. QED  BY <1>1, <1>2, <1>3, PTL DEF ToolsSpec

-----------------------------------------------------------------------------
(* The calls of one agent, for any number of callers, any limits and any    *)
(* exceptions: the shared state stays well formed, the provider is the right  *)
(* one, and no call sends more requests than two retry budgets.               *)

\* The requests one retry budget allows.
OneBudget == MaxRetries + MaxWaits - 1

(* Who holds the breaker's swap, as a set and not by its size: the form of *)
(* ProviderIsRight that a step can be followed through.                    *)
OneSwap == swapped = {} \/ \E c \in Caller : swapped = {c}
ProviderAgrees ==
  /\ usingFallback <=> llm = "fallback"
  /\ llm = "fallback" <=> (forGood \/ swapped # {})
  /\ OneSwap /\ ~(forGood /\ swapped # {})

(* A call has sent no more than its attempts and waits account for, and a  *)
(* whole budget more once the provider was switched for good: that switch  *)
(* is what renews a budget, and it never happens twice.                    *)
Accounts(s, a, w, good) == s <= 1 + a + w + (IF good THEN OneBudget ELSE 0)
RequestsCounted ==
  \A c \in Caller : /\ c \in asking => Accounts(sent[c], attempt[c], waits[c], forGood)
                    /\ c \notin asking => sent[c] = 0

\* The inductive invariant.  The types need it: a switch for good ends calls
\* without undoing their swap, which is sound as long as there is none.
CallInv == AgentTypeOK /\ ProviderAgrees /\ RequestsCounted

-----------------------------------------------------------------------------
LEMMA Numbers ==
  /\ MaxCalls \in Nat \ {0} /\ MaxRetries \in Nat \ {0} /\ MaxWaits \in Nat \ {0}
  /\ Threshold \in Nat \ {0} /\ MinSamples \in Nat \ {0} /\ Limit \in Nat \ {0}
  /\ WindowSize \in Nat \ {0}
  /\ OneBudget \in Nat \ {0} /\ MaxSent = 2 * OneBudget /\ MaxSent \in Nat
BY AgentCallAssumption DEF OneBudget, MaxSent

\* The sliding window never outgrows its size.
LEMMA PushType ==
  ASSUME NEW w \in Seq(BOOLEAN), Len(w) <= WindowSize, NEW ok \in BOOLEAN
  PROVE  Push(w, ok) \in Seq(BOOLEAN) /\ Len(Push(w, ok)) <= WindowSize
<1>1. /\ Append(w, ok) \in Seq(BOOLEAN) /\ Len(Append(w, ok)) = Len(w) + 1 /\ Len(w) \in Nat
  OBVIOUS
<1>2. /\ Append(w, ok) # <<>>
      /\ Tail(Append(w, ok)) \in Seq(BOOLEAN) /\ Len(Tail(Append(w, ok))) = Len(w)
  BY <1>1
<1>3. CASE Len(Append(w, ok)) > WindowSize
  BY <1>1, <1>2, <1>3, Numbers DEF Push
<1>4. CASE ~(Len(Append(w, ok)) > WindowSize)
  <2>1. Push(w, ok) = Append(w, ok)
    BY <1>4 DEF Push
  <2>. QED  BY <1>1, <1>4, <2>1, Numbers
<1>. QED  BY <1>3, <1>4

\* What keeps the accounts of a call, and what they come to.
LEMMA Counting ==
  ASSUME NEW s \in Nat, NEW a \in Nat, NEW w \in Nat, NEW good \in BOOLEAN,
         Accounts(s, a, w, good)
  PROVE  /\ Accounts(s + 1, a + 1, w, good) /\ Accounts(s + 1, a, w + 1, good)
         /\ \A n \in Nat : n <= s => Accounts(n, a, w, good)
         /\ Accounts(s, a, w, TRUE)
         /\ s <= 1 + a + w + OneBudget
         /\ ~good => s <= 1 + a + w
<1>1. PICK more \in Nat : more = (IF good THEN OneBudget ELSE 0) /\ more <= OneBudget
  BY Numbers
<1>2. \A r, b, v \in Nat : Accounts(r, b, v, good) <=> r <= 1 + b + v + more
  BY <1>1 DEF Accounts
<1>3. s <= 1 + a + w + more
  BY <1>2
<1>4. \A r, b, v \in Nat : Accounts(r, b, v, TRUE) <=> r <= 1 + b + v + OneBudget
  BY DEF Accounts
<1>5. s <= 1 + a + w + OneBudget
  BY <1>1, <1>3, Numbers
<1>6. ~good => s <= 1 + a + w
  BY <1>1, <1>3
<1>7. s + 1 \in Nat /\ a + 1 \in Nat /\ w + 1 \in Nat
  OBVIOUS
<1>8. Accounts(s + 1, a + 1, w, good)
  <2>1. s + 1 <= 1 + (a + 1) + w + more
    BY <1>3
  <2>. QED  BY <1>2, <1>7, <2>1
<1>9. Accounts(s + 1, a, w + 1, good)
  <2>1. s + 1 <= 1 + a + (w + 1) + more
    BY <1>3
  <2>. QED  BY <1>2, <1>7, <2>1
<1>10. ASSUME NEW n \in Nat, n <= s
       PROVE  Accounts(n, a, w, good)
  <2>1. n <= 1 + a + w + more
    BY <1>3, <1>10
  <2>. QED  BY <1>2, <2>1
<1>. QED  BY <1>4, <1>5, <1>6, <1>8, <1>9, <1>10

LEMMA CountType ==
  ASSUME NEW n \in Nat
  PROVE  AtMostThreshold(n) \in 0 .. Threshold
BY Numbers DEF AtMostThreshold

LEMMA RestoredType ==
  ASSUME AgentTypeOK, NEW c \in Caller
  PROVE  Restored(c) \in [Client -> Model]
BY DEF AgentTypeOK, Restored

-----------------------------------------------------------------------------
(* How a call goes on and how it ends.  What the steps share is stated     *)
(* once: the provider's side of it, and the accounts of the calls.         *)

\* The part of the types that a step says nothing special about.
CountersTyped ==
  /\ failures' \in 0 .. Threshold
  /\ window' \in Seq(BOOLEAN) /\ Len(window') <= WindowSize
  /\ spent' \in 0 .. Limit /\ made' \in 0 .. MaxCalls

LEMMA AgainKeeps ==
  ASSUME CallInv, CountersTyped, NEW c \in asking, NEW m \in [Client -> Model],
         NEW tries \in 0 .. MaxRetries - 1, NEW pauses \in 0 .. MaxWaits - 1,
         Again(c, tries, pauses, m),
         llm' \in Client, usingFallback' \in BOOLEAN, forGood' \in BOOLEAN,
         ProviderAgrees', forGood => forGood',
         Accounts(sent[c] + 1, tries, pauses, forGood')
  PROVE  CallInv'
<1>0. c \in Caller /\ AgentTypeOK
  BY DEF CallInv, AgentTypeOK
<1>1. sent'[c] \in 0 .. MaxSent + 1 /\ sent'[c] <= sent[c] + 1
  BY <1>0, Numbers DEF Again, AgentTypeOK
<1>2. \A d \in Caller \ {c} :
        sent'[d] = sent[d] /\ attempt'[d] = attempt[d] /\ waits'[d] = waits[d]
  BY <1>0 DEF Again, AgentTypeOK
<1>3. attempt'[c] = tries /\ waits'[c] = pauses
  BY <1>0 DEF Again, AgentTypeOK
<1>4. AgentTypeOK'
  <2>1. sent' \in [Caller -> 0 .. MaxSent + 1]
    BY <1>0, <1>1 DEF Again, AgentTypeOK
  <2>. QED  BY <1>0, <2>1 DEF Again, AgentTypeOK, CountersTyped
<1>5. RequestsCounted'
  <2>1. ASSUME NEW d \in Caller
        PROVE  /\ d \in asking => Accounts(sent'[d], attempt'[d], waits'[d], forGood')
               /\ d \notin asking => sent'[d] = 0
    <3>1. CASE d = c
      <4>1. sent[c] + 1 \in Nat /\ sent'[c] \in Nat /\ tries \in Nat /\ pauses \in Nat
        BY <1>0, <1>1, Numbers, SMTT(60) DEF AgentTypeOK
      <4>2. Accounts(sent'[c], tries, pauses, forGood')
        BY <1>1, <4>1, Counting
      <4>. QED  BY <1>3, <3>1, <4>2
    <3>2. CASE d # c
      <4>1. sent[d] \in Nat /\ attempt[d] \in Nat /\ waits[d] \in Nat
        BY <1>0, Numbers DEF AgentTypeOK
      <4>. QED  BY <1>2, <3>2, <4>1, Numbers DEF CallInv, RequestsCounted, Accounts
    <3>. QED  BY <3>1, <3>2
  <2>2. asking' = asking
    BY DEF Again
  <2>. QED  BY <2>1, <2>2 DEF RequestsCounted
<1>. QED  BY <1>4, <1>5 DEF CallInv

LEMMA GoneKeeps ==
  ASSUME CallInv, CountersTyped, NEW c \in asking, Gone(c),
         swapped' \subseteq asking \ {c},
         llm' \in Client, usingFallback' \in BOOLEAN, forGood' \in BOOLEAN,
         ProviderAgrees', forGood => forGood'
  PROVE  CallInv'
<1>0. c \in Caller /\ AgentTypeOK
  BY DEF CallInv, AgentTypeOK
<1>1. AgentTypeOK'
  <2>1. /\ model' \in [Client -> Model] /\ NoOverride \in [client : Client, old : Model]
    BY <1>0, RestoredType DEF Gone, NoOverride, Client, Model
  <2>2. /\ attempt' \in [Caller -> 0 .. MaxRetries - 1] /\ waits' \in [Caller -> 0 .. MaxWaits - 1]
        /\ sent' \in [Caller -> 0 .. MaxSent + 1]
    BY <1>0, Numbers DEF Gone, AgentTypeOK
  <2>3. override' \in [Caller -> [client : Client, old : Model]]
    BY <1>0, <2>1 DEF Gone, AgentTypeOK
  <2>. QED  BY <1>0, <2>1, <2>2, <2>3 DEF Gone, AgentTypeOK, CountersTyped
<1>2. RequestsCounted'
  <2>1. ASSUME NEW d \in Caller
        PROVE  /\ d \in asking' => Accounts(sent'[d], attempt'[d], waits'[d], forGood')
               /\ d \notin asking' => sent'[d] = 0
    <3>1. CASE d = c
      BY <1>0, <3>1 DEF Gone, AgentTypeOK
    <3>2. CASE d # c
      <4>1. sent[d] \in Nat /\ attempt[d] \in Nat /\ waits[d] \in Nat
        BY <1>0, Numbers DEF AgentTypeOK
      <4>2. /\ sent'[d] = sent[d] /\ attempt'[d] = attempt[d] /\ waits'[d] = waits[d]
            /\ d \in asking' <=> d \in asking
        BY <1>0, <3>2 DEF Gone, AgentTypeOK
      <4>. QED  BY <4>1, <4>2, Numbers DEF CallInv, RequestsCounted, Accounts
    <3>. QED  BY <3>1, <3>2
  <2>. QED  BY <2>1 DEF RequestsCounted
<1>. QED  BY <1>1, <1>2 DEF CallInv

\* The finally of a call undoes the swap it made, and only that one.
LEMMA EndKeeps ==
  ASSUME CallInv, CountersTyped, NEW c \in asking, End(c), UNCHANGED forGood
  PROVE  CallInv'
<1>1. /\ swapped' \subseteq asking \ {c} /\ llm' \in Client /\ usingFallback' \in BOOLEAN
      /\ forGood' \in BOOLEAN
  BY DEF CallInv, AgentTypeOK, End, Client
<1>2. ProviderAgrees'
  <2>1. CASE c \in swapped
    <3>1. swapped = {c} /\ ~forGood
      BY <2>1 DEF CallInv, ProviderAgrees, OneSwap
    <3>. QED  BY <2>1, <3>1 DEF End, ProviderAgrees, OneSwap
  <2>2. CASE c \notin swapped
    BY <2>2 DEF CallInv, ProviderAgrees, OneSwap, End
  <2>. QED  BY <2>1, <2>2
<1>. QED  BY <1>1, <1>2, GoneKeeps DEF End

-----------------------------------------------------------------------------
(* A failed request, by what it leads to.                                  *)
LEMMA ExhaustKeeps ==
  ASSUME CallInv, NEW c \in asking, NEW kind, NEW f \in 0 .. Threshold,
         NEW w \in Seq(BOOLEAN), Len(w) <= WindowSize,
         spent' \in 0 .. Limit, Exhaust(c, kind, f, w)
  PROVE  CallInv'
<1>1. CountersTyped
  <2>1. f + 1 \in Nat /\ UNCHANGED made
    BY Numbers DEF Exhaust, End, Gone
  <2>. QED  BY <2>1, Numbers, CountType DEF Exhaust, CountersTyped, CallInv, AgentTypeOK
<1>. QED  BY <1>1, EndKeeps DEF Exhaust

LEMMA RaisedKeeps ==
  ASSUME CallInv, NEW c \in asking, NEW kind, NEW f \in 0 .. Threshold,
         NEW w \in Seq(BOOLEAN), Len(w) <= WindowSize, NEW m \in [Client -> Model],
         spent' \in 0 .. Limit, Raised(c, kind, f, w, m)
  PROVE  CallInv'
<1>0. /\ c \in Caller /\ attempt[c] \in 0 .. MaxRetries - 1 /\ waits[c] \in 0 .. MaxWaits - 1
      /\ sent[c] \in Nat /\ Accounts(sent[c], attempt[c], waits[c], forGood)
      /\ forGood \in BOOLEAN
  BY Numbers DEF CallInv, AgentTypeOK, RequestsCounted
<1>7. attempt[c] \in Nat /\ waits[c] \in Nat
  BY <1>0, Numbers
<1>8. made' \in 0 .. MaxCalls
  <2>1. made' = made
    BY DEF Raised, RaisedSwitching, RaisedFatal, RaisedRateLimit, RaisedRetryable, Exhaust, End,
           Gone, Again
  <2>. QED  BY <2>1 DEF CallInv, AgentTypeOK
<1>1. CanFallBack => swapped = {} /\ ~forGood /\ llm = "primary"
  BY DEF CanFallBack, CallInv, ProviderAgrees, AgentTypeOK, Client
<1>2. CASE FallsOver(kind, w) /\ RaisedSwitching(c, kind, f, w, m)
  <2>1. swapped = {} /\ ~forGood
    BY <1>1, <1>2 DEF FallsOver
  <2>2. /\ llm' = "fallback" /\ usingFallback' = TRUE /\ forGood' = TRUE /\ swapped' = {}
    BY <1>2, <2>1 DEF RaisedSwitching, Again
  <2>3. ProviderAgrees'
    BY <2>2 DEF ProviderAgrees, OneSwap
  <2>4. CountersTyped
    BY <1>0, <1>2, <1>8, Numbers, SMTT(60) DEF RaisedSwitching, CountersTyped
  <2>7. Accounts(sent[c], attempt[c], waits[c], TRUE)
    BY <1>0, <1>7, Counting
  <2>5. CASE attempt[c] + 1 < MaxRetries
    <3>1. Accounts(sent[c] + 1, attempt[c] + 1, waits[c], forGood')
      <4>1. Accounts(sent[c] + 1, attempt[c] + 1, waits[c], TRUE)
        BY <1>0, <1>7, <2>7, Counting
      <4>. QED  BY <2>2, <4>1
    <3>2. Again(c, attempt[c] + 1, waits[c], m) /\ attempt[c] + 1 \in 0 .. MaxRetries - 1
      BY <1>0, <1>2, <2>5, Numbers, SMTT(60) DEF RaisedSwitching
    <3>. QED  BY <1>0, <2>2, <2>3, <2>4, <3>1, <3>2, AgainKeeps DEF Client
  <2>6. CASE ~(attempt[c] + 1 < MaxRetries)
    <3>1. Gone(c)
      BY <1>2, <2>6 DEF RaisedSwitching
    <3>. QED  BY <2>2, <2>3, <2>4, <3>1, GoneKeeps DEF Client
  <2>. QED  BY <2>5, <2>6
<1>3. CASE RaisedFatal(c, kind, f, w)
  <2>1. CountersTyped
    <3>1. f + 1 \in Nat
      BY Numbers
    <3>. QED  BY <1>3, <1>8, <3>1, CountType DEF RaisedFatal, CountersTyped
  <2>. QED  BY <1>3, <2>1, EndKeeps DEF RaisedFatal
<1>4. CASE UNCHANGED <<llm, usingFallback, forGood>> /\ failures' = f /\ window' = w
            /\ \/ /\ attempt[c] + 1 < MaxRetries
                  /\ Again(c, attempt[c] + 1, waits[c], m)
               \/ /\ waits[c] + 1 < MaxWaits
                  /\ Again(c, attempt[c], waits[c] + 1, m)
  <2>1. CountersTyped /\ ProviderAgrees' /\ llm' \in Client /\ usingFallback' \in BOOLEAN /\ forGood' = forGood
    BY <1>0, <1>4, <1>8 DEF CountersTyped, ProviderAgrees, OneSwap, CallInv, AgentTypeOK, Again
  <2>2. PICK tries \in 0 .. MaxRetries - 1, pauses \in 0 .. MaxWaits - 1 :
          /\ Again(c, tries, pauses, m)
          /\ Accounts(sent[c] + 1, tries, pauses, forGood)
    <3>1. CASE attempt[c] + 1 < MaxRetries /\ Again(c, attempt[c] + 1, waits[c], m)
      <4>1. attempt[c] + 1 \in 0 .. MaxRetries - 1
        <5>1. attempt[c] + 1 < MaxRetries
          BY <3>1
        <5>. QED  BY <1>7, <5>1, Numbers
      <4>2. Accounts(sent[c] + 1, attempt[c] + 1, waits[c], forGood)
        BY <1>0, <1>7, Counting
      <4>. QED  BY <1>0, <3>1, <4>1, <4>2
    <3>2. CASE waits[c] + 1 < MaxWaits /\ Again(c, attempt[c], waits[c] + 1, m)
      <4>1. waits[c] + 1 \in 0 .. MaxWaits - 1
        <5>1. waits[c] + 1 < MaxWaits
          BY <3>2
        <5>. QED  BY <1>7, <5>1, Numbers
      <4>2. Accounts(sent[c] + 1, attempt[c], waits[c] + 1, forGood)
        BY <1>0, <1>7, Counting, ZenonT(60)
      <4>. QED  BY <1>0, <3>2, <4>1, <4>2
    <3>. QED  BY <1>4, <3>1, <3>2
  <2>. QED  BY <1>0, <2>1, <2>2, AgainKeeps
<1>5. CASE CanFallBack /\ SwitchForGood /\ Again(c, 0, 0, m)
  <2>1. swapped = {} /\ ~forGood
    BY <1>1, <1>5
  <2>2. /\ llm' = "fallback" /\ usingFallback' = TRUE /\ forGood' = TRUE /\ swapped' = {}
        /\ failures' = 0 /\ window' = <<>>
    BY <1>5, <2>1 DEF SwitchForGood, Again
  <2>3. ProviderAgrees' /\ CountersTyped
    BY <1>0, <1>8, <2>2, Numbers DEF ProviderAgrees, OneSwap, CountersTyped
  <2>4. Accounts(sent[c] + 1, 0, 0, forGood')
    <3>1. sent[c] <= 1 + attempt[c] + waits[c]
      BY <1>0, <1>7, <2>1, Counting
    <3>2. attempt[c] <= MaxRetries - 1 /\ waits[c] <= MaxWaits - 1
      BY <1>0, Numbers
    <3>3. sent[c] + 1 <= 1 + 0 + 0 + OneBudget
      BY <1>0, <1>7, <3>1, <3>2, Numbers, SMTT(60) DEF OneBudget
    <3>. QED  BY <2>2, <3>3 DEF Accounts
  <2>5. 0 \in 0 .. MaxRetries - 1 /\ 0 \in 0 .. MaxWaits - 1
    BY Numbers
  <2>. QED  BY <1>5, <2>2, <2>3, <2>4, <2>5, AgainKeeps DEF Client
<1>6. CASE \E k : Exhaust(c, k, f, w)
  BY <1>6, ExhaustKeeps
<1>. QED
  BY <1>2, <1>3, <1>4, <1>5, <1>6 DEF Raised, RaisedRateLimit, RaisedRetryable

-----------------------------------------------------------------------------
LEMMA BeginKeeps ==
  ASSUME CallInv, NEW c \in Caller, Begin(c)
  PROVE  CallInv'
<1>0. AgentTypeOK /\ ProviderAgrees /\ c \notin asking /\ made < MaxCalls /\ made' = made + 1
  BY DEF CallInv, Begin
<1>1. made' \in 0 .. MaxCalls
  BY <1>0, Numbers DEF AgentTypeOK
<1>2. CASE NotSent
  BY <1>0, <1>1, <1>2 DEF NotSent, shared, CallInv, AgentTypeOK, ProviderAgrees, OneSwap, RequestsCounted
<1>3. CASE ~NotSent
  <2> DEFINE swap == failures >= Threshold
             provider == IF swap THEN "fallback" ELSE llm
  <2>1. PICK m \in IF provider = "primary" THEN Routed ELSE {"full"} :
          /\ swap => CanFallBack
          /\ llm' = provider /\ usingFallback' = (usingFallback \/ swap)
          /\ failures' = (IF swap THEN 0 ELSE failures)
          /\ swapped' = IF swap THEN swapped \cup {c} ELSE swapped
          /\ override' = [override EXCEPT ![c] = [client |-> provider, old |-> model[provider]]]
          /\ model' = [model EXCEPT ![provider] = m]
          /\ asking' = asking \cup {c} /\ sent' = [sent EXCEPT ![c] = 1]
          /\ UNCHANGED <<attempt, waits, window, spent, forGood>>
    BY <1>3, ZenonT(60) DEF Begin
  <2>2. provider \in Client /\ m \in Model
    BY <1>0, <2>1, AgentCallAssumption DEF AgentTypeOK, Client, Model
  <2>3. swap => swapped = {} /\ ~forGood /\ ~usingFallback
    BY <1>0, <2>1 DEF ProviderAgrees, CanFallBack, AgentTypeOK, Client
  <2>4. ProviderAgrees'
    <3>1. CASE swap
      BY <2>1, <2>3, <3>1 DEF ProviderAgrees, OneSwap
    <3>2. CASE ~swap
      BY <1>0, <2>1, <3>2 DEF ProviderAgrees, OneSwap, AgentTypeOK
    <3>. QED  BY <3>1, <3>2
  <2> HIDE DEF swap, provider
  <2>5. AgentTypeOK'
    <3>1. model' \in [Client -> Model] /\ override' \in [Caller -> [client : Client, old : Model]]
      BY <1>0, <2>1, <2>2 DEF AgentTypeOK
    <3>2. 1 \in 0 .. MaxSent + 1 /\ 0 \in 0 .. Threshold
      BY Numbers
    <3>3. sent' \in [Caller -> 0 .. MaxSent + 1] /\ failures' \in 0 .. Threshold
      BY <1>0, <2>1, <3>2 DEF AgentTypeOK
    <3>4. usingFallback' \in BOOLEAN /\ swapped' \subseteq asking' /\ asking' \subseteq Caller
      BY <1>0, <2>1 DEF AgentTypeOK
    <3>. QED  BY <1>0, <1>1, <2>1, <2>2, <3>1, <3>3, <3>4 DEF AgentTypeOK
  <2>6. RequestsCounted'
    <3>1. ASSUME NEW d \in Caller
          PROVE  /\ d \in asking' => Accounts(sent'[d], attempt[d], waits[d], forGood)
                 /\ d \notin asking' => sent'[d] = 0
      <4>1. CASE d = c
        <5>1. sent'[d] = 1 /\ d \in asking' /\ attempt[d] \in Nat /\ waits[d] \in Nat
          BY <1>0, <2>1, <4>1, Numbers DEF AgentTypeOK
        <5>2. forGood \in BOOLEAN
          BY <1>0 DEF AgentTypeOK
        <5>. QED  BY <5>1, <5>2, Numbers DEF Accounts
      <4>2. CASE d # c
        BY <1>0, <2>1, <4>2 DEF CallInv, RequestsCounted, AgentTypeOK
      <4>. QED  BY <4>1, <4>2
    <3>. QED  BY <2>1, <3>1 DEF RequestsCounted
  <2>. QED  BY <2>4, <2>5, <2>6 DEF CallInv
<1>. QED  BY <1>2, <1>3

LEMMA AnswerKeeps ==
  ASSUME CallInv, NEW c \in Caller, Answer(c)
  PROVE  CallInv'
<1>0. /\ c \in asking /\ spent' \in 0 .. Limit /\ AgentTypeOK /\ spent' = Spend
  BY Numbers DEF Answer, Spend, CallInv, AgentTypeOK
<1>1. /\ Push(window, TRUE) \in Seq(BOOLEAN) /\ Len(Push(window, TRUE)) <= WindowSize
      /\ Push(Push(window, TRUE), FALSE) \in Seq(BOOLEAN)
      /\ Len(Push(Push(window, TRUE), FALSE)) <= WindowSize
  BY <1>0, PushType DEF AgentTypeOK
<1>2. CASE Spend < Limit
  <2>1. CountersTyped /\ End(c) /\ UNCHANGED forGood
    <3>1. failures' = 0 /\ window' = Push(window, TRUE) /\ End(c) /\ UNCHANGED forGood
      BY <1>2 DEF Answer
    <3>2. made' \in 0 .. MaxCalls
      BY <1>0, <3>1 DEF End, Gone, AgentTypeOK
    <3>3. 0 \in 0 .. Threshold
      BY Numbers
    <3>4. CountersTyped
      BY <1>0, <1>1, <3>1, <3>2, <3>3 DEF CountersTyped
    <3>. QED  BY <3>1, <3>4
  <2>. QED  BY <1>0, <2>1, EndKeeps
<1>3. CASE ~(Spend < Limit)
  <2>1. Raised(c, "unknown", 0, Push(Push(window, TRUE), FALSE), Restored(c))
    BY <1>3 DEF Answer
  <2>2. 0 \in 0 .. Threshold /\ Restored(c) \in [Client -> Model]
    BY <1>0, Numbers, RestoredType
  <2>. QED  BY <1>0, <1>1, <2>1, <2>2, RaisedKeeps
<1>. QED  BY <1>2, <1>3

LEMMA FailKeeps ==
  ASSUME CallInv, NEW c \in Caller, NEW kind, Fail(c, kind)
  PROVE  CallInv'
<1>1. /\ c \in asking /\ failures \in 0 .. Threshold /\ model \in [Client -> Model]
      /\ spent' \in 0 .. Limit
      /\ Push(window, FALSE) \in Seq(BOOLEAN) /\ Len(Push(window, FALSE)) <= WindowSize
  BY PushType DEF Fail, CallInv, AgentTypeOK
<1>. QED  BY <1>1, RaisedKeeps DEF Fail

LEMMA ResetKeeps ==
  ASSUME CallInv, ResetBreaker
  PROVE  CallInv'
<1>1. AgentTypeOK'
  BY Numbers DEF CallInv, ResetBreaker, private, AgentTypeOK
<1>2. ProviderAgrees' /\ RequestsCounted'
  BY DEF CallInv, ResetBreaker, private, ProviderAgrees, OneSwap, RequestsCounted
<1>. QED  BY <1>1, <1>2 DEF CallInv

LEMMA CallInvStarts == AgentInit => CallInv
<1>1. SUFFICES ASSUME AgentInit PROVE CallInv
  OBVIOUS
<1>2. AgentTypeOK
  <2>1. /\ 0 \in 0 .. Threshold /\ 0 \in 0 .. Limit /\ 0 \in 0 .. MaxCalls
        /\ 0 \in 0 .. MaxRetries - 1 /\ 0 \in 0 .. MaxWaits - 1 /\ 0 \in 0 .. MaxSent + 1
        /\ 0 <= WindowSize
    BY Numbers
  <2>2. /\ llm \in Client /\ model \in [Client -> Model]
        /\ NoOverride \in [client : Client, old : Model]
    BY <1>1 DEF AgentInit, Client, Model, NoOverride
  <2>3. /\ attempt \in [Caller -> 0 .. MaxRetries - 1] /\ waits \in [Caller -> 0 .. MaxWaits - 1]
        /\ sent \in [Caller -> 0 .. MaxSent + 1]
        /\ override \in [Caller -> [client : Client, old : Model]]
    BY <1>1, <2>1, <2>2 DEF AgentInit
  <2>4. window \in Seq(BOOLEAN) /\ Len(window) <= WindowSize
    BY <1>1, <2>1 DEF AgentInit
  <2>. QED  BY <1>1, <2>1, <2>2, <2>3, <2>4 DEF AgentInit, AgentTypeOK
<1>3. ProviderAgrees /\ RequestsCounted
  BY <1>1 DEF AgentInit, ProviderAgrees, OneSwap, RequestsCounted
<1>. QED  BY <1>2, <1>3 DEF CallInv

LEMMA CallInvKept == CallInv /\ [AgentNext]_agentVars => CallInv'
<1>1. CallInv /\ AgentNext => CallInv'
  BY BeginKeeps, AnswerKeeps, FailKeeps, ResetKeeps DEF AgentNext, CallStep
<1>2. CallInv /\ UNCHANGED agentVars => CallInv'
  BY DEF agentVars, shared, private, CallInv, AgentTypeOK, ProviderAgrees, OneSwap, RequestsCounted
<1>. QED  BY <1>1, <1>2

(* The invariant of an agent's calls by themselves: types, provider and    *)
(* requests hold together in every interleaving of the calls.              *)
THEOREM CallInvIsInductive == AgentSpec => []CallInv
BY CallInvStarts, CallInvKept, PTL DEF AgentSpec

\* The calls among the other parts.
LEMMA CallInvHolds == ToolsSpec => []CallInv
<1>1. ToolsInit => AgentInit
  BY DEF ToolsInit
<1>2. [ToolsNext]_toolVars => [AgentNext]_agentVars
  BY PartsStandApart
<1>. QED  BY <1>1, <1>2, CallInvStarts, CallInvKept, PTL DEF ToolsSpec

(* The state the calls of one agent share, and each call's own, stay well  *)
(* formed: the failures within the threshold, the window within its size,  *)
(* the attempts and waits within the budget, a swap with a call in flight. *)
THEOREM CallsAreTyped == ToolsSpec => []AgentTypeOK
BY CallInvHolds, PTL DEF CallInv

(* However calls overlap, fail and switch, the agent talks to its fallback *)
(* exactly while it was switched for good or one call holds the swap; the  *)
(* swap is undone by that call, and never undoes a switch for good.        *)
THEOREM ProviderStaysRight == ToolsSpec => []ProviderIsRight
<1>1. ProviderAgrees => ProviderIsRight
  <2>1. OneSwap => Cardinality(swapped) <= 1
    BY FS_EmptySet, FS_Singleton DEF OneSwap
  <2>. QED  BY <2>1 DEF ProviderAgrees, ProviderIsRight
<1>. QED  BY <1>1, CallInvHolds, PTL DEF CallInv

(* No call sends more requests than two retry budgets allow, whatever it   *)
(* meets: only the switch for good renews a budget, and there is only one. *)
THEOREM RequestsStayBounded == ToolsSpec => []RequestsBounded
<1>1. CallInv => RequestsBounded
  <2>1. ASSUME CallInv, NEW c \in Caller
        PROVE  sent[c] <= MaxSent
    <3>1. /\ attempt[c] \in 0 .. MaxRetries - 1 /\ waits[c] \in 0 .. MaxWaits - 1
          /\ sent[c] \in Nat /\ forGood \in BOOLEAN
      BY <2>1, Numbers DEF CallInv, AgentTypeOK
    <3>2. CASE c \in asking
      <4>1. Accounts(sent[c], attempt[c], waits[c], forGood)
        BY <2>1, <3>2 DEF CallInv, RequestsCounted
      <4>. QED  BY <3>1, <4>1, Numbers DEF Accounts, OneBudget, MaxSent
    <3>3. CASE c \notin asking
      BY <2>1, <3>3, Numbers DEF CallInv, RequestsCounted
    <3>. QED  BY <3>2, <3>3
  <2>. QED  BY <2>1 DEF RequestsBounded
<1>. QED  BY <1>1, CallInvHolds, PTL
=============================================================================
