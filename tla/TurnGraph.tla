----------------------------- MODULE TurnGraph -----------------------------
(***************************************************************************)
(* The turns of one session through the LangGraph agent, under the         *)
(* checkpointer (services/rag-api/src/agent: graph.py, nodes/, utils.py,   *)
(* short_term_policy.py).                                                  *)
(*                                                                         *)
(* LangGraph runs the compiled graph on the state it keeps for the thread, *)
(* st.  GrowthRAGGraph.stream follows it with a second copy of the routing *)
(* (_next_node) over a second state, view, which it merges from the        *)
(* updates of this turn alone; when the two routings differ it raises.     *)
(*                                                                         *)
(* A question is reduced to how the router classifies it, a retrieved      *)
(* record to its formula and how far it can support an answer.             *)
(***************************************************************************)
EXTENDS Naturals, Sequences, FiniteSets

CONSTANTS
    Formulas,      \* chemical formulas
    Standard,      \* the form the prediction model gives each formula: formula_std
    FormulaLists,  \* the lists of formulas a question may be about
    RecordSets,    \* what a search may return
    Histories,     \* lengths of the display history a request may bring along
    None,          \* Python's None
    ShortMax,      \* limits.short_max_messages
    MaxTurns,      \* bound: turns
    MaxFaults      \* bound: turns that end in an exception

HistoryTake == 12  \* the messages prepare_turn takes from the display history

Qualities ==
    {"untraceable",  \* no record id or no source text
     "partial",      \* traceable, but of another method or short of a requested slot
     "full"}
Records == [formula : Formulas, quality : Qualities]

ASSUME FormulasAssumption == IsFiniteSet(Formulas) /\ None \notin Formulas
ASSUME StandardAssumption == Standard \in [Formulas -> Formulas]
ASSUME FormulaListsAssumption == FormulaLists \subseteq Seq(Formulas) /\ <<>> \in FormulaLists
ASSUME RecordSetsAssumption == RecordSets \subseteq SUBSET Records
ASSUME HistoriesAssumption == Histories \subseteq 0..HistoryTake
ASSUME BoundsAssumption == ShortMax \in Nat /\ ShortMax >= 2 /\ MaxTurns \in Nat /\ MaxFaults \in Nat

VARIABLES
    node,      \* the node LangGraph runs next, "idle" between turns
    expected,  \* next_node of stream
    st,        \* the graph state of the thread
    view,      \* the state of stream
    ask,       \* the question of the turn, and how it is classified
    sources,   \* the kinds of evidence each formula was ever answered with
    turns, faults

vars == <<node, expected, st, view, ask, sources, turns, faults>>

Nodes ==
    {"prepare_turn", "load_context", "load_long_memory", "analyze_and_route",
     "ask_clarification", "answer_direct", "plan_retrieval", "plan_aggregate_retrieval",
     "retrieve_records", "retrieve_aggregate_records", "assess_retrieval_sufficiency",
     "assess_aggregate_sufficiency", "build_evidence_pack", "assess_prediction_eligibility",
     "run_prediction", "answer_with_evidence", "answer_with_aggregate_evidence",
     "answer_from_prediction", "answer_with_limits", "update_memory", "finalize_response",
     "compact_persistent_state"}

EvidenceKinds == {"literature_record", "model_prediction"}
\* None is none of the strings that the state holds where it may also hold None.
ASSUME NoneAssumption == None \notin EvidenceKinds \cup {"query", "empty", "matched"}

Outcomes ==
    [status : {"sufficient", "empty", "insufficient", "invalid_request", "unavailable"},
     fallback_allowed : BOOLEAN]
Intents == {"clarify", "direct_answer", "retrieve"}  \* smalltalk, unsupported go as direct_answer

\* How analyze_and_route classifies a question, in the order of its tests; prepare_turn
\* rejects the first two.
Questions ==
    [kind : {"empty", "too_long", "aggregate", "history", "unresolved", "plain"},
     formulas : FormulaLists,
     refers : BOOLEAN,     \* it points back at the material of an earlier turn
     intent : Intents,     \* what the LLM would route it to
     candidate : BOOLEAN,  \* is_candidate_growth_request
     growth : BOOLEAN,     \* is_material_growth_request, needs_explicit_material_formula
     evidence_only : BOOLEAN]

\* Where the classification does not reach, one question stands for all.
Asks ==
    {q \in Questions :
        /\ q.kind # "plain" => ~q.refers /\ ~q.candidate /\ ~q.growth /\ ~q.evidence_only
                               /\ q.intent = "retrieve"
        /\ q.kind \notin {"plain", "history"} => q.formulas = <<>>
        /\ q.refers => q.formulas = <<>>}

StateType ==
    [fatal : BOOLEAN,                           \* errors: one that is not recoverable
     window : Nat,                              \* messages: how many
     active : FormulaLists,                     \* active_context.active_formulas
     labels : [Formulas -> EvidenceKinds \cup {None}],  \* short_memory.material_history
     formulas : FormulaLists,                   \* understanding.formulas
     intent : Intents \cup {None},              \* route.intent
     target : Formulas \cup {None},             \* retrieval_plan.filters.material_formula
     aggregate_query : {"query", None},
     aggregate_result : {"empty", "matched", None},
     retrieval_error : BOOLEAN,
     retrieved : SUBSET Records,
     usable : SUBSET Records,
     outcome : Outcomes \cup {None},
     eligible : Formulas \cup {None},           \* prediction_eligibility.formula
     prediction : Formulas \cup {None},         \* prediction_result.formula
     kind : EvidenceKinds \cup {None},          \* selected_evidence_kind
     citations : SUBSET Records]

TypeOK ==
    /\ node \in Nodes \cup {"idle"}
    /\ expected \in Nodes \cup {"idle"}
    /\ st \in StateType
    /\ ask \in Questions
    /\ sources \in [Formulas -> SUBSET EvidenceKinds]
    /\ turns \in 0..MaxTurns
    /\ faults \in 0..MaxFaults

\* What compact_persistent_state clears.
ClearedTurn ==
    [fatal |-> FALSE, formulas |-> <<>>, intent |-> None, target |-> None,
     retrieval_error |-> FALSE, retrieved |-> {}, usable |-> {}, outcome |-> None,
     eligible |-> None, prediction |-> None, kind |-> None, citations |-> {}]

MergeState(s, patch) ==
    [f \in DOMAIN s \cup DOMAIN patch |-> IF f \in DOMAIN patch THEN patch[f] ELSE s[f]]

\* What prepare_turn resets.
FreshTurn_KeepingAggregate == ClearedTurn
FreshTurn == MergeState(ClearedTurn, [aggregate_query |-> None, aggregate_result |-> None])

NoMemory == [active |-> <<>>, labels |-> [f \in Formulas |-> None]]
NewThread == MergeState(MergeState(FreshTurn, NoMemory), [window |-> 0])
EmptyView == [f \in {} |-> None]

Init ==
    /\ node = "idle" /\ expected = "idle"
    /\ st = NewThread
    /\ view = EmptyView
    /\ ask \in {q \in Asks : q.kind = "empty"}
    /\ sources = [f \in Formulas |-> {}]
    /\ turns = 0 /\ faults = 0

-----------------------------------------------------------------------------
(* Routing *)

\* state.get(...)
Get(s, field) == IF field \in DOMAIN s THEN s[field] ELSE None

AfterPrepare(s) == IF s.fatal THEN "finalize_response" ELSE "load_context"

AfterRoute(s) ==
    CASE s.intent = "clarify" -> "ask_clarification"
      [] s.intent \in {"direct_answer", None} -> "answer_direct"
      [] s.intent = "retrieve" /\ Get(s, "aggregate_query") # None -> "plan_aggregate_retrieval"
      [] OTHER -> "plan_retrieval"

AfterRetrievalAssessment(s) ==
    CASE s.outcome = None -> "answer_with_limits"
      [] s.outcome.status = "sufficient" -> "build_evidence_pack"
      [] s.outcome.status \in {"empty", "insufficient"} -> "assess_prediction_eligibility"
      [] OTHER -> "answer_with_limits"

AfterAggregateAssessment(s) ==
    IF s.outcome # None /\ s.outcome.status = "sufficient"
    THEN "build_evidence_pack" ELSE "answer_with_limits"

AfterEvidenceBuild(s) ==
    IF Get(s, "aggregate_result") # None
    THEN "answer_with_aggregate_evidence" ELSE "answer_with_evidence"

AfterPredictionEligibility(s) ==
    IF s.eligible # None THEN "run_prediction" ELSE "answer_with_limits"

AfterPrediction(s) ==
    IF s.prediction # None THEN "answer_from_prediction" ELSE "answer_with_limits"

AnswerNodes ==
    {"ask_clarification", "answer_direct", "answer_with_evidence",
     "answer_with_aggregate_evidence", "answer_from_prediction", "answer_with_limits"}

\* The edges that _build_graph adds.
StaticEdges ==
    [load_context |-> "load_long_memory",
     load_long_memory |-> "analyze_and_route",
     ask_clarification |-> "update_memory",
     answer_direct |-> "update_memory",
     plan_retrieval |-> "retrieve_records",
     plan_aggregate_retrieval |-> "retrieve_aggregate_records",
     retrieve_records |-> "assess_retrieval_sufficiency",
     retrieve_aggregate_records |-> "assess_aggregate_sufficiency",
     answer_with_evidence |-> "update_memory",
     answer_with_aggregate_evidence |-> "update_memory",
     answer_from_prediction |-> "update_memory",
     answer_with_limits |-> "update_memory",
     update_memory |-> "finalize_response",
     finalize_response |-> "compact_persistent_state",
     compact_persistent_state |-> "idle"]

GraphNext(n, s) ==
    CASE n \in DOMAIN StaticEdges -> StaticEdges[n]
      [] n = "prepare_turn" -> AfterPrepare(s)
      [] n = "analyze_and_route" -> AfterRoute(s)
      [] n = "assess_retrieval_sufficiency" -> AfterRetrievalAssessment(s)
      [] n = "assess_aggregate_sufficiency" -> AfterAggregateAssessment(s)
      [] n = "build_evidence_pack" -> AfterEvidenceBuild(s)
      [] n = "assess_prediction_eligibility" -> AfterPredictionEligibility(s)
      [] n = "run_prediction" -> AfterPrediction(s)

\* _next_node, by which stream predicts the next update.
NextNode(n, s) ==
    CASE n = "prepare_turn" -> AfterPrepare(s)
      [] n = "load_context" -> "load_long_memory"
      [] n = "load_long_memory" -> "analyze_and_route"
      [] n = "analyze_and_route" -> AfterRoute(s)
      [] n = "plan_retrieval" -> "retrieve_records"
      [] n = "plan_aggregate_retrieval" -> "retrieve_aggregate_records"
      [] n = "retrieve_records" -> "assess_retrieval_sufficiency"
      [] n = "retrieve_aggregate_records" -> "assess_aggregate_sufficiency"
      [] n = "assess_retrieval_sufficiency" -> AfterRetrievalAssessment(s)
      [] n = "assess_aggregate_sufficiency" -> AfterAggregateAssessment(s)
      [] n = "build_evidence_pack" -> AfterEvidenceBuild(s)
      [] n = "assess_prediction_eligibility" -> AfterPredictionEligibility(s)
      [] n = "run_prediction" -> AfterPrediction(s)
      [] n \in AnswerNodes -> "update_memory"
      [] n = "update_memory" -> "finalize_response"
      [] n = "finalize_response" -> "compact_persistent_state"
      [] n = "compact_persistent_state" -> "idle"

\* LangGraph runs node n, which returns this patch, and stream takes in the update.
Return(n, patch) ==
    /\ node = n
    /\ st' = MergeState(st, patch)
    /\ view' = MergeState(view, patch)
    /\ node' = GraphNext(n, MergeState(st, patch))
    /\ expected' = NextNode(n, MergeState(view, patch))
    /\ UNCHANGED <<ask, turns, faults>>

\* A node that leaves every field the model keeps as it was.
Pass(n) == Return(n, EmptyView) /\ UNCHANGED sources

-----------------------------------------------------------------------------
(* The nodes *)

AtMost(m, n) == IF m <= n THEN m ELSE n

\* stream is called: it starts from an empty view at prepare_turn.
StartTurn ==
    /\ node = "idle"
    /\ turns < MaxTurns
    /\ turns' = turns + 1
    /\ ask' \in Asks
    /\ view' = EmptyView
    /\ node' = "prepare_turn" /\ expected' = "prepare_turn"
    /\ UNCHANGED <<st, sources, faults>>

\* What the thread remembers is taken over when it holds messages; a thread without any
\* starts from the end of the display history.
PrepareTurn ==
    /\ \E history \in Histories :
          LET restored == st.window > 0
              carried == IF restored THEN [active |-> st.active, labels |-> st.labels]
                         ELSE NoMemory
              before == IF restored THEN st.window ELSE history
              turn == [fatal |-> ask.kind \in {"empty", "too_long"},
                       window |-> IF ask.kind = "empty" THEN before ELSE before + 1]
          IN Return("prepare_turn", MergeState(FreshTurn, MergeState(carried, turn)))
    /\ UNCHANGED sources

LoadContext ==
    /\ Return("load_context", [window |-> AtMost(st.window, ShortMax)])
    /\ UNCHANGED sources

LoadLongMemory == Pass("load_long_memory")

\* can_inherit_active_formula: an explicit reference and no formula of its own.
Candidates(s) == IF s.formulas = <<>> /\ ask.refers THEN s.active ELSE s.formulas

ListedIn(list) == {list[i] : i \in 1..Len(list)}

\* A single material that is to be grown is looked up first, whatever the LLM says.
RouteOf(formulas, active) ==
    IF Len(Candidates([formulas |-> formulas, active |-> active])) = 1
       /\ (ask.growth \/ ask.candidate)
    THEN "retrieve" ELSE ask.intent

AnalyzeAndRoute ==
    /\ LET active == IF ask.formulas # <<>> THEN ask.formulas ELSE st.active IN
       Return("analyze_and_route",
           CASE ask.kind = "aggregate" ->
                    [formulas |-> <<>>, intent |-> "retrieve", aggregate_query |-> "query"]
             [] ask.kind = "history" ->
                    [formulas |-> ask.formulas, intent |-> "direct_answer",
                     aggregate_query |-> None]
             [] ask.kind = "unresolved" ->
                    [formulas |-> <<>>, intent |-> "clarify", aggregate_query |-> None,
                     active |-> <<>>]
             [] OTHER ->
                    [formulas |-> ask.formulas, intent |-> RouteOf(ask.formulas, active),
                     aggregate_query |-> None, active |-> active])
    /\ UNCHANGED sources

AskClarification == Pass("ask_clarification")
AnswerDirect == Pass("answer_direct")

PlanRetrieval ==
    /\ Return("plan_retrieval",
              [target |-> IF Candidates(st) = <<>> THEN None ELSE Head(Candidates(st))])
    /\ UNCHANGED sources

PlanAggregateRetrieval ==
    Return("plan_aggregate_retrieval", [target |-> None]) /\ UNCHANGED sources

\* The search completes, or it fails, which is not the same as finding nothing.
RetrieveRecords ==
    /\ \/ \E found \in RecordSets :
             Return("retrieve_records", [retrieved |-> found, retrieval_error |-> FALSE])
       \/ Return("retrieve_records", [retrieved |-> {}, retrieval_error |-> TRUE])
    /\ UNCHANGED sources

RetrieveAggregateRecords ==
    /\ \/ \E found \in RecordSets :
             Return("retrieve_aggregate_records",
                    [aggregate_result |-> "matched", retrieved |-> found,
                     retrieval_error |-> FALSE])
       \/ Return("retrieve_aggregate_records",
                 [aggregate_result |-> "empty", retrieved |-> {}, retrieval_error |-> FALSE])
       \/ Return("retrieve_aggregate_records",
                 [aggregate_result |-> None, retrieved |-> {}, retrieval_error |-> TRUE])
    /\ UNCHANGED sources

Traceable(s) == {r \in s.retrieved : r.quality # "untraceable"}

\* The records that may support the answer: of the target, when there is one, and full.
Usable_AnyFormula(s) == {r \in s.retrieved : r.quality = "full"}
Usable(s) == {r \in Traceable(s) : (s.target = None \/ r.formula = s.target) /\ r.quality = "full"}

Outcome_WithoutFallback(status) == [status |-> status]
Outcome(status) ==
    [status |-> status, fallback_allowed |-> status \in {"empty", "insufficient"}]

RetrievalStatus(s) ==
    CASE s.retrieval_error -> "unavailable"
      [] ~s.retrieval_error /\ s.retrieved = {} -> "empty"
      [] ~s.retrieval_error /\ s.retrieved # {} /\ s.target = None /\ ask.growth -> "invalid_request"
      [] OTHER -> IF Usable(s) = {} THEN "insufficient" ELSE "sufficient"

AssessRetrievalSufficiency ==
    /\ LET status == RetrievalStatus(st) IN
       Return("assess_retrieval_sufficiency",
              [outcome |-> Outcome(status),
               usable |-> IF status = "sufficient" THEN Usable(st) ELSE {}])
    /\ UNCHANGED sources

\* No aggregate outcome allows a fallback.
AssessAggregateSufficiency ==
    /\ LET status == CASE st.retrieval_error -> "unavailable"
                       [] ~st.retrieval_error /\ st.aggregate_result # "matched" -> "empty"
                       [] OTHER -> IF Traceable(st) = {} THEN "insufficient" ELSE "sufficient"
       IN Return("assess_aggregate_sufficiency",
                 [outcome |-> [status |-> status, fallback_allowed |-> FALSE],
                  usable |-> IF status = "sufficient" THEN Traceable(st) ELSE {}])
    /\ UNCHANGED sources

BuildEvidencePack ==
    /\ Return("build_evidence_pack", [citations |-> st.usable, kind |-> "literature_record"])
    /\ UNCHANGED sources

\* assess_prediction_eligibility: the one formula a route may be predicted for, however often
\* the question names it.
EligibleFormula_FirstOfMany(s) ==
    IF ~ask.evidence_only /\ s.outcome.fallback_allowed /\ ask.candidate /\ Candidates(s) # <<>>
    THEN Head(Candidates(s)) ELSE None
EligibleFormula(s) ==
    IF ~ask.evidence_only /\ s.outcome.fallback_allowed /\ ask.candidate
       /\ Cardinality(ListedIn(Candidates(s))) = 1
    THEN Head(Candidates(s)) ELSE None

AssessPredictionEligibility ==
    /\ Return("assess_prediction_eligibility", [eligible |-> EligibleFormula(st)])
    /\ UNCHANGED sources

\* The three exceptions of the prediction service leave no result and end in an answer
\* with limits.
RunPrediction ==
    /\ \/ Return("run_prediction", [prediction |-> st.eligible, kind |-> "model_prediction",
                                   citations |-> {}])
       \/ Return("run_prediction", EmptyView)
    /\ UNCHANGED sources

\* An answer rests on evidence of this kind for these formulas.
Credit(formulas, kind) ==
    sources' = [f \in Formulas |->
                    IF f \in formulas THEN sources[f] \cup {kind} ELSE sources[f]]
CitedFormulas == {r.formula : r \in st.citations}

\* The formula and the formula_std of prediction_result.
Predicted(s) == IF s.prediction = None THEN {} ELSE {s.prediction, Standard[s.prediction]}

AnswerWithEvidence ==
    /\ Return("answer_with_evidence", EmptyView)
    /\ Credit(CitedFormulas, "literature_record")

AnswerWithAggregateEvidence ==
    /\ Return("answer_with_aggregate_evidence", [kind |-> "literature_record"])
    /\ Credit(CitedFormulas, "literature_record")

AnswerFromPrediction ==
    /\ Return("answer_from_prediction", [citations |-> {}])
    /\ Credit(Predicted(st), "model_prediction")

AnswerWithLimits ==
    Return("answer_with_limits", [citations |-> {}]) /\ UNCHANGED sources

\* turn_formulas: what the turn was about.
TurnFormulas(s) == (ListedIn(s.formulas) \cup {s.target} \cup Predicted(s)) \ {None}

\* update_material_history: the kind of this turn's evidence replaces an earlier one.
Labels(s) ==
    [f \in Formulas |->
        IF f \in TurnFormulas(s) /\ s.kind # None THEN s.kind ELSE s.labels[f]]

\* compact_short_memory, of the window and the answer.
Window_Appending(s) == s.window + 1
Window(s) == AtMost(s.window + 1, ShortMax)

UpdateMemory ==
    /\ Return("update_memory",
              [window |-> Window(st),
               active |-> IF st.formulas # <<>> THEN st.formulas ELSE st.active,
               labels |-> Labels(st)])
    /\ UNCHANGED sources

FinalizeResponse == Pass("finalize_response")

CompactPersistentState == Return("compact_persistent_state", ClearedTurn) /\ UNCHANGED sources

\* An exception in a node, or a client that disconnects, ends the turn where it is; the
\* checkpoint holds what the nodes before it returned.
Raise ==
    /\ node # "idle"
    /\ faults < MaxFaults
    /\ faults' = faults + 1
    /\ node' = "idle" /\ expected' = "idle"
    /\ view' = EmptyView
    /\ UNCHANGED <<st, ask, sources, turns>>

RunNode ==
    \/ PrepareTurn \/ LoadContext \/ LoadLongMemory \/ AnalyzeAndRoute
    \/ AskClarification \/ AnswerDirect \/ PlanRetrieval \/ PlanAggregateRetrieval
    \/ RetrieveRecords \/ RetrieveAggregateRecords
    \/ AssessRetrievalSufficiency \/ AssessAggregateSufficiency
    \/ BuildEvidencePack \/ AssessPredictionEligibility \/ RunPrediction
    \/ AnswerWithEvidence \/ AnswerWithAggregateEvidence \/ AnswerFromPrediction
    \/ AnswerWithLimits \/ UpdateMemory \/ FinalizeResponse \/ CompactPersistentState

Next == StartTurn \/ RunNode \/ Raise

Spec == Init /\ [][Next]_vars

-----------------------------------------------------------------------------
\* stream expects the node that LangGraph runs, whatever the turns before left in the
\* thread: its RuntimeError "Unexpected LangGraph node" never strikes.
RoutersAgree == expected = node

\* A route is predicted only after a search that completed without enough evidence, for a
\* candidate request about one formula, which is the one that was searched for, outside
\* evidence-only mode and never for an aggregate query (docs/project-constraints.md, section 4:
\* rules 6 and 8).
PredictionIsLastResort ==
    node = "run_prediction" =>
        /\ ~st.retrieval_error
        /\ Usable(st) = {}
        /\ st.outcome.status \in {"empty", "insufficient"}
        /\ st.aggregate_query = None
        /\ ask.candidate /\ ~ask.evidence_only
        /\ ListedIn(Candidates(st)) = {st.target} /\ st.eligible = st.target

\* What the final response shows is of one kind: citations exactly with literature, each
\* of them traceable and of the formula that was asked for; a prediction exactly with
\* model_prediction (docs/project-constraints.md, section 4).
EvidenceIsExclusive ==
    node = "finalize_response" /\ ~st.fatal =>
        /\ (st.kind = "literature_record") <=> (st.citations # {})
        /\ (st.kind = "model_prediction") <=> (st.prediction # None)
        /\ \A r \in st.citations :
              /\ r.quality # "untraceable"
              /\ st.target # None => r.formula = st.target

\* A formula is labelled as predicted only if a route was predicted for it.
PredictedLabelsTrue ==
    \A f \in Formulas : st.labels[f] = "model_prediction" => "model_prediction" \in sources[f]

\* Once a turn is over, a formula that was only ever answered with a prediction is not
\* labelled as answered from real records (docs/project-constraints.md, section 4: the
\* system must never "Present a prediction as a literature fact").
PredictionNotLiterature ==
    node = "idle" =>
        \A f \in Formulas :
            sources[f] = {"model_prediction"} => st.labels[f] # "literature_record"

\* After a turn that was answered, the thread holds at most the configured window, however
\* many rejected or interrupted turns came before it.
AnsweredWindowBounded ==
    node = "compact_persistent_state" /\ ~st.fatal => st.window <= ShortMax
=============================================================================
