--------------------------- MODULE TurnGraphProofs ---------------------------
(***************************************************************************)
(* Theorems about TurnGraph, for any formulas, questions, search results,  *)
(* histories and window.                                                   *)
(***************************************************************************)
EXTENDS TurnGraph, FiniteSetTheorems, TLAPS

Fields ==
    {"fatal", "window", "active", "labels", "formulas", "intent", "target", "aggregate_query",
     "aggregate_result", "retrieval_error", "retrieved", "usable", "outcome", "eligible",
     "prediction", "kind", "citations"}

\* The fields that the routing reads.
Routing == {"fatal", "intent", "outcome", "eligible", "prediction", "aggregate_query", "aggregate_result"}

LEMMA FreshFields ==
    /\ DOMAIN ClearedTurn = Fields \ {"window", "active", "labels", "aggregate_query", "aggregate_result"}
    /\ DOMAIN FreshTurn = Fields \ {"window", "active", "labels"}
    /\ DOMAIN NewThread = Fields
<1>1. DOMAIN ClearedTurn = Fields \ {"window", "active", "labels", "aggregate_query", "aggregate_result"}
  BY DEF ClearedTurn, Fields
<1>2. PICK aggregate : aggregate = [aggregate_query |-> None, aggregate_result |-> None]
  OBVIOUS
<1>3. DOMAIN aggregate = {"aggregate_query", "aggregate_result"}
  BY <1>2
<1>4. DOMAIN FreshTurn = Fields \ {"window", "active", "labels"}
  BY <1>1, <1>2, <1>3 DEF MergeState, FreshTurn, Fields
<1>5. DOMAIN NoMemory = {"active", "labels"}
  BY DEF NoMemory
<1>6. PICK window : window = [window |-> 0]
  OBVIOUS
<1>7. DOMAIN window = {"window"}
  BY <1>6
<1>8. DOMAIN MergeState(FreshTurn, NoMemory) = Fields \ {"window"}
  BY <1>4, <1>5 DEF MergeState, Fields
<1>9. DOMAIN NewThread = Fields
  BY <1>6, <1>7, <1>8 DEF MergeState, NewThread, Fields
<1> QED BY <1>1, <1>4, <1>9

\* The two copies of the routing are one function of the routing fields.
LEMMA SameRoute ==
    ASSUME NEW n \in Nodes, NEW s, NEW v, Routing \subseteq DOMAIN s, Routing \subseteq DOMAIN v,
           \A f \in Routing : v[f] = s[f]
    PROVE  GraphNext(n, s) = NextNode(n, v) /\ GraphNext(n, s) \in Nodes \cup {"idle"}
<1>1. /\ AfterPrepare(s) = AfterPrepare(v) /\ AfterPrepare(s) \in Nodes
      /\ AfterRetrievalAssessment(s) = AfterRetrievalAssessment(v) /\ AfterRetrievalAssessment(s) \in Nodes
      /\ AfterAggregateAssessment(s) = AfterAggregateAssessment(v) /\ AfterAggregateAssessment(s) \in Nodes
      /\ AfterPredictionEligibility(s) = AfterPredictionEligibility(v)
      /\ AfterPredictionEligibility(s) \in Nodes
      /\ AfterPrediction(s) = AfterPrediction(v) /\ AfterPrediction(s) \in Nodes
  BY DEF AfterPrepare, AfterRetrievalAssessment, AfterAggregateAssessment,
         AfterPredictionEligibility, AfterPrediction, Routing, Nodes
<1>2. /\ AfterRoute(s) = AfterRoute(v) /\ AfterRoute(s) \in Nodes
      /\ AfterEvidenceBuild(s) = AfterEvidenceBuild(v) /\ AfterEvidenceBuild(s) \in Nodes
  BY DEF AfterRoute, AfterEvidenceBuild, Get, Routing, Nodes
<1>3. CASE n \in DOMAIN StaticEdges
  BY <1>3 DEF GraphNext, NextNode, StaticEdges, AnswerNodes, Nodes
<1>4. CASE n \notin DOMAIN StaticEdges
  BY <1>1, <1>2, <1>4 DEF GraphNext, NextNode, StaticEdges, AnswerNodes, Nodes
<1> QED BY <1>3, <1>4

-----------------------------------------------------------------------------
(* The two copies of the routing. *)

RoutingInv ==
    /\ expected = node /\ node \in Nodes \cup {"idle"}
    /\ DOMAIN st = Fields /\ st = [f \in Fields |-> st[f]] /\ DOMAIN view \subseteq Fields
    /\ node # "idle" => \A f \in DOMAIN view : view[f] = st[f]
    /\ node \notin {"idle", "prepare_turn"} => Routing \subseteq DOMAIN view

\* What a node may return: fields of the state, and the first node all that routing reads.
Proper(n, patch) ==
    /\ n \in Nodes /\ DOMAIN patch \subseteq Fields
    /\ n = "prepare_turn" => Routing \subseteq DOMAIN patch

\* What every node does, given what it returns.
LEMMA Returned ==
    ASSUME RoutingInv, NEW n, NEW patch, Return(n, patch), Proper(n, patch)
    PROVE  /\ RoutingInv' /\ node = n /\ node' = GraphNext(n, st')
           /\ \A f \in Fields : st'[f] = IF f \in DOMAIN patch THEN patch[f] ELSE st[f]
           /\ UNCHANGED <<ask, turns, faults>>
<1>1. /\ node = n /\ st' = MergeState(st, patch) /\ view' = MergeState(view, patch)
      /\ node' = GraphNext(n, st') /\ expected' = NextNode(n, view')
      /\ UNCHANGED <<ask, turns, faults>>
  BY DEF Return
<1>2. /\ DOMAIN st' = Fields /\ st' = [f \in Fields |-> st'[f]]
      /\ \A f \in Fields : st'[f] = IF f \in DOMAIN patch THEN patch[f] ELSE st[f]
  BY <1>1 DEF MergeState, RoutingInv, Proper
<1>3. /\ DOMAIN view' = DOMAIN view \cup DOMAIN patch
      /\ \A f \in DOMAIN view' : view'[f] = IF f \in DOMAIN patch THEN patch[f] ELSE view[f]
  BY <1>1 DEF MergeState
<1>4. \A f \in DOMAIN view' : view'[f] = st'[f]
  BY <1>1, <1>2, <1>3 DEF RoutingInv, Proper, Nodes
<1>5. Routing \subseteq DOMAIN view' /\ Routing \subseteq Fields
  BY <1>1, <1>3 DEF RoutingInv, Proper, Nodes, Routing, Fields
<1>6. GraphNext(n, st') = NextNode(n, view') /\ GraphNext(n, st') \in Nodes \cup {"idle"}
  BY <1>2, <1>4, <1>5, SameRoute DEF Proper
<1>7. RoutingInv'
  BY <1>1, <1>2, <1>3, <1>4, <1>5, <1>6 DEF RoutingInv, Proper
<1> QED BY <1>1, <1>2, <1>7

\* What each node returns is proper.
LEMMA EveryNodeProper == RunNode => \E n, patch : Return(n, patch) /\ Proper(n, patch)
<1> SUFFICES ASSUME RunNode PROVE \E n, patch : Return(n, patch) /\ Proper(n, patch)
  OBVIOUS
<1> USE DEF Proper, Nodes, Fields
<1>1. DOMAIN EmptyView = {}
  BY DEF EmptyView
<1>2. CASE PrepareTurn
  <2>1. PICK carried, turn : /\ DOMAIN carried = {"active", "labels"} /\ DOMAIN turn = {"fatal", "window"}
                             /\ Return("prepare_turn", MergeState(FreshTurn, MergeState(carried, turn)))
    <3>1. PICK history \in Histories :
            LET restored == st.window > 0
                carried == IF restored THEN [active |-> st.active, labels |-> st.labels]
                           ELSE NoMemory
                before == IF restored THEN st.window ELSE history
                turn == [fatal |-> ask.kind \in {"empty", "too_long"},
                         window |-> IF ask.kind = "empty" THEN before ELSE before + 1]
            IN Return("prepare_turn", MergeState(FreshTurn, MergeState(carried, turn)))
      BY <1>2 DEF PrepareTurn
    <3> DEFINE restored == st.window > 0
               before == IF restored THEN st.window ELSE history
    <3>2. PICK carried : carried = IF restored THEN [active |-> st.active, labels |-> st.labels]
                                   ELSE NoMemory
      OBVIOUS
    <3>3. PICK turn : turn = [fatal |-> ask.kind \in {"empty", "too_long"},
                              window |-> IF ask.kind = "empty" THEN before ELSE before + 1]
      OBVIOUS
    <3>4. DOMAIN carried = {"active", "labels"}
      BY <3>2 DEF NoMemory
    <3>5. DOMAIN turn = {"fatal", "window"}
      BY <3>3
    <3> QED BY <3>1, <3>2, <3>3, <3>4, <3>5
  <2>2. DOMAIN MergeState(FreshTurn, MergeState(carried, turn)) = Fields
    BY <2>1, FreshFields DEF MergeState
  <2> QED BY <2>1, <2>2 DEF Routing
<1>3. CASE LoadContext
  BY <1>3 DEF LoadContext
<1>4. CASE LoadLongMemory \/ AskClarification \/ AnswerDirect \/ FinalizeResponse
  BY <1>1, <1>4 DEF LoadLongMemory, AskClarification, AnswerDirect, FinalizeResponse, Pass
<1>5. CASE AnalyzeAndRoute
  <2>1. PICK patch : /\ Return("analyze_and_route", patch)
                     /\ \/ DOMAIN patch = {"formulas", "intent", "aggregate_query"}
                        \/ DOMAIN patch = {"formulas", "intent", "aggregate_query", "active"}
    BY <1>5 DEF AnalyzeAndRoute
  <2> QED BY <2>1
<1>6. CASE PlanRetrieval
  BY <1>6 DEF PlanRetrieval
<1>7. CASE PlanAggregateRetrieval
  BY <1>7 DEF PlanAggregateRetrieval
<1>8. CASE RetrieveRecords
  <2>1. PICK found, error : Return("retrieve_records", [retrieved |-> found, retrieval_error |-> error])
    BY <1>8 DEF RetrieveRecords
  <2> QED BY <2>1
<1>9. CASE RetrieveAggregateRecords
  <2>1. PICK result, found, error :
           Return("retrieve_aggregate_records",
                  [aggregate_result |-> result, retrieved |-> found, retrieval_error |-> error])
    BY <1>9 DEF RetrieveAggregateRecords
  <2> QED BY <2>1
<1>10. CASE AssessRetrievalSufficiency
  BY <1>10 DEF AssessRetrievalSufficiency
<1>11. CASE AssessAggregateSufficiency
  BY <1>11 DEF AssessAggregateSufficiency
<1>12. CASE BuildEvidencePack
  BY <1>12 DEF BuildEvidencePack
<1>13. CASE AssessPredictionEligibility
  BY <1>13 DEF AssessPredictionEligibility
<1>14. CASE RunPrediction
  BY <1>1, <1>14 DEF RunPrediction
<1>15. CASE AnswerWithEvidence
  BY <1>1, <1>15 DEF AnswerWithEvidence
<1>16. CASE AnswerWithAggregateEvidence
  BY <1>16 DEF AnswerWithAggregateEvidence
<1>17. CASE AnswerFromPrediction
  BY <1>17 DEF AnswerFromPrediction
<1>18. CASE AnswerWithLimits
  BY <1>18 DEF AnswerWithLimits
<1>19. CASE UpdateMemory
  BY <1>19 DEF UpdateMemory
<1>20. CASE CompactPersistentState
  BY <1>20, FreshFields DEF CompactPersistentState
<1> QED
  BY <1>2, <1>3, <1>4, <1>5, <1>6, <1>7, <1>8, <1>9, <1>10, <1>11, <1>12, <1>13, <1>14,
     <1>15, <1>16, <1>17, <1>18, <1>19, <1>20 DEF RunNode

LEMMA RoutingInvariant == Spec => []RoutingInv
<1>1. Init => RoutingInv
  <2>1. NewThread = [f \in Fields |-> NewThread[f]]
    BY FreshFields DEF NewThread, MergeState
  <2> QED BY <2>1, FreshFields DEF Init, RoutingInv, EmptyView
<1>2. RoutingInv /\ [Next]_vars => RoutingInv'
  <2> SUFFICES ASSUME RoutingInv, [Next]_vars PROVE RoutingInv'
    OBVIOUS
  <2>1. CASE StartTurn
    BY <2>1 DEF StartTurn, RoutingInv, EmptyView, Nodes
  <2>2. CASE RunNode
    BY <2>2, EveryNodeProper, Returned
  <2>3. CASE Raise
    BY <2>3 DEF Raise, RoutingInv, EmptyView
  <2>4. CASE UNCHANGED vars
    BY <2>4 DEF vars, RoutingInv
  <2> QED BY <2>1, <2>2, <2>3, <2>4 DEF Next
<1> QED BY <1>1, <1>2, PTL DEF Spec

\* The RuntimeError "Unexpected LangGraph node" never strikes, whatever a turn's nodes return
\* and whatever earlier turns, answered, rejected or cut off, have left in the thread.
THEOREM RoutersAgreeCorrect == Spec => []RoutersAgree
<1>1. RoutingInv => RoutersAgree
  BY DEF RoutingInv, RoutersAgree
<1> QED BY <1>1, RoutingInvariant, PTL

-----------------------------------------------------------------------------
(* What a turn knows at each node. *)

Searching == {"plan_retrieval", "retrieve_records", "assess_retrieval_sufficiency"}
Predicting == {"assess_prediction_eligibility", "run_prediction"}
Early ==
    {"load_context", "load_long_memory", "analyze_and_route", "ask_clarification", "answer_direct",
     "plan_aggregate_retrieval", "retrieve_aggregate_records", "assess_aggregate_sufficiency",
     "build_evidence_pack", "answer_with_limits"} \cup Searching \cup Predicting

Supports(s, records) ==
    /\ records # {}
    /\ \A r \in records : r.quality # "untraceable" /\ (s.target # None => r.formula = s.target)

Exclusive(s) ==
    /\ (s.kind = "literature_record") <=> (s.citations # {})
    /\ (s.kind = "model_prediction") <=> (s.prediction # None)
    /\ \A r \in s.citations :
          r.quality # "untraceable" /\ (s.target # None => r.formula = s.target)

\* No evidence before it is chosen, and then evidence of one kind.
EvidenceAt(n, s) ==
    /\ n \notin {"idle", "prepare_turn", "finalize_response", "compact_persistent_state"} => ~s.fatal
    /\ n \in Early => s.kind = None /\ s.citations = {} /\ s.prediction = None
    /\ n \in {"retrieve_aggregate_records", "assess_aggregate_sufficiency"} => s.target = None
    /\ n = "build_evidence_pack" => Supports(s, s.usable)
    /\ n \in {"answer_with_evidence", "answer_with_aggregate_evidence"} =>
          s.kind = "literature_record" /\ s.prediction = None /\ Supports(s, s.citations)
    /\ n = "answer_from_prediction" =>
          s.kind = "model_prediction" /\ s.prediction # None /\ s.citations = {}
    /\ n \in {"update_memory", "finalize_response"} /\ ~s.fatal => Exclusive(s)

\* How a turn gets to a prediction, and for which formula.
FallbackAt(n, s, q) ==
    /\ n \in Searching \cup Predicting => s.aggregate_query = None
    /\ n \in Predicting =>
          /\ ~s.retrieval_error /\ Usable(s) = {}
          /\ s.outcome.status \in {"empty", "insufficient"}
    /\ n = "run_prediction" => s.eligible # None /\ q.candidate /\ ~q.evidence_only

\* The effect of a node on the fields F.
Effect(n, F) ==
    /\ node = n /\ node' = GraphNext(n, st') /\ UNCHANGED <<ask, turns, faults>>
    /\ \A f \in Fields \ F : st'[f] = st[f]

LEMMA NodeEffect ==
    ASSUME RoutingInv, NEW n, NEW patch, Return(n, patch), Proper(n, patch)
    PROVE  Effect(n, DOMAIN patch) /\ \A f \in DOMAIN patch : st'[f] = patch[f]
BY Returned DEF Effect, Proper

LEMMA AnalyzeEffect ==
    ASSUME RoutingInv, AnalyzeAndRoute
    PROVE  /\ Effect("analyze_and_route", {"formulas", "intent", "aggregate_query", "active"})
           /\ sources' = sources
<1>1. PICK patch : /\ Return("analyze_and_route", patch)
                   /\ \/ DOMAIN patch = {"formulas", "intent", "aggregate_query"}
                      \/ DOMAIN patch = {"formulas", "intent", "aggregate_query", "active"}
  BY DEF AnalyzeAndRoute
<1>2. Proper("analyze_and_route", patch)
  BY <1>1 DEF Proper, Nodes, Fields
<1>3. Effect("analyze_and_route", DOMAIN patch)
  BY <1>1, <1>2, NodeEffect
<1> QED BY <1>1, <1>3 DEF Effect, AnalyzeAndRoute

LEMMA PrepareEffect ==
    ASSUME RoutingInv, PrepareTurn
    PROVE  /\ Effect("prepare_turn", Fields) /\ sources' = sources
           /\ st'.fatal \in BOOLEAN /\ (st'.fatal <=> ask.kind \in {"empty", "too_long"})
           /\ \A f \in DOMAIN FreshTurn \ {"fatal"} : st'[f] = FreshTurn[f]
           /\ \/ st'.active = st.active /\ st'.labels = st.labels
              \/ st'.active = <<>> /\ st'.labels = [f \in Formulas |-> None]
           /\ \E before \in {st.window} \cup Histories : st'.window \in {before, before + 1}
<1>1. PICK history \in Histories :
            LET restored == st.window > 0
                carried == IF restored THEN [active |-> st.active, labels |-> st.labels]
                           ELSE NoMemory
                before == IF restored THEN st.window ELSE history
                turn == [fatal |-> ask.kind \in {"empty", "too_long"},
                         window |-> IF ask.kind = "empty" THEN before ELSE before + 1]
            IN Return("prepare_turn", MergeState(FreshTurn, MergeState(carried, turn)))
  BY DEF PrepareTurn
<1>2. PICK carried : carried = IF st.window > 0 THEN [active |-> st.active, labels |-> st.labels]
                               ELSE NoMemory
  OBVIOUS
<1>3. PICK before : before = IF st.window > 0 THEN st.window ELSE history
  OBVIOUS
<1>4. PICK turn : turn = [fatal |-> ask.kind \in {"empty", "too_long"},
                          window |-> IF ask.kind = "empty" THEN before ELSE before + 1]
  OBVIOUS
<1>5. PICK patch : patch = MergeState(FreshTurn, MergeState(carried, turn))
  OBVIOUS
<1>6. Return("prepare_turn", patch)
  BY <1>1, <1>2, <1>3, <1>4, <1>5
<1>7. /\ DOMAIN carried = {"active", "labels"}
      /\ \/ carried.active = st.active /\ carried.labels = st.labels
         \/ carried.active = <<>> /\ carried.labels = [f \in Formulas |-> None]
  BY <1>2 DEF NoMemory
<1>8. /\ DOMAIN turn = {"fatal", "window"}
      /\ turn.fatal <=> ask.kind \in {"empty", "too_long"}
      /\ turn.window \in {before, before + 1}
  BY <1>4
<1>boolean. turn.fatal \in BOOLEAN
  <2>1. turn.fatal = (ask.kind \in {"empty", "too_long"})
    BY <1>4
  <2> QED BY <2>1
<1>9. /\ DOMAIN patch = Fields
      /\ \A f \in DOMAIN carried \cup DOMAIN turn :
            patch[f] = IF f \in DOMAIN turn THEN turn[f] ELSE carried[f]
      /\ \A f \in Fields \ {"active", "labels", "fatal", "window"} : patch[f] = FreshTurn[f]
  BY <1>5, <1>7, <1>8, FreshFields DEF MergeState, Fields
<1>10. Proper("prepare_turn", patch)
  BY <1>9 DEF Proper, Nodes, Fields, Routing
<1>11. Effect("prepare_turn", Fields) /\ \A f \in Fields : st'[f] = patch[f]
  BY <1>6, <1>9, <1>10, NodeEffect
<1>12. /\ st'.fatal = turn.fatal /\ st'.window = turn.window
       /\ st'.active = carried.active /\ st'.labels = carried.labels
  BY <1>7, <1>8, <1>9, <1>11 DEF Fields
<1>13. \A f \in DOMAIN FreshTurn \ {"fatal"} : st'[f] = FreshTurn[f]
  BY <1>9, <1>11, FreshFields
<1> QED BY <1>boolean, <1>3, <1>7, <1>8, <1>11, <1>12, <1>13 DEF PrepareTurn

LEMMA PassEffect ==
    ASSUME RoutingInv, NEW n \in Nodes \ {"prepare_turn"}, Return(n, EmptyView)
    PROVE  Effect(n, {})
<1>1. PICK patch : patch = EmptyView
  OBVIOUS
<1>2. DOMAIN patch = {} /\ Proper(n, patch)
  BY <1>1 DEF EmptyView, Proper
<1> QED BY <1>1, <1>2, NodeEffect

LEMMA ContextEffect ==
    ASSUME RoutingInv, LoadContext
    PROVE  /\ Effect("load_context", {"window"}) /\ sources' = sources
           /\ st'.window = AtMost(st.window, ShortMax)
<1>1. PICK patch : patch = [window |-> AtMost(st.window, ShortMax)]
  OBVIOUS
<1>2. DOMAIN patch = {"window"} /\ Proper("load_context", patch)
  BY <1>1 DEF Proper, Nodes, Fields
<1>3. Return("load_context", patch)
  BY <1>1 DEF LoadContext
<1> QED BY <1>1, <1>2, <1>3, NodeEffect DEF LoadContext

LEMMA PlanEffect ==
    ASSUME RoutingInv, PlanRetrieval
    PROVE  /\ Effect("plan_retrieval", {"target"}) /\ sources' = sources
           /\ st'.target = IF Candidates(st) = <<>> THEN None ELSE Head(Candidates(st))
<1>1. PICK patch : patch = [target |-> IF Candidates(st) = <<>> THEN None ELSE Head(Candidates(st))]
  OBVIOUS
<1>2. DOMAIN patch = {"target"} /\ Proper("plan_retrieval", patch)
  BY <1>1 DEF Proper, Nodes, Fields
<1>3. Return("plan_retrieval", patch)
  BY <1>1 DEF PlanRetrieval
<1> QED BY <1>1, <1>2, <1>3, NodeEffect DEF PlanRetrieval

LEMMA AggregatePlanEffect ==
    ASSUME RoutingInv, PlanAggregateRetrieval
    PROVE  /\ Effect("plan_aggregate_retrieval", {"target"}) /\ sources' = sources
           /\ st'.target = None
<1>1. PICK patch : patch = [target |-> None]
  OBVIOUS
<1>2. DOMAIN patch = {"target"} /\ Proper("plan_aggregate_retrieval", patch)
  BY <1>1 DEF Proper, Nodes, Fields
<1>3. Return("plan_aggregate_retrieval", patch)
  BY <1>1 DEF PlanAggregateRetrieval
<1> QED BY <1>1, <1>2, <1>3, NodeEffect DEF PlanAggregateRetrieval

LEMMA RetrieveEffect ==
    ASSUME RoutingInv, RetrieveRecords
    PROVE  /\ Effect("retrieve_records", {"retrieved", "retrieval_error"}) /\ sources' = sources
           /\ st'.retrieved \in RecordSets \cup {{}} /\ st'.retrieval_error \in BOOLEAN
<1>1. PICK found \in RecordSets \cup {{}}, error \in BOOLEAN :
        Return("retrieve_records", [retrieved |-> found, retrieval_error |-> error])
  BY DEF RetrieveRecords
<1>2. PICK patch : patch = [retrieved |-> found, retrieval_error |-> error]
  OBVIOUS
<1>3. DOMAIN patch = {"retrieved", "retrieval_error"} /\ Proper("retrieve_records", patch)
  BY <1>2 DEF Proper, Nodes, Fields
<1> QED BY <1>1, <1>2, <1>3, NodeEffect DEF RetrieveRecords

LEMMA AggregateRetrieveEffect ==
    ASSUME RoutingInv, RetrieveAggregateRecords
    PROVE  /\ Effect("retrieve_aggregate_records", {"aggregate_result", "retrieved", "retrieval_error"})
           /\ sources' = sources
           /\ st'.aggregate_result \in {"matched", "empty", None}
           /\ st'.retrieved \in RecordSets \cup {{}} /\ st'.retrieval_error \in BOOLEAN
<1>1. PICK result \in {"matched", "empty", None}, found \in RecordSets \cup {{}}, error \in BOOLEAN :
        Return("retrieve_aggregate_records",
               [aggregate_result |-> result, retrieved |-> found, retrieval_error |-> error])
  BY DEF RetrieveAggregateRecords
<1>2. PICK patch : patch = [aggregate_result |-> result, retrieved |-> found, retrieval_error |-> error]
  OBVIOUS
<1>3. /\ DOMAIN patch = {"aggregate_result", "retrieved", "retrieval_error"}
      /\ Proper("retrieve_aggregate_records", patch)
  BY <1>2 DEF Proper, Nodes, Fields
<1> QED BY <1>1, <1>2, <1>3, NodeEffect DEF RetrieveAggregateRecords

LEMMA AssessEffect ==
    ASSUME RoutingInv, AssessRetrievalSufficiency
    PROVE  /\ Effect("assess_retrieval_sufficiency", {"outcome", "usable"}) /\ sources' = sources
           /\ st'.outcome = Outcome(RetrievalStatus(st))
           /\ st'.usable = IF RetrievalStatus(st) = "sufficient" THEN Usable(st) ELSE {}
<1>1. PICK patch : patch = [outcome |-> Outcome(RetrievalStatus(st)),
                     usable |-> IF RetrievalStatus(st) = "sufficient" THEN Usable(st) ELSE {}]
  OBVIOUS
<1>2. DOMAIN patch = {"outcome", "usable"} /\ Proper("assess_retrieval_sufficiency", patch)
  BY <1>1 DEF Proper, Nodes, Fields
<1>3. Return("assess_retrieval_sufficiency", patch)
  BY <1>1 DEF AssessRetrievalSufficiency
<1> QED BY <1>1, <1>2, <1>3, NodeEffect DEF AssessRetrievalSufficiency

LEMMA AggregateAssessEffect ==
    ASSUME RoutingInv, AssessAggregateSufficiency
    PROVE  /\ Effect("assess_aggregate_sufficiency", {"outcome", "usable"}) /\ sources' = sources
           /\ \E status \in {"unavailable", "empty", "insufficient", "sufficient"} :
                 /\ st'.outcome = [status |-> status, fallback_allowed |-> FALSE]
                 /\ st'.usable = IF status = "sufficient" THEN Traceable(st) ELSE {}
                 /\ status = "sufficient" => Traceable(st) # {}
<1>1. PICK status : status = CASE st.retrieval_error -> "unavailable"
                       [] ~st.retrieval_error /\ st.aggregate_result # "matched" -> "empty"
                       [] OTHER -> IF Traceable(st) = {} THEN "insufficient" ELSE "sufficient"
  OBVIOUS
<1>2. /\ status \in {"unavailable", "empty", "insufficient", "sufficient"}
      /\ status = "sufficient" => Traceable(st) # {}
  BY <1>1
<1>3. PICK patch : patch = [outcome |-> [status |-> status, fallback_allowed |-> FALSE],
                            usable |-> IF status = "sufficient" THEN Traceable(st) ELSE {}]
  OBVIOUS
<1>4. DOMAIN patch = {"outcome", "usable"} /\ Proper("assess_aggregate_sufficiency", patch)
  BY <1>3 DEF Proper, Nodes, Fields
<1>5. Return("assess_aggregate_sufficiency", patch)
  BY <1>1, <1>3 DEF AssessAggregateSufficiency
<1>6. /\ Effect("assess_aggregate_sufficiency", {"outcome", "usable"})
      /\ st'.outcome = patch.outcome /\ st'.usable = patch.usable
  BY <1>4, <1>5, NodeEffect
<1> QED BY <1>2, <1>3, <1>6 DEF AssessAggregateSufficiency

LEMMA BuildEffect ==
    ASSUME RoutingInv, BuildEvidencePack
    PROVE  /\ Effect("build_evidence_pack", {"citations", "kind"}) /\ sources' = sources
           /\ st'.citations = st.usable /\ st'.kind = "literature_record"
<1>1. PICK patch : patch = [citations |-> st.usable, kind |-> "literature_record"]
  OBVIOUS
<1>2. DOMAIN patch = {"citations", "kind"} /\ Proper("build_evidence_pack", patch)
  BY <1>1 DEF Proper, Nodes, Fields
<1>3. Return("build_evidence_pack", patch)
  BY <1>1 DEF BuildEvidencePack
<1> QED BY <1>1, <1>2, <1>3, NodeEffect DEF BuildEvidencePack

LEMMA EligibilityEffect ==
    ASSUME RoutingInv, AssessPredictionEligibility
    PROVE  /\ Effect("assess_prediction_eligibility", {"eligible"}) /\ sources' = sources
           /\ st'.eligible = EligibleFormula(st)
<1>1. PICK patch : patch = [eligible |-> EligibleFormula(st)]
  OBVIOUS
<1>2. DOMAIN patch = {"eligible"} /\ Proper("assess_prediction_eligibility", patch)
  BY <1>1 DEF Proper, Nodes, Fields
<1>3. Return("assess_prediction_eligibility", patch)
  BY <1>1 DEF AssessPredictionEligibility
<1> QED BY <1>1, <1>2, <1>3, NodeEffect DEF AssessPredictionEligibility

LEMMA PredictionEffect ==
    ASSUME RoutingInv, RunPrediction
    PROVE  /\ Effect("run_prediction", {"prediction", "kind", "citations"}) /\ sources' = sources
           /\ \/ /\ st'.prediction = st.eligible /\ st'.kind = "model_prediction"
                 /\ st'.citations = {}
              \/ Effect("run_prediction", {})
<1>1. CASE Return("run_prediction", EmptyView)
  BY <1>1, PassEffect DEF RunPrediction, Nodes, Effect
<1>2. CASE Return("run_prediction", [prediction |-> st.eligible, kind |-> "model_prediction",
                                     citations |-> {}])
  <2>1. PICK patch : patch = [prediction |-> st.eligible, kind |-> "model_prediction", citations |-> {}]
    OBVIOUS
  <2>2. DOMAIN patch = {"prediction", "kind", "citations"} /\ Proper("run_prediction", patch)
    BY <2>1 DEF Proper, Nodes, Fields
  <2> QED BY <1>2, <2>1, <2>2, NodeEffect DEF RunPrediction
<1> QED BY <1>1, <1>2 DEF RunPrediction

LEMMA AggregateAnswerEffect ==
    ASSUME RoutingInv, AnswerWithAggregateEvidence
    PROVE  /\ Effect("answer_with_aggregate_evidence", {"kind"})
           /\ st'.kind = "literature_record"
<1>1. PICK patch : patch = [kind |-> "literature_record"]
  OBVIOUS
<1>2. DOMAIN patch = {"kind"} /\ Proper("answer_with_aggregate_evidence", patch)
  BY <1>1 DEF Proper, Nodes, Fields
<1>3. Return("answer_with_aggregate_evidence", patch)
  BY <1>1 DEF AnswerWithAggregateEvidence
<1> QED BY <1>1, <1>2, <1>3, NodeEffect DEF AnswerWithAggregateEvidence

LEMMA PredictedAnswerEffect ==
    ASSUME RoutingInv, AnswerFromPrediction
    PROVE  /\ Effect("answer_from_prediction", {"citations"})
           /\ st'.citations = {}
<1>1. PICK patch : patch = [citations |-> {}]
  OBVIOUS
<1>2. DOMAIN patch = {"citations"} /\ Proper("answer_from_prediction", patch)
  BY <1>1 DEF Proper, Nodes, Fields
<1>3. Return("answer_from_prediction", patch)
  BY <1>1 DEF AnswerFromPrediction
<1> QED BY <1>1, <1>2, <1>3, NodeEffect DEF AnswerFromPrediction

LEMMA LimitedAnswerEffect ==
    ASSUME RoutingInv, AnswerWithLimits
    PROVE  /\ Effect("answer_with_limits", {"citations"}) /\ sources' = sources
           /\ st'.citations = {}
<1>1. PICK patch : patch = [citations |-> {}]
  OBVIOUS
<1>2. DOMAIN patch = {"citations"} /\ Proper("answer_with_limits", patch)
  BY <1>1 DEF Proper, Nodes, Fields
<1>3. Return("answer_with_limits", patch)
  BY <1>1 DEF AnswerWithLimits
<1> QED BY <1>1, <1>2, <1>3, NodeEffect DEF AnswerWithLimits

LEMMA MemoryEffect ==
    ASSUME RoutingInv, UpdateMemory
    PROVE  /\ Effect("update_memory", {"window", "active", "labels"}) /\ sources' = sources
           /\ st'.window = Window(st) /\ st'.labels = Labels(st)
           /\ st'.active = IF st.formulas # <<>> THEN st.formulas ELSE st.active
<1>1. PICK patch : patch = [window |-> Window(st),
                     active |-> IF st.formulas # <<>> THEN st.formulas ELSE st.active,
                     labels |-> Labels(st)]
  OBVIOUS
<1>2. DOMAIN patch = {"window", "active", "labels"} /\ Proper("update_memory", patch)
  BY <1>1 DEF Proper, Nodes, Fields
<1>3. Return("update_memory", patch)
  BY <1>1 DEF UpdateMemory
<1> QED BY <1>1, <1>2, <1>3, NodeEffect DEF UpdateMemory

LEMMA CompactEffect ==
    ASSUME RoutingInv, CompactPersistentState
    PROVE  /\ Effect("compact_persistent_state", DOMAIN ClearedTurn) /\ sources' = sources
           /\ \A f \in DOMAIN ClearedTurn : st'[f] = ClearedTurn[f]
<1>1. Proper("compact_persistent_state", ClearedTurn)
  BY FreshFields DEF Proper, Nodes
<1> QED BY <1>1, NodeEffect DEF CompactPersistentState

-----------------------------------------------------------------------------
(* Types. *)

Typed(s) ==
    /\ s.fatal \in BOOLEAN /\ s.window \in Nat /\ s.active \in FormulaLists
    /\ s.labels \in [Formulas -> EvidenceKinds \cup {None}] /\ s.formulas \in FormulaLists
    /\ s.intent \in Intents \cup {None} /\ s.target \in Formulas \cup {None}
    /\ s.aggregate_query \in {"query", None} /\ s.aggregate_result \in {"empty", "matched", None}
    /\ s.retrieval_error \in BOOLEAN /\ s.retrieved \in SUBSET Records
    /\ s.usable \in SUBSET Records /\ s.outcome \in Outcomes \cup {None}
    /\ s.eligible \in Formulas \cup {None} /\ s.prediction \in Formulas \cup {None}
    /\ s.kind \in EvidenceKinds \cup {None} /\ s.citations \in SUBSET Records

TypeInv ==
    /\ Typed(st) /\ ask \in Asks /\ sources \in [Formulas -> SUBSET EvidenceKinds]
    /\ turns \in 0 .. MaxTurns /\ faults \in 0 .. MaxFaults

\* The fields of the turn as prepare_turn leaves them.
Cleared(s) ==
    /\ s.formulas = <<>> /\ s.intent = None /\ s.target = None
    /\ s.aggregate_query = None /\ s.aggregate_result = None
    /\ s.retrieval_error = FALSE /\ s.retrieved = {} /\ s.usable = {} /\ s.outcome = None
    /\ s.eligible = None /\ s.prediction = None /\ s.kind = None /\ s.citations = {}

LEMMA FreshValues ==
    /\ \A f \in {"intent", "target", "outcome", "eligible", "prediction", "kind",
                 "aggregate_query", "aggregate_result"} : FreshTurn[f] = None
    /\ FreshTurn["formulas"] = <<>> /\ FreshTurn["fatal"] = FALSE /\ FreshTurn["retrieval_error"] = FALSE
    /\ \A f \in {"retrieved", "usable", "citations"} : FreshTurn[f] = {}
<1>1. PICK aggregate : aggregate = [aggregate_query |-> None, aggregate_result |-> None]
  OBVIOUS
<1>2. /\ DOMAIN aggregate = {"aggregate_query", "aggregate_result"}
      /\ aggregate.aggregate_query = None /\ aggregate.aggregate_result = None
  BY <1>1
<1>3. PICK cleared : cleared = ClearedTurn
  OBVIOUS
<1>4. /\ \A f \in {"intent", "target", "outcome", "eligible", "prediction", "kind"} : cleared[f] = None
      /\ cleared["formulas"] = <<>> /\ cleared["fatal"] = FALSE /\ cleared["retrieval_error"] = FALSE
      /\ \A f \in {"retrieved", "usable", "citations"} : cleared[f] = {}
  BY <1>3 DEF ClearedTurn
<1>5. DOMAIN cleared = Fields \ {"window", "active", "labels", "aggregate_query", "aggregate_result"}
  BY <1>3, FreshFields
<1>6. FreshTurn = MergeState(cleared, aggregate)
  BY <1>1, <1>3 DEF FreshTurn
<1> QED BY <1>2, <1>4, <1>5, <1>6 DEF MergeState, Fields

LEMMA NewThreadValues ==
    /\ \A f \in DOMAIN FreshTurn : NewThread[f] = FreshTurn[f]
    /\ NewThread.window = 0 /\ NewThread.active = <<>> /\ NewThread.labels = [f \in Formulas |-> None]
<1>1. PICK memory : memory = NoMemory
  OBVIOUS
<1>2. /\ DOMAIN memory = {"active", "labels"}
      /\ memory.active = <<>> /\ memory.labels = [f \in Formulas |-> None]
  BY <1>1 DEF NoMemory
<1>3. PICK window : window = [window |-> 0]
  OBVIOUS
<1>4. DOMAIN window = {"window"} /\ window.window = 0
  BY <1>3
<1>5. NewThread = MergeState(MergeState(FreshTurn, memory), window)
  BY <1>1, <1>3 DEF NewThread
<1> QED BY <1>2, <1>4, <1>5, FreshFields DEF MergeState, Fields

LEMMA ListTypes ==
    ASSUME NEW list \in FormulaLists, list # <<>>
    PROVE  Head(list) \in Formulas
BY FormulaListsAssumption

\* What an eligible formula is: the only one of the candidates.
LEMMA EligibleIsOnly ==
    ASSUME Candidates(st) \in FormulaLists, EligibleFormula(st) # None
    PROVE  /\ Candidates(st) # <<>> /\ EligibleFormula(st) = Head(Candidates(st))
           /\ ListedIn(Candidates(st)) = {Head(Candidates(st))}
<1>1. PICK list \in Seq(Formulas) : list = Candidates(st)
  BY FormulaListsAssumption
<1>2. Cardinality(ListedIn(list)) = 1 /\ EligibleFormula(st) = Head(list)
  BY <1>1 DEF EligibleFormula
<1>3. IsFiniteSet(ListedIn(list))
  <2>1. ListedIn(list) \in SUBSET Formulas
    BY DEF ListedIn
  <2> QED BY <2>1, FormulasAssumption, FS_Subset
<1>4. PICK f : ListedIn(list) = {f}
  BY <1>2, <1>3, FS_Singleton
<1>5. list # <<>>
  BY <1>4 DEF ListedIn
<1>6. Head(list) \in ListedIn(list)
  BY <1>5 DEF ListedIn
<1> QED BY <1>1, <1>2, <1>4, <1>5, <1>6

LEMMA TypeStep == RoutingInv /\ TypeInv /\ [Next]_vars => TypeInv'
<1> SUFFICES ASSUME RoutingInv, TypeInv, [Next]_vars PROVE TypeInv'
  OBVIOUS
<1>ok. Typed(st) /\ ask \in Asks /\ ask.formulas \in FormulaLists /\ ask.intent \in Intents
  BY DEF TypeInv, Asks, Questions
<1>candidates. Candidates(st) \in FormulaLists
  BY <1>ok DEF Candidates, Typed
<1>lists. <<>> \in FormulaLists /\ \A R \in RecordSets : R \in SUBSET Records
  BY FormulaListsAssumption, RecordSetsAssumption
\* A node that leaves the other variables alone.
<1>node. ASSUME NEW n, NEW F, Effect(n, F), sources' = sources, Typed(st') PROVE TypeInv'
  BY <1>node DEF TypeInv, Effect
<1>1. CASE StartTurn
  BY <1>1, BoundsAssumption DEF StartTurn, TypeInv
<1>2. CASE PrepareTurn
  <2>1. /\ st'.fatal \in BOOLEAN
        /\ \A f \in DOMAIN FreshTurn \ {"fatal"} : st'[f] = FreshTurn[f]
        /\ \/ st'.active = st.active /\ st'.labels = st.labels
           \/ st'.active = <<>> /\ st'.labels = [f \in Formulas |-> None]
        /\ \E before \in {st.window} \cup Histories : st'.window \in {before, before + 1}
    BY <1>2, PrepareEffect
  <2>2. st'.window \in Nat
    <3>1. PICK before \in {st.window} \cup Histories : st'.window \in {before, before + 1}
      BY <2>1
    <3>2. st.window \in Nat
      BY <1>ok DEF Typed
    <3>3. Histories \subseteq Nat
      BY HistoriesAssumption DEF HistoryTake
    <3>4. before \in Nat
      BY <3>2, <3>3
    <3> QED BY <3>1, <3>4
  <2>3. st'.active \in FormulaLists /\ st'.labels \in [Formulas -> EvidenceKinds \cup {None}]
    BY <1>ok, <1>lists, <2>1 DEF Typed
  <2>4. Typed(st')
    <3>1. Cleared(st')
      BY <2>1, FreshFields, FreshValues DEF Cleared, Fields
    <3> QED BY <1>lists, <2>1, <2>2, <2>3, <3>1 DEF Cleared, Typed
  <2> QED BY <1>2, <1>node, <2>4, PrepareEffect
<1>3. CASE LoadContext
  <2>1. Typed(st')
    BY <1>3, <1>ok, ContextEffect, BoundsAssumption DEF Typed, Effect, Fields, AtMost
  <2> QED BY <1>3, <1>node, <2>1, ContextEffect
<1>4. CASE LoadLongMemory \/ AskClarification \/ AnswerDirect \/ FinalizeResponse
  <2>1. PICK n \in Nodes \ {"prepare_turn"} : Return(n, EmptyView) /\ sources' = sources
    BY <1>4 DEF LoadLongMemory, AskClarification, AnswerDirect, FinalizeResponse, Pass, Nodes
  <2>2. Effect(n, {})
    BY <2>1, PassEffect
  <2>3. Typed(st')
    BY <1>ok, <2>2 DEF Typed, Effect, Fields
  <2> QED BY <1>node, <2>1, <2>2, <2>3
<1>5. CASE AnalyzeAndRoute
  <2>1. /\ st'.formulas \in FormulaLists /\ st'.intent \in Intents
        /\ st'.aggregate_query \in {"query", None} /\ st'.active \in FormulaLists
    <3>1. PICK patch : /\ Return("analyze_and_route", patch)
                       /\ \/ DOMAIN patch = {"formulas", "intent", "aggregate_query"}
                          \/ DOMAIN patch = {"formulas", "intent", "aggregate_query", "active"}
                       /\ patch.formulas \in FormulaLists /\ patch.intent \in Intents
                       /\ patch.aggregate_query \in {"query", None}
                       /\ "active" \in DOMAIN patch => patch.active \in FormulaLists
      <4> DEFINE active == IF ask.formulas # <<>> THEN ask.formulas ELSE st.active
      <4>1. active \in FormulaLists /\ RouteOf(ask.formulas, active) \in Intents
        BY <1>ok DEF RouteOf, Intents, Typed
      <4> HIDE DEF active
      <4>2. PICK intent \in Intents : intent = RouteOf(ask.formulas, active)
        BY <4>1
      <4> QED BY <1>5, <1>ok, <1>lists, <4>1, <4>2 DEF AnalyzeAndRoute, Intents, active
    <3>2. Proper("analyze_and_route", patch)
      BY <3>1 DEF Proper, Nodes, Fields
    <3> QED BY <1>ok, <3>1, <3>2, NodeEffect DEF Effect, Fields, Typed
  <2>2. Typed(st')
    BY <1>5, <1>ok, <2>1, AnalyzeEffect DEF Typed, Effect, Fields
  <2> QED BY <1>5, <1>node, <2>2, AnalyzeEffect
<1>6. CASE PlanRetrieval
  <2>1. st'.target \in Formulas \cup {None}
    BY <1>6, <1>candidates, PlanEffect, ListTypes
  <2>2. Typed(st')
    BY <1>6, <1>ok, <2>1, PlanEffect DEF Typed, Effect, Fields
  <2> QED BY <1>6, <1>node, <2>2, PlanEffect
<1>7. CASE PlanAggregateRetrieval
  <2>1. Typed(st')
    BY <1>7, <1>ok, AggregatePlanEffect DEF Typed, Effect, Fields
  <2> QED BY <1>7, <1>node, <2>1, AggregatePlanEffect
<1>8. CASE RetrieveRecords
  <2>1. Typed(st')
    BY <1>8, <1>ok, <1>lists, RetrieveEffect DEF Typed, Effect, Fields
  <2> QED BY <1>8, <1>node, <2>1, RetrieveEffect
<1>9. CASE RetrieveAggregateRecords
  <2>1. Typed(st')
    BY <1>9, <1>ok, <1>lists, AggregateRetrieveEffect DEF Typed, Effect, Fields
  <2> QED BY <1>9, <1>node, <2>1, AggregateRetrieveEffect
<1>10. CASE AssessRetrievalSufficiency
  <2>1. RetrievalStatus(st) \in {"sufficient", "empty", "insufficient", "invalid_request", "unavailable"}
    BY DEF RetrievalStatus
  <2>2. Outcome(RetrievalStatus(st)) \in Outcomes
    BY <2>1 DEF Outcome, Outcomes
  <2>3. Usable(st) \in SUBSET Records
    BY <1>ok DEF Usable, Traceable, Typed
  <2>4. Typed(st')
    BY <1>10, <1>ok, <2>2, <2>3, AssessEffect DEF Typed, Effect, Fields
  <2> QED BY <1>10, <1>node, <2>4, AssessEffect
<1>11. CASE AssessAggregateSufficiency
  <2>1. PICK status \in {"unavailable", "empty", "insufficient", "sufficient"} :
           /\ st'.outcome = [status |-> status, fallback_allowed |-> FALSE]
           /\ st'.usable = IF status = "sufficient" THEN Traceable(st) ELSE {}
    BY <1>11, AggregateAssessEffect
  <2>2. st'.outcome \in Outcomes
    BY <2>1 DEF Outcomes
  <2>3. st'.usable \in SUBSET Records
    BY <1>ok, <2>1 DEF Traceable, Typed
  <2>4. Typed(st')
    BY <1>11, <1>ok, <2>2, <2>3, AggregateAssessEffect DEF Typed, Effect, Fields
  <2> QED BY <1>11, <1>node, <2>4, AggregateAssessEffect
<1>12. CASE BuildEvidencePack
  <2>1. Typed(st')
    BY <1>12, <1>ok, BuildEffect DEF Typed, Effect, Fields, EvidenceKinds
  <2> QED BY <1>12, <1>node, <2>1, BuildEffect
<1>13. CASE AssessPredictionEligibility
  <2>1. EligibleFormula(st) \in Formulas \cup {None}
    <3>1. CASE EligibleFormula(st) # None
      BY <1>candidates, <3>1, EligibleIsOnly, ListTypes
    <3> QED BY <3>1
  <2>2. Typed(st')
    BY <1>13, <1>ok, <2>1, EligibilityEffect DEF Typed, Effect, Fields
  <2> QED BY <1>13, <1>node, <2>2, EligibilityEffect
<1>14. CASE RunPrediction
  <2>1. Typed(st')
    BY <1>14, <1>ok, PredictionEffect DEF Typed, Effect, Fields, EvidenceKinds
  <2> QED BY <1>14, <1>node, <2>1, PredictionEffect
<1>credit. ASSUME NEW n, NEW F, Effect(n, F), NEW X, NEW kind \in EvidenceKinds, Credit(X, kind),
                  Typed(st')
           PROVE  TypeInv'
  BY <1>credit DEF TypeInv, Effect, Credit
<1>15. CASE AnswerWithEvidence
  <2>1. Effect("answer_with_evidence", {})
    BY <1>15, PassEffect DEF AnswerWithEvidence, Nodes
  <2>2. Typed(st')
    BY <1>ok, <2>1 DEF Typed, Effect, Fields
  <2> QED BY <1>15, <1>credit, <2>1, <2>2 DEF AnswerWithEvidence, EvidenceKinds
<1>16. CASE AnswerWithAggregateEvidence
  <2>1. Typed(st')
    BY <1>16, <1>ok, AggregateAnswerEffect DEF Typed, Effect, Fields, EvidenceKinds
  <2> QED BY <1>16, <1>credit, <2>1, AggregateAnswerEffect DEF AnswerWithAggregateEvidence, EvidenceKinds
<1>17. CASE AnswerFromPrediction
  <2>1. Typed(st')
    BY <1>17, <1>ok, PredictedAnswerEffect DEF Typed, Effect, Fields
  <2> QED BY <1>17, <1>credit, <2>1, PredictedAnswerEffect DEF AnswerFromPrediction, EvidenceKinds
<1>18. CASE AnswerWithLimits
  <2>1. Typed(st')
    BY <1>18, <1>ok, LimitedAnswerEffect DEF Typed, Effect, Fields
  <2> QED BY <1>18, <1>node, <2>1, LimitedAnswerEffect
<1>19. CASE UpdateMemory
  <2>1. Window(st) \in Nat /\ Labels(st) \in [Formulas -> EvidenceKinds \cup {None}]
    BY <1>ok, BoundsAssumption DEF Window, AtMost, Labels, Typed
  <2>2. Typed(st')
    BY <1>19, <1>ok, <2>1, MemoryEffect DEF Typed, Effect, Fields
  <2> QED BY <1>19, <1>node, <2>2, MemoryEffect
<1>20. CASE CompactPersistentState
  <2>1. /\ \A f \in {"intent", "target", "outcome", "eligible", "prediction", "kind"} : ClearedTurn[f] = None
        /\ ClearedTurn["formulas"] = <<>> /\ ClearedTurn["fatal"] = FALSE
        /\ ClearedTurn["retrieval_error"] = FALSE
        /\ \A f \in {"retrieved", "usable", "citations"} : ClearedTurn[f] = {}
    BY DEF ClearedTurn
  <2>2. Typed(st')
    BY <1>20, <1>ok, <1>lists, <2>1, CompactEffect, FreshFields DEF Typed, Effect, Fields
  <2> QED BY <1>20, <1>node, <2>2, CompactEffect
<1>21. CASE Raise
  BY <1>21, BoundsAssumption DEF Raise, TypeInv
<1>22. CASE UNCHANGED vars
  BY <1>22 DEF vars, TypeInv
<1> QED
  BY <1>1, <1>2, <1>3, <1>4, <1>5, <1>6, <1>7, <1>8, <1>9, <1>10, <1>11, <1>12, <1>13, <1>14,
     <1>15, <1>16, <1>17, <1>18, <1>19, <1>20, <1>21, <1>22 DEF Next, RunNode

LEMMA TypeInvariant == Spec => []TypeInv
<1>1. Init => TypeInv
  <2> SUFFICES ASSUME Init PROVE TypeInv
    OBVIOUS
  <2>1. Typed(NewThread)
    <3>1. Cleared(NewThread) /\ ~NewThread.fatal /\ NewThread.fatal \in BOOLEAN
      BY FreshFields, FreshValues, NewThreadValues DEF Cleared, Fields
    <3>2. NewThread.labels \in [Formulas -> EvidenceKinds \cup {None}]
      BY NewThreadValues
    <3>3. NewThread.window \in Nat /\ NewThread.active \in FormulaLists /\ <<>> \in FormulaLists
      BY NewThreadValues, FormulaListsAssumption
    <3> QED BY <3>1, <3>2, <3>3 DEF Cleared, Typed
  <2> QED BY <2>1, BoundsAssumption DEF Init, TypeInv
<1> QED BY <1>1, TypeStep, RoutingInvariant, PTL DEF Spec

\* Type correctness: the state of the thread keeps its fields and their types through every
\* node, every turn that is cut off and every turn that finds what one left.
THEOREM TypeCorrect == Spec => []TypeOK
<1>1. RoutingInv /\ TypeInv => TypeOK
  <2> SUFFICES ASSUME RoutingInv, TypeInv PROVE TypeOK
    OBVIOUS
  <2>1. st \in StateType
    BY DEF StateType, RoutingInv, TypeInv, Typed, Fields
  <2> QED BY <2>1 DEF TypeOK, RoutingInv, TypeInv, Asks
<1> QED BY <1>1, RoutingInvariant, TypeInvariant, PTL

-----------------------------------------------------------------------------
(* A prediction is the last resort. *)

FallbackInv == FallbackAt(node, st, ask)

LEMMA FallbackStep == RoutingInv /\ TypeInv /\ FallbackInv /\ [Next]_vars => FallbackInv'
<1> SUFFICES ASSUME RoutingInv, TypeInv, FallbackInv, [Next]_vars PROVE FallbackInv'
  OBVIOUS
<1> USE DEF Effect, Fields
<1>inv. FallbackAt(node, st, ask)
  BY DEF FallbackInv
<1>ok. Typed(st)
  BY DEF TypeInv
\* Most nodes lead away from the search and its fallback.
<1>away. ASSUME ask' = ask, node' \notin Searching \cup Predicting PROVE FallbackInv'
  BY <1>away DEF FallbackInv, FallbackAt, Predicting
<1>1. CASE StartTurn
  BY <1>1 DEF StartTurn, FallbackInv, FallbackAt, Searching, Predicting
<1>2. CASE PrepareTurn
  <2>1. node' \in {"finalize_response", "load_context"} /\ ask' = ask
    BY <1>2, PrepareEffect DEF GraphNext, StaticEdges, AfterPrepare
  <2> QED BY <1>away, <2>1 DEF Searching, Predicting
<1>3. CASE LoadContext
  BY <1>3, <1>away, ContextEffect DEF GraphNext, StaticEdges, Searching, Predicting
<1>4. CASE LoadLongMemory \/ AskClarification \/ AnswerDirect \/ FinalizeResponse
  <2>1. PICK n \in {"load_long_memory", "ask_clarification", "answer_direct", "finalize_response"} :
           Return(n, EmptyView)
    BY <1>4 DEF LoadLongMemory, AskClarification, AnswerDirect, FinalizeResponse, Pass
  <2>2. Effect(n, {})
    BY <2>1, PassEffect DEF Nodes
  <2> QED BY <1>away, <2>1, <2>2 DEF GraphNext, StaticEdges, Searching, Predicting
<1>5. CASE AnalyzeAndRoute
  <2>1. node' = AfterRoute(st') /\ ask' = ask
    BY <1>5, AnalyzeEffect DEF GraphNext, StaticEdges
  <2>2. node' \in Searching \cup Predicting => node' = "plan_retrieval"
    BY <2>1 DEF AfterRoute, Searching, Predicting
  <2>3. RoutingInv' /\ st'.intent \in Intents
    <3>1. RoutingInv'
      BY <1>5, EveryNodeProper, Returned DEF RunNode
    <3>2. PICK patch : /\ Return("analyze_and_route", patch)
                       /\ \/ DOMAIN patch = {"formulas", "intent", "aggregate_query"}
                          \/ DOMAIN patch = {"formulas", "intent", "aggregate_query", "active"}
                       /\ patch.intent \in Intents
      <4> DEFINE active == IF ask.formulas # <<>> THEN ask.formulas ELSE st.active
      <4>1. RouteOf(ask.formulas, active) \in Intents
        BY DEF RouteOf, Intents, TypeInv, Asks, Questions
      <4> HIDE DEF active
      <4>2. PICK intent \in Intents : intent = RouteOf(ask.formulas, active)
        BY <4>1
      <4> QED BY <1>5, <4>2 DEF AnalyzeAndRoute, Intents, active
    <3>3. Proper("analyze_and_route", patch)
      BY <3>2 DEF Proper, Nodes
    <3> QED BY <3>1, <3>2, <3>3, NodeEffect
  <2>4. "aggregate_query" \in DOMAIN st'
    BY <2>3 DEF RoutingInv
  <2>5. node' = "plan_retrieval" => st'.aggregate_query = None
    BY <2>1, <2>3, <2>4 DEF AfterRoute, Get, Intents
  <2> QED BY <2>1, <2>2, <2>5 DEF FallbackInv, FallbackAt, Searching, Predicting
<1>6. CASE PlanRetrieval
  BY <1>6, <1>inv, PlanEffect DEF GraphNext, StaticEdges, FallbackInv, FallbackAt, Searching, Predicting
<1>7. CASE PlanAggregateRetrieval
  BY <1>7, <1>away, AggregatePlanEffect DEF GraphNext, StaticEdges, Searching, Predicting
<1>8. CASE RetrieveRecords
  BY <1>8, <1>inv, RetrieveEffect DEF GraphNext, StaticEdges, FallbackInv, FallbackAt, Searching, Predicting
<1>9. CASE RetrieveAggregateRecords
  BY <1>9, <1>away, AggregateRetrieveEffect DEF GraphNext, StaticEdges, Searching, Predicting
<1>10. CASE AssessRetrievalSufficiency
  <2>1. PICK status : status = RetrievalStatus(st)
    OBVIOUS
  <2>2. node' = AfterRetrievalAssessment(st') /\ st'.outcome.status = status
    BY <1>10, <2>1, AssessEffect DEF GraphNext, StaticEdges, Outcome
  <2>3. node' \in Searching \cup Predicting =>
           node' = "assess_prediction_eligibility" /\ status \in {"empty", "insufficient"}
    BY <2>2 DEF AfterRetrievalAssessment, Searching, Predicting
  <2>4. status \in {"empty", "insufficient"} => ~st.retrieval_error /\ Usable(st) = {}
    BY <1>ok, <2>1 DEF RetrievalStatus, Usable, Traceable, Typed
  <2>5. Usable(st') = Usable(st) /\ st'.retrieval_error = st.retrieval_error
    BY <1>10, AssessEffect DEF Usable, Traceable
  <2>6. st'.aggregate_query = None /\ ask' = ask
    BY <1>10, <1>inv, AssessEffect DEF FallbackAt, Searching
  <2> QED BY <2>2, <2>3, <2>4, <2>5, <2>6 DEF FallbackInv, FallbackAt, Predicting
<1>11. CASE AssessAggregateSufficiency
  <2>1. node' = AfterAggregateAssessment(st') /\ ask' = ask
    BY <1>11, AggregateAssessEffect DEF GraphNext, StaticEdges
  <2> QED BY <1>away, <2>1 DEF AfterAggregateAssessment, Searching, Predicting
<1>12. CASE BuildEvidencePack
  <2>1. node' = AfterEvidenceBuild(st') /\ ask' = ask
    BY <1>12, BuildEffect DEF GraphNext, StaticEdges
  <2> QED BY <1>away, <2>1 DEF AfterEvidenceBuild, Searching, Predicting
<1>13. CASE AssessPredictionEligibility
  <2>1. node' = AfterPredictionEligibility(st') /\ ask' = ask /\ st'.eligible = EligibleFormula(st)
    BY <1>13, EligibilityEffect DEF GraphNext, StaticEdges
  <2>2. node' \in {"run_prediction", "answer_with_limits"}
    BY <2>1 DEF AfterPredictionEligibility
  <2>3. node' = "run_prediction" => st'.eligible # None /\ ask.candidate /\ ~ask.evidence_only
    BY <2>1 DEF AfterPredictionEligibility, EligibleFormula
  <2>4. /\ st'.aggregate_query = st.aggregate_query /\ st'.retrieval_error = st.retrieval_error
        /\ st'.outcome = st.outcome /\ Usable(st') = Usable(st)
    BY <1>13, EligibilityEffect DEF Usable, Traceable
  <2>5. node = "assess_prediction_eligibility"
    BY <1>13, EligibilityEffect
  <2> QED BY <1>inv, <2>1, <2>2, <2>3, <2>4, <2>5 DEF FallbackInv, FallbackAt, Searching, Predicting
<1>14. CASE RunPrediction
  <2>1. node' = AfterPrediction(st') /\ ask' = ask
    BY <1>14, PredictionEffect DEF GraphNext, StaticEdges
  <2> QED BY <1>away, <2>1 DEF AfterPrediction, Searching, Predicting
<1>15. CASE AnswerWithEvidence
  <2>1. Effect("answer_with_evidence", {})
    BY <1>15, PassEffect DEF AnswerWithEvidence, Nodes
  <2> QED BY <1>away, <2>1 DEF GraphNext, StaticEdges, Searching, Predicting
<1>16. CASE AnswerWithAggregateEvidence
  BY <1>16, <1>away, AggregateAnswerEffect DEF GraphNext, StaticEdges, Searching, Predicting
<1>17. CASE AnswerFromPrediction
  BY <1>17, <1>away, PredictedAnswerEffect DEF GraphNext, StaticEdges, Searching, Predicting
<1>18. CASE AnswerWithLimits
  BY <1>18, <1>away, LimitedAnswerEffect DEF GraphNext, StaticEdges, Searching, Predicting
<1>19. CASE UpdateMemory
  BY <1>19, <1>away, MemoryEffect DEF GraphNext, StaticEdges, Searching, Predicting
<1>20. CASE CompactPersistentState
  BY <1>20, <1>away, CompactEffect DEF GraphNext, StaticEdges, Searching, Predicting
<1>21. CASE Raise
  BY <1>21, <1>away DEF Raise, Searching, Predicting
<1>22. CASE UNCHANGED vars
  BY <1>22, <1>inv DEF vars, FallbackInv, FallbackAt, Usable, Traceable
<1> QED
  BY <1>1, <1>2, <1>3, <1>4, <1>5, <1>6, <1>7, <1>8, <1>9, <1>10, <1>11, <1>12, <1>13, <1>14,
     <1>15, <1>16, <1>17, <1>18, <1>19, <1>20, <1>21, <1>22 DEF Next, RunNode

LEMMA FallbackInvariant == Spec => []FallbackInv
<1>1. Init => FallbackInv
  BY DEF Init, FallbackInv, FallbackAt, Searching, Predicting
<1> QED BY <1>1, FallbackStep, RoutingInvariant, TypeInvariant, PTL DEF Spec

-----------------------------------------------------------------------------
(* One kind of evidence. *)

EvidenceInv == EvidenceAt(node, st)

LEMMA EvidenceStep == RoutingInv /\ TypeInv /\ FallbackInv /\ EvidenceInv /\ [Next]_vars => EvidenceInv'
<1> SUFFICES ASSUME RoutingInv, TypeInv, FallbackInv, EvidenceInv, [Next]_vars PROVE EvidenceInv'
  OBVIOUS
<1> USE DEF Fields
<1>inv. EvidenceAt(node, st)
  BY DEF Effect, EvidenceInv
\* From one early node to another, the evidence left alone.
<1>early. ASSUME NEW n \in Early, NEW F, Effect(n, F),
                 F \cap {"fatal", "kind", "citations", "prediction"} = {},
                 node' \in (Early \ {"build_evidence_pack"}) \cup {"update_memory"},
                 node' \in {"retrieve_aggregate_records", "assess_aggregate_sufficiency"} =>
                    st'.target = None
          PROVE  EvidenceInv'
  <2>1. /\ st'.fatal = st.fatal /\ st'.kind = st.kind /\ st'.citations = st.citations
        /\ st'.prediction = st.prediction /\ node = n
    BY <1>early DEF Effect
  <2>2. ~st.fatal /\ st.kind = None /\ st.citations = {} /\ st.prediction = None
    BY <1>early, <1>inv DEF Effect, EvidenceAt, Early, Searching, Predicting
  <2> QED BY <1>early, <2>1, <2>2, NoneAssumption
      DEF EvidenceInv, EvidenceAt, Exclusive, EvidenceKinds, Early, Searching, Predicting
<1>1. CASE StartTurn
  BY <1>1 DEF Effect, StartTurn, EvidenceInv, EvidenceAt, Early, Searching, Predicting
<1>2. CASE PrepareTurn
  <2>1. node' = AfterPrepare(st')
    BY <1>2, PrepareEffect DEF Effect, GraphNext, StaticEdges
  <2>2. /\ node' \in {"finalize_response", "load_context"}
        /\ st'.fatal <=> node' = "finalize_response"
    BY <2>1 DEF Effect, AfterPrepare
  <2>3. st'.kind = None /\ st'.citations = {} /\ st'.prediction = None
    BY <1>2, PrepareEffect, FreshFields, FreshValues DEF Effect
  <2> QED BY <2>2, <2>3 DEF Effect, EvidenceInv, EvidenceAt, Early, Searching, Predicting
<1>3. CASE LoadContext
  <2>1. node' = "load_long_memory"
    BY <1>3, ContextEffect DEF Effect, GraphNext, StaticEdges
  <2> QED BY <1>3, <1>early, <2>1, ContextEffect DEF Early, Searching
<1>4. CASE LoadLongMemory \/ AskClarification \/ AnswerDirect \/ FinalizeResponse
  <2>1. PICK n \in {"load_long_memory", "ask_clarification", "answer_direct", "finalize_response"} :
           Return(n, EmptyView)
    BY <1>4 DEF Effect, LoadLongMemory, AskClarification, AnswerDirect, FinalizeResponse, Pass
  <2>2. Effect(n, {})
    BY <2>1, PassEffect DEF Effect, Nodes
  <2>3. CASE n = "finalize_response"
    BY <2>2, <2>3 DEF Effect, GraphNext, StaticEdges, EvidenceInv, EvidenceAt, Early, Searching, Predicting
  <2>4. CASE n # "finalize_response"
    <3>1. node' \in {"analyze_and_route", "update_memory"}
      BY <2>1, <2>2, <2>4 DEF Effect, GraphNext, StaticEdges
    <3> QED BY <1>early, <2>1, <2>2, <2>4, <3>1 DEF Early
  <2> QED BY <2>3, <2>4 DEF Effect
<1>5. CASE AnalyzeAndRoute
  <2>1. node' = AfterRoute(st')
    BY <1>5, AnalyzeEffect DEF Effect, GraphNext, StaticEdges
  <2>2. node' \in {"ask_clarification", "answer_direct", "plan_aggregate_retrieval", "plan_retrieval"}
    BY <2>1 DEF Effect, AfterRoute
  <2> QED BY <1>5, <1>early, <2>2, AnalyzeEffect DEF Early, Searching
<1>6. CASE PlanRetrieval
  <2>1. node' = "retrieve_records"
    BY <1>6, PlanEffect DEF Effect, GraphNext, StaticEdges
  <2> QED BY <1>6, <1>early, <2>1, PlanEffect DEF Early, Searching
<1>7. CASE PlanAggregateRetrieval
  <2>1. node' = "retrieve_aggregate_records"
    BY <1>7, AggregatePlanEffect DEF Effect, GraphNext, StaticEdges
  <2> QED BY <1>7, <1>early, <2>1, AggregatePlanEffect DEF Early, Searching
<1>8. CASE RetrieveRecords
  <2>1. node' = "assess_retrieval_sufficiency"
    BY <1>8, RetrieveEffect DEF Effect, GraphNext, StaticEdges
  <2> QED BY <1>8, <1>early, <2>1, RetrieveEffect DEF Early, Searching
<1>9. CASE RetrieveAggregateRecords
  <2>1. node = "retrieve_aggregate_records" /\ node' = "assess_aggregate_sufficiency"
    BY <1>9, AggregateRetrieveEffect DEF Effect, GraphNext, StaticEdges
  <2>2. st'.target = None
    BY <1>9, <1>inv, <2>1, AggregateRetrieveEffect DEF Effect, EvidenceAt
  <2> QED BY <1>9, <1>early, <2>1, <2>2, AggregateRetrieveEffect DEF Early
\* An assessment leads to an answer from records only with records that support it.
<1>assess. ASSUME NEW n \in Early, Effect(n, {"outcome", "usable"}),
                  node' \in {"build_evidence_pack", "assess_prediction_eligibility", "answer_with_limits"},
                  node' = "build_evidence_pack" => Supports(st, st'.usable)
           PROVE  EvidenceInv'
  <2>1. CASE node' # "build_evidence_pack"
    BY <1>assess, <1>early, <2>1 DEF Early, Predicting
  <2>2. CASE node' = "build_evidence_pack"
    <3>1. ~st'.fatal /\ st'.kind = None /\ st'.citations = {} /\ st'.prediction = None
      BY <1>assess, <1>inv DEF Effect, EvidenceAt, Early, Searching, Predicting
    <3>2. Supports(st', st'.usable)
      BY <1>assess, <2>2 DEF Effect, Supports
    <3> QED BY <2>2, <3>1, <3>2 DEF Effect, EvidenceInv, EvidenceAt
  <2> QED BY <2>1, <2>2 DEF Effect
<1>10. CASE AssessRetrievalSufficiency
  <2>1. PICK status : status = RetrievalStatus(st)
    OBVIOUS
  <2>2. /\ node' = AfterRetrievalAssessment(st') /\ st'.outcome.status = status
        /\ st'.usable = IF status = "sufficient" THEN Usable(st) ELSE {}
    BY <1>10, <2>1, AssessEffect DEF Effect, GraphNext, StaticEdges, Outcome
  <2>3. /\ node' \in {"build_evidence_pack", "assess_prediction_eligibility", "answer_with_limits"}
        /\ node' = "build_evidence_pack" => status = "sufficient"
    BY <2>2 DEF Effect, AfterRetrievalAssessment
  <2>4. status = "sufficient" => Usable(st) # {}
    BY <2>1 DEF Effect, RetrievalStatus
  <2>5. \A r \in Usable(st) : r.quality # "untraceable" /\ (st.target # None => r.formula = st.target)
    BY DEF Effect, Usable, Traceable
  <2> QED BY <1>10, <1>assess, <2>2, <2>3, <2>4, <2>5, AssessEffect DEF Supports, Early, Searching
<1>11. CASE AssessAggregateSufficiency
  <2>1. PICK status :
           /\ st'.outcome = [status |-> status, fallback_allowed |-> FALSE]
           /\ st'.usable = IF status = "sufficient" THEN Traceable(st) ELSE {}
           /\ status = "sufficient" => Traceable(st) # {}
    BY <1>11, AggregateAssessEffect DEF Effect
  <2>2. node = "assess_aggregate_sufficiency" /\ node' = AfterAggregateAssessment(st')
    BY <1>11, AggregateAssessEffect DEF Effect, GraphNext, StaticEdges
  <2>3. st'.outcome.status = status
    BY <2>1 DEF Effect
  <2>4. /\ node' \in {"build_evidence_pack", "answer_with_limits"}
        /\ node' = "build_evidence_pack" => status = "sufficient"
    BY <2>2, <2>3 DEF Effect, AfterAggregateAssessment
  <2>5. st.target = None
    BY <1>inv, <2>2 DEF Effect, EvidenceAt
  <2>6. \A r \in Traceable(st) : r.quality # "untraceable"
    BY DEF Effect, Traceable
  <2> QED BY <1>11, <1>assess, <2>1, <2>4, <2>5, <2>6, AggregateAssessEffect DEF Supports, Early
<1>12. CASE BuildEvidencePack
  <2>1. node = "build_evidence_pack" /\ node' = AfterEvidenceBuild(st')
    BY <1>12, BuildEffect DEF Effect, GraphNext, StaticEdges
  <2>2. node' \in {"answer_with_evidence", "answer_with_aggregate_evidence"}
    BY <2>1 DEF Effect, AfterEvidenceBuild
  <2>3. Supports(st, st.usable) /\ ~st.fatal /\ st.prediction = None
    BY <1>inv, <2>1 DEF Effect, EvidenceAt, Early
  <2>4. /\ st'.citations = st.usable /\ st'.kind = "literature_record" /\ st'.prediction = None
        /\ ~st'.fatal /\ st'.target = st.target
    BY <1>12, <2>3, BuildEffect DEF Effect
  <2> QED BY <2>2, <2>3, <2>4
      DEF Effect, EvidenceInv, EvidenceAt, Supports, Early, Searching, Predicting
<1>13. CASE AssessPredictionEligibility
  <2>1. node' = AfterPredictionEligibility(st')
    BY <1>13, EligibilityEffect DEF Effect, GraphNext, StaticEdges
  <2>2. node' \in {"run_prediction", "answer_with_limits"}
    BY <2>1 DEF Effect, AfterPredictionEligibility
  <2> QED BY <1>13, <1>early, <2>2, EligibilityEffect DEF Early, Predicting
<1>14. CASE RunPrediction
  <2>0. node = "run_prediction" /\ node' = AfterPrediction(st')
    BY <1>14, PredictionEffect DEF Effect, GraphNext, StaticEdges
  <2>1. CASE Effect("run_prediction", {})
    <3>1. st'.prediction = None
      BY <1>inv, <2>0, <2>1 DEF Effect, EvidenceAt, Early, Predicting
    <3>2. node' = "answer_with_limits"
      BY <2>0, <3>1 DEF Effect, AfterPrediction
    <3> QED BY <1>early, <2>1, <3>2 DEF Early, Predicting
  <2>2. CASE st'.prediction = st.eligible /\ st'.kind = "model_prediction" /\ st'.citations = {}
    <3>1. st'.prediction # None
      BY <2>0, <2>2 DEF Effect, FallbackInv, FallbackAt
    <3>2. node' = "answer_from_prediction"
      BY <2>0, <3>1 DEF Effect, AfterPrediction
    <3>3. ~st'.fatal
      BY <1>14, <1>inv, <2>0, PredictionEffect DEF Effect, EvidenceAt
    <3> QED BY <2>2, <3>1, <3>2, <3>3 DEF Effect, EvidenceInv, EvidenceAt, Early, Searching, Predicting
  <2> QED BY <1>14, <2>1, <2>2, PredictionEffect DEF Effect
<1>answered. ASSUME node' = "update_memory", ~st'.fatal, Exclusive(st') PROVE EvidenceInv'
  BY <1>answered DEF Effect, EvidenceInv, EvidenceAt, Early, Searching, Predicting
<1>15. CASE AnswerWithEvidence
  <2>1. Effect("answer_with_evidence", {})
    BY <1>15, PassEffect DEF Effect, AnswerWithEvidence, Nodes
  <2>2. st.kind = "literature_record" /\ st.prediction = None /\ Supports(st, st.citations) /\ ~st.fatal
    BY <1>inv, <2>1 DEF Effect, EvidenceAt
  <2>3. Exclusive(st')
    BY <2>1, <2>2 DEF Effect, Exclusive, Supports
  <2> QED BY <1>answered, <2>1, <2>2, <2>3 DEF Effect, GraphNext, StaticEdges
<1>16. CASE AnswerWithAggregateEvidence
  <2>1. Effect("answer_with_aggregate_evidence", {"kind"}) /\ st'.kind = "literature_record"
    BY <1>16, AggregateAnswerEffect DEF Effect
  <2>2. st.prediction = None /\ Supports(st, st.citations) /\ ~st.fatal
    BY <1>inv, <2>1 DEF Effect, EvidenceAt
  <2>3. Exclusive(st')
    BY <2>1, <2>2 DEF Effect, Exclusive, Supports
  <2> QED BY <1>answered, <2>1, <2>2, <2>3 DEF Effect, GraphNext, StaticEdges
<1>17. CASE AnswerFromPrediction
  <2>1. Effect("answer_from_prediction", {"citations"}) /\ st'.citations = {}
    BY <1>17, PredictedAnswerEffect DEF Effect
  <2>2. st.kind = "model_prediction" /\ st.prediction # None /\ ~st.fatal
    BY <1>inv, <2>1 DEF Effect, EvidenceAt
  <2>3. Exclusive(st')
    BY <2>1, <2>2 DEF Effect, Exclusive
  <2> QED BY <1>answered, <2>1, <2>2, <2>3 DEF Effect, GraphNext, StaticEdges
<1>18. CASE AnswerWithLimits
  <2>1. Effect("answer_with_limits", {"citations"}) /\ st'.citations = {}
    BY <1>18, LimitedAnswerEffect DEF Effect
  <2>2. st.kind = None /\ st.prediction = None /\ ~st.fatal
    BY <1>inv, <2>1 DEF Effect, EvidenceAt, Early
  <2>3. Exclusive(st')
    BY <2>1, <2>2, NoneAssumption DEF Effect, Exclusive, EvidenceKinds
  <2> QED BY <1>answered, <2>1, <2>2, <2>3 DEF Effect, GraphNext, StaticEdges
<1>19. CASE UpdateMemory
  <2>1. Effect("update_memory", {"window", "active", "labels"})
    BY <1>19, MemoryEffect DEF Effect
  <2>2. Exclusive(st) /\ ~st.fatal
    BY <1>inv, <2>1 DEF Effect, EvidenceAt
  <2>3. Exclusive(st')
    BY <2>1, <2>2 DEF Effect, Exclusive
  <2>4. node' = "finalize_response"
    BY <2>1 DEF Effect, GraphNext, StaticEdges
  <2> QED BY <2>3, <2>4 DEF Effect, EvidenceInv, EvidenceAt, Early, Searching, Predicting
<1>20. CASE CompactPersistentState
  BY <1>20, CompactEffect DEF Effect, GraphNext, StaticEdges, EvidenceInv, EvidenceAt, Early, Searching, Predicting
<1>21. CASE Raise
  BY <1>21 DEF Effect, Raise, EvidenceInv, EvidenceAt, Early, Searching, Predicting
<1>22. CASE UNCHANGED vars
  BY <1>22, <1>inv DEF Effect, vars, EvidenceInv
<1> QED
  BY <1>1, <1>2, <1>3, <1>4, <1>5, <1>6, <1>7, <1>8, <1>9, <1>10, <1>11, <1>12, <1>13, <1>14,
     <1>15, <1>16, <1>17, <1>18, <1>19, <1>20, <1>21, <1>22 DEF Next, RunNode

LEMMA EvidenceInvariant == Spec => []EvidenceInv
<1>1. Init => EvidenceInv
  BY DEF Init, EvidenceInv, EvidenceAt, Early, Searching, Predicting
<1> QED BY <1>1, EvidenceStep, RoutingInvariant, TypeInvariant, FallbackInvariant, PTL DEF Spec

\* The final response shows literature with traceable citations of the formula that was asked
\* for, or a prediction, and never both or a kind without its evidence.
THEOREM EvidenceIsExclusiveCorrect == Spec => []EvidenceIsExclusive
<1>1. EvidenceInv => EvidenceIsExclusive
  BY DEF EvidenceInv, EvidenceAt, EvidenceIsExclusive, Exclusive
<1> QED BY <1>1, EvidenceInvariant, PTL

-----------------------------------------------------------------------------
(* The window of messages. *)

WindowInv ==
    node \in {"finalize_response", "compact_persistent_state"} /\ ~st.fatal => st.window <= ShortMax

LEMMA WindowStep == RoutingInv /\ TypeInv /\ WindowInv /\ [Next]_vars => WindowInv'
<1> SUFFICES ASSUME RoutingInv, TypeInv, WindowInv, [Next]_vars PROVE WindowInv'
  OBVIOUS
<1>1. CASE StartTurn
  BY <1>1 DEF StartTurn, WindowInv
<1>2. CASE PrepareTurn
  BY <1>2, PrepareEffect DEF Effect, GraphNext, StaticEdges, AfterPrepare, WindowInv
<1>3. CASE UpdateMemory
  <2>1. st.window \in Nat
    BY DEF TypeInv, Typed
  <2>2. st'.window <= ShortMax
    BY <1>3, <2>1, MemoryEffect, BoundsAssumption DEF Window, AtMost
  <2> QED BY <2>2 DEF WindowInv
<1>4. CASE FinalizeResponse
  <2>1. Effect("finalize_response", {})
    BY <1>4, PassEffect DEF FinalizeResponse, Pass, Nodes
  <2> QED BY <2>1 DEF Effect, Fields, WindowInv
\* No other node leads to the end of a turn.
<1>5. CASE RunNode /\ ~PrepareTurn /\ ~UpdateMemory /\ ~FinalizeResponse
  <2>1. PICK n, patch : Return(n, patch) /\ Proper(n, patch)
    BY <1>5, EveryNodeProper
  <2>2. node = n /\ node' = GraphNext(n, st') /\ n \in Nodes
    BY <2>1, Returned DEF Proper
  <2>3. n \notin {"prepare_turn", "update_memory", "finalize_response"}
    BY <1>5, <2>2
    DEF RunNode, Return, Pass, LoadContext, LoadLongMemory, AnalyzeAndRoute, AskClarification,
        AnswerDirect, PlanRetrieval, PlanAggregateRetrieval, RetrieveRecords,
        RetrieveAggregateRecords, AssessRetrievalSufficiency, AssessAggregateSufficiency,
        BuildEvidencePack, AssessPredictionEligibility, RunPrediction, AnswerWithEvidence,
        AnswerWithAggregateEvidence, AnswerFromPrediction, AnswerWithLimits, CompactPersistentState
  <2>4. GraphNext(n, st') \notin {"finalize_response", "compact_persistent_state"}
    BY <2>2, <2>3
    DEF Nodes, GraphNext, StaticEdges, AfterRoute, AfterRetrievalAssessment,
        AfterAggregateAssessment, AfterEvidenceBuild, AfterPredictionEligibility, AfterPrediction
  <2> QED BY <2>2, <2>4 DEF WindowInv
<1>6. CASE Raise
  BY <1>6 DEF Raise, WindowInv
<1>7. CASE UNCHANGED vars
  BY <1>7 DEF vars, WindowInv
<1> QED BY <1>1, <1>2, <1>3, <1>4, <1>5, <1>6, <1>7 DEF Next

\* A turn that was answered leaves at most the configured window, however many rejected or
\* interrupted turns have lengthened the thread before it.
THEOREM AnsweredWindowBoundedCorrect == Spec => []AnsweredWindowBounded
<1>1. Init => WindowInv
  BY DEF Init, WindowInv
<1>2. WindowInv => AnsweredWindowBounded
  BY DEF WindowInv, AnsweredWindowBounded
<1> QED BY <1>1, <1>2, WindowStep, RoutingInvariant, TypeInvariant, PTL DEF Spec

-----------------------------------------------------------------------------
(* What the memory says of a formula. *)

\* The nodes from the search of one formula to its prediction.
Chain == {"retrieve_records", "assess_retrieval_sufficiency"} \cup Predicting

FirstCandidate(list) == IF list = <<>> THEN None ELSE Head(list)

OnlyEligible(s) ==
    /\ s.eligible # None /\ Candidates(s) # <<>> /\ s.eligible = Head(Candidates(s))
    /\ ListedIn(Candidates(s)) = {s.eligible}

LabelInv ==
    /\ \A f \in Formulas : st.labels[f] = "model_prediction" => "model_prediction" \in sources[f]
    /\ node \in Chain => st.target = FirstCandidate(Candidates(st))
    /\ node = "run_prediction" => OnlyEligible(st)
    /\ node = "answer_from_prediction" => TurnFormulas(st) \subseteq Predicted(st)
    /\ node = "update_memory" /\ st.kind = "model_prediction" =>
          \A f \in TurnFormulas(st) \cap Formulas : "model_prediction" \in sources[f]

LEMMA LabelStep ==
    RoutingInv /\ TypeInv /\ EvidenceInv /\ LabelInv /\ [Next]_vars => LabelInv'
<1> SUFFICES ASSUME RoutingInv, TypeInv, EvidenceInv, LabelInv, [Next]_vars PROVE LabelInv'
  OBVIOUS
<1> USE DEF Fields
<1>ok. Typed(st) /\ sources \in [Formulas -> SUBSET EvidenceKinds]
  BY DEF TypeInv
<1>candidates. Candidates(st) \in FormulaLists
  BY <1>ok DEF Candidates, Typed, TypeInv, Asks, Questions
<1>labels. \A f \in Formulas : st.labels[f] = "model_prediction" => "model_prediction" \in sources[f]
  BY DEF LabelInv
\* A credit takes nothing away.
<1>credit. ASSUME NEW F, NEW kind, Credit(F, kind)
           PROVE  \A f \in Formulas : sources[f] \subseteq sources'[f] /\ (f \in F => kind \in sources'[f])
  BY <1>credit DEF Credit
\* A node that keeps the labels, outside the chain.
<1>away. ASSUME NEW n, NEW F, Effect(n, F), "labels" \notin F,
                \A f \in Formulas : sources[f] \subseteq sources'[f],
                node' \notin Chain \cup {"answer_from_prediction"},
                node' = "update_memory" => st'.kind # "model_prediction"
         PROVE  LabelInv'
  BY <1>away, <1>labels DEF Effect, LabelInv, Chain, Predicting
\* A node that stays in the chain.
<1>chain. ASSUME NEW n \in Chain, NEW F, Effect(n, F), sources' = sources, n # "run_prediction",
                 F \cap {"labels", "formulas", "active", "target"} = {}, node' \in Chain,
                 node' = "run_prediction" => OnlyEligible(st)'
          PROVE  LabelInv'
  <2>1. /\ node = n /\ ask' = ask /\ st'.labels = st.labels /\ st'.formulas = st.formulas
        /\ st'.active = st.active /\ st'.target = st.target
    BY <1>chain DEF Effect
  <2>2. Candidates(st)' = Candidates(st)
    BY <2>1 DEF Candidates
  <2>3. st'.target = FirstCandidate(Candidates(st)')
    BY <2>1, <2>2 DEF LabelInv
  <2>4. \A f \in Formulas :
           st'.labels[f] = "model_prediction" => "model_prediction" \in sources'[f]
    BY <1>chain, <1>labels, <2>1
  <2> QED BY <1>chain, <2>3, <2>4 DEF LabelInv, Chain, Predicting
<1>1. CASE StartTurn
  BY <1>1, <1>labels DEF StartTurn, LabelInv, Chain, Predicting
<1>2. CASE PrepareTurn
  <2>1. /\ node' = AfterPrepare(st') /\ sources' = sources
        /\ st'.labels = st.labels \/ st'.labels = [f \in Formulas |-> None]
    BY <1>2, PrepareEffect DEF Effect, GraphNext, StaticEdges
  <2>2. \A f \in Formulas : st'.labels[f] = "model_prediction" => "model_prediction" \in sources'[f]
    BY <1>labels, <2>1, NoneAssumption DEF EvidenceKinds
  <2> QED BY <2>1, <2>2 DEF AfterPrepare, LabelInv, Chain, Predicting
<1>3. CASE LoadContext
  <2>1. node' = "load_long_memory"
    BY <1>3, ContextEffect DEF Effect, GraphNext, StaticEdges
  <2> QED BY <1>3, <1>away, <2>1, ContextEffect DEF Chain, Predicting
<1>4. CASE LoadLongMemory \/ AskClarification \/ AnswerDirect \/ FinalizeResponse
  <2>1. PICK n \in {"load_long_memory", "ask_clarification", "answer_direct", "finalize_response"} :
           Return(n, EmptyView) /\ sources' = sources
    BY <1>4 DEF LoadLongMemory, AskClarification, AnswerDirect, FinalizeResponse, Pass
  <2>2. Effect(n, {})
    BY <2>1, PassEffect DEF Nodes
  <2>3. /\ node' \in {"analyze_and_route", "update_memory", "compact_persistent_state"}
        /\ node' = "update_memory" => n \in {"ask_clarification", "answer_direct"}
    BY <2>1, <2>2 DEF Effect, GraphNext, StaticEdges
  <2>4. node' = "update_memory" => st'.kind # "model_prediction"
    BY <2>2, <2>3, NoneAssumption DEF Effect, EvidenceInv, EvidenceAt, Early, EvidenceKinds
  <2> QED BY <1>away, <2>1, <2>2, <2>3, <2>4 DEF Chain, Predicting
<1>5. CASE AnalyzeAndRoute
  <2>1. node' = AfterRoute(st')
    BY <1>5, AnalyzeEffect DEF Effect, GraphNext, StaticEdges
  <2>2. node' \in {"ask_clarification", "answer_direct", "plan_aggregate_retrieval", "plan_retrieval"}
    BY <2>1 DEF AfterRoute
  <2> QED BY <1>5, <1>away, <2>2, AnalyzeEffect DEF Chain, Predicting
<1>6. CASE PlanRetrieval
  <2>1. node' = "retrieve_records" /\ sources' = sources /\ ask' = ask
    BY <1>6, PlanEffect DEF Effect, GraphNext, StaticEdges
  <2>2. st'.formulas = st.formulas /\ st'.active = st.active /\ st'.labels = st.labels
    BY <1>6, PlanEffect DEF Effect
  <2>3. Candidates(st)' = Candidates(st)
    BY <2>1, <2>2 DEF Candidates
  <2>4. st'.target = FirstCandidate(Candidates(st))
    BY <1>6, PlanEffect DEF FirstCandidate
  <2> QED BY <1>labels, <2>1, <2>2, <2>3, <2>4 DEF LabelInv, Chain, Predicting
<1>7. CASE PlanAggregateRetrieval
  <2>1. node' = "retrieve_aggregate_records"
    BY <1>7, AggregatePlanEffect DEF Effect, GraphNext, StaticEdges
  <2> QED BY <1>7, <1>away, <2>1, AggregatePlanEffect DEF Chain, Predicting
<1>8. CASE RetrieveRecords
  <2>1. node' = "assess_retrieval_sufficiency"
    BY <1>8, RetrieveEffect DEF Effect, GraphNext, StaticEdges
  <2> QED BY <1>8, <1>chain, <2>1, RetrieveEffect DEF Chain, Predicting
<1>9. CASE RetrieveAggregateRecords
  <2>1. node' = "assess_aggregate_sufficiency"
    BY <1>9, AggregateRetrieveEffect DEF Effect, GraphNext, StaticEdges
  <2> QED BY <1>9, <1>away, <2>1, AggregateRetrieveEffect DEF Chain, Predicting
<1>10. CASE AssessRetrievalSufficiency
  <2>1. node' = AfterRetrievalAssessment(st')
    BY <1>10, AssessEffect DEF Effect, GraphNext, StaticEdges
  <2>2. node' \in {"build_evidence_pack", "assess_prediction_eligibility", "answer_with_limits"}
    BY <2>1 DEF AfterRetrievalAssessment
  <2>3. CASE node' = "assess_prediction_eligibility"
    BY <1>10, <1>chain, <2>3, AssessEffect DEF Chain, Predicting
  <2>4. CASE node' # "assess_prediction_eligibility"
    BY <1>10, <1>away, <2>2, <2>4, AssessEffect DEF Chain, Predicting
  <2> QED BY <2>3, <2>4
<1>11. CASE AssessAggregateSufficiency
  <2>1. node' = AfterAggregateAssessment(st')
    BY <1>11, AggregateAssessEffect DEF Effect, GraphNext, StaticEdges
  <2>2. node' \in {"build_evidence_pack", "answer_with_limits"}
    BY <2>1 DEF AfterAggregateAssessment
  <2> QED BY <1>11, <1>away, <2>2, AggregateAssessEffect DEF Chain, Predicting
<1>12. CASE BuildEvidencePack
  <2>1. node' = AfterEvidenceBuild(st')
    BY <1>12, BuildEffect DEF Effect, GraphNext, StaticEdges
  <2>2. node' \in {"answer_with_evidence", "answer_with_aggregate_evidence"}
    BY <2>1 DEF AfterEvidenceBuild
  <2> QED BY <1>12, <1>away, <2>2, BuildEffect DEF Chain, Predicting
<1>13. CASE AssessPredictionEligibility
  <2>1. node' = AfterPredictionEligibility(st') /\ st'.eligible = EligibleFormula(st)
    BY <1>13, EligibilityEffect DEF Effect, GraphNext, StaticEdges
  <2>2. node' \in {"run_prediction", "answer_with_limits"}
    BY <2>1 DEF AfterPredictionEligibility
  <2>3. CASE node' = "run_prediction"
    <3>1. EligibleFormula(st) # None
      BY <2>1, <2>3 DEF AfterPredictionEligibility
    <3>2. ask' = ask /\ st'.formulas = st.formulas /\ st'.active = st.active
      BY <1>13, EligibilityEffect DEF Effect
    <3>3. Candidates(st)' = Candidates(st)
      BY <3>2 DEF Candidates
    <3>4. OnlyEligible(st)'
      BY <1>candidates, <2>1, <3>1, <3>3, EligibleIsOnly DEF OnlyEligible
    <3> QED BY <1>13, <1>chain, <2>3, <3>4, EligibilityEffect DEF Chain, Predicting
  <2>4. CASE node' = "answer_with_limits"
    BY <1>13, <1>away, <2>4, EligibilityEffect DEF Chain, Predicting
  <2> QED BY <2>2, <2>3, <2>4
<1>14. CASE RunPrediction
  <2>1. node = "run_prediction" /\ node' = AfterPrediction(st')
    BY <1>14, PredictionEffect DEF Effect, GraphNext, StaticEdges
  <2>2. CASE node' = "answer_with_limits"
    BY <1>14, <1>away, <2>2, PredictionEffect DEF Chain, Predicting
  <2>3. CASE node' = "answer_from_prediction"
    <3>1. st'.prediction = st.eligible
      <4>1. st.prediction = None
        BY <2>1 DEF EvidenceInv, EvidenceAt, Early, Predicting
      <4>2. st'.prediction # None
        BY <2>1, <2>3 DEF AfterPrediction
      <4> QED BY <1>14, <4>1, <4>2, PredictionEffect DEF Effect
    <3>2. /\ st'.formulas = st.formulas /\ st'.target = st.target /\ st'.labels = st.labels
          /\ sources' = sources
      BY <1>14, PredictionEffect DEF Effect
    <3>3. OnlyEligible(st) /\ st.target = FirstCandidate(Candidates(st))
      BY <2>1 DEF LabelInv, Chain, Predicting
    <3>4. st.target = st.eligible
      BY <3>3 DEF FirstCandidate, OnlyEligible
    <3>5. ListedIn(st.formulas) \subseteq {st.eligible}
      <4>1. CASE st.formulas = <<>>
        BY <4>1 DEF ListedIn
      <4>2. CASE st.formulas # <<>>
        <5>1. Candidates(st) = st.formulas
          BY <4>2 DEF Candidates
        <5> QED BY <3>3, <5>1 DEF OnlyEligible
      <4> QED BY <4>1, <4>2
    <3>6. TurnFormulas(st') \subseteq Predicted(st')
      <4>1. st'.prediction # None
        BY <3>1, <3>3 DEF OnlyEligible
      <4> QED BY <3>1, <3>2, <3>4, <3>5, <4>1 DEF TurnFormulas, Predicted
    <3> QED BY <1>labels, <2>3, <3>2, <3>6 DEF LabelInv, Chain, Predicting
  <2> QED BY <2>1, <2>2, <2>3 DEF AfterPrediction
<1>15. CASE AnswerWithEvidence
  <2>1. Effect("answer_with_evidence", {})
    BY <1>15, PassEffect DEF AnswerWithEvidence, Nodes
  <2>2. node' = "update_memory" /\ st'.kind = "literature_record"
    BY <2>1 DEF Effect, GraphNext, StaticEdges, EvidenceInv, EvidenceAt
  <2> QED BY <1>15, <1>away, <1>credit, <2>1, <2>2 DEF AnswerWithEvidence, Chain, Predicting
<1>16. CASE AnswerWithAggregateEvidence
  <2>1. node' = "update_memory" /\ st'.kind = "literature_record"
    BY <1>16, AggregateAnswerEffect DEF Effect, GraphNext, StaticEdges
  <2> QED BY <1>16, <1>away, <1>credit, <2>1, AggregateAnswerEffect
      DEF AnswerWithAggregateEvidence, Chain, Predicting
<1>17. CASE AnswerFromPrediction
  <2>1. /\ node = "answer_from_prediction" /\ node' = "update_memory" /\ st'.labels = st.labels
        /\ st'.formulas = st.formulas /\ st'.target = st.target /\ st'.prediction = st.prediction
    BY <1>17, PredictedAnswerEffect DEF Effect, GraphNext, StaticEdges
  <2>2. ASSUME NEW f \in Formulas
        PROVE  /\ "model_prediction" \in sources[f] => "model_prediction" \in sources'[f]
               /\ f \in Predicted(st) => "model_prediction" \in sources'[f]
    BY <1>17, <1>credit DEF AnswerFromPrediction
  <2>3. TurnFormulas(st') \subseteq Predicted(st)
    BY <2>1 DEF LabelInv, TurnFormulas, Predicted
  <2>4. ASSUME NEW f \in Formulas, st'.labels[f] = "model_prediction"
        PROVE  "model_prediction" \in sources'[f]
    <3>1. st.labels[f] = "model_prediction"
      BY <2>1, <2>4
    <3> QED BY <1>labels, <2>2, <3>1
  <2>5. ASSUME NEW f \in TurnFormulas(st') \cap Formulas PROVE "model_prediction" \in sources'[f]
    <3>1. f \in Predicted(st)
      BY <2>3
    <3> QED BY <2>2, <3>1
  <2> QED BY <2>1, <2>4, <2>5 DEF LabelInv, Chain, Predicting
<1>18. CASE AnswerWithLimits
  <2>1. node = "answer_with_limits" /\ node' = "update_memory" /\ st'.kind = st.kind
    BY <1>18, LimitedAnswerEffect DEF Effect, GraphNext, StaticEdges
  <2>2. st'.kind # "model_prediction"
    BY <2>1, NoneAssumption DEF EvidenceInv, EvidenceAt, Early, EvidenceKinds
  <2> QED BY <1>18, <1>away, <2>1, <2>2, LimitedAnswerEffect DEF Chain, Predicting
<1>19. CASE UpdateMemory
  <2>1. /\ node = "update_memory" /\ node' = "finalize_response" /\ st'.labels = Labels(st)
        /\ sources' = sources
    BY <1>19, MemoryEffect DEF Effect, GraphNext, StaticEdges
  <2>2. ASSUME NEW f \in Formulas, st'.labels[f] = "model_prediction"
        PROVE  "model_prediction" \in sources'[f]
    BY <1>labels, <2>1, <2>2 DEF Labels, LabelInv
  <2> QED BY <2>1, <2>2 DEF LabelInv, Chain, Predicting
<1>20. CASE CompactPersistentState
  <2>1. /\ Effect("compact_persistent_state", DOMAIN ClearedTurn) /\ sources' = sources
        /\ "labels" \notin DOMAIN ClearedTurn
    BY <1>20, CompactEffect, FreshFields
  <2>2. node' = "idle"
    BY <2>1 DEF Effect, GraphNext, StaticEdges
  <2> QED BY <1>away, <2>1, <2>2 DEF Chain, Predicting
<1>21. CASE Raise
  BY <1>21, <1>labels DEF Raise, LabelInv, Chain, Predicting
<1>22. CASE UNCHANGED vars
  <2>1. node' = node /\ st' = st /\ ask' = ask /\ sources' = sources
    BY <1>22 DEF vars
  <2>2. /\ Candidates(st)' = Candidates(st) /\ TurnFormulas(st)' = TurnFormulas(st)
        /\ Predicted(st)' = Predicted(st)
    BY <2>1 DEF Candidates, TurnFormulas, ListedIn, Predicted
  <2>3. OnlyEligible(st)' <=> OnlyEligible(st)
    BY <2>1, <2>2 DEF OnlyEligible, ListedIn
  <2> QED BY <2>1, <2>2, <2>3 DEF LabelInv
<1> QED
  BY <1>1, <1>2, <1>3, <1>4, <1>5, <1>6, <1>7, <1>8, <1>9, <1>10, <1>11, <1>12, <1>13, <1>14,
     <1>15, <1>16, <1>17, <1>18, <1>19, <1>20, <1>21, <1>22 DEF Next, RunNode

LEMMA LabelInvariant == Spec => []LabelInv
<1>1. Init => LabelInv
  BY NewThreadValues, NoneAssumption DEF Init, LabelInv, Chain, Predicting, EvidenceKinds
<1> QED BY <1>1, LabelStep, RoutingInvariant, TypeInvariant, EvidenceInvariant, PTL DEF Spec

\* A formula is labelled as predicted only if a turn did answer with a prediction for it,
\* whatever formulas that turn was about and whatever turns came before.
THEOREM PredictedLabelsTrueCorrect == Spec => []PredictedLabelsTrue
<1>1. LabelInv => PredictedLabelsTrue
  BY DEF LabelInv, PredictedLabelsTrue
<1> QED BY <1>1, LabelInvariant, PTL

\* A route is predicted only after a search that completed without a usable record, for a
\* candidate request about the one formula that was searched for, outside evidence-only mode,
\* never for an aggregate query.
THEOREM PredictionIsLastResortCorrect == Spec => []PredictionIsLastResort
<1>1. FallbackInv /\ LabelInv => PredictionIsLastResort
  <2> SUFFICES ASSUME FallbackInv, LabelInv, node = "run_prediction"
               PROVE  PredictionIsLastResort
    BY DEF PredictionIsLastResort
  <2>1. OnlyEligible(st) /\ st.target = FirstCandidate(Candidates(st))
    BY DEF LabelInv, Chain, Predicting
  <2>2. st.eligible = st.target /\ ListedIn(Candidates(st)) = {st.target}
    BY <2>1 DEF OnlyEligible, FirstCandidate
  <2> QED BY <2>2 DEF FallbackInv, FallbackAt, PredictionIsLastResort, Predicting
<1> QED BY <1>1, FallbackInvariant, LabelInvariant, PTL
=============================================================================
