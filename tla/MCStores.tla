---- MODULE MCStores ----
(***************************************************************************)
(* One run over the components whose stores do not meet: each behaviour is *)
(* one component's, the others stay where they begin.                      *)
(***************************************************************************)
EXTENDS DreamCurator, BeliefStore, OfflineConsolidation, NeuronMemory, Proposals, TLC

CONSTANTS Foci, q1, q2, IndexBound

VARIABLE focus   \* the component the behaviour is about

MCFeedback == {<<10, 0>>}
MCClaims   == {<<"user_input", 78>>, <<"user_input", 94>>, <<"llm_inference", 60>>}
MCPurchases  == {[says |-> "bought", conf |-> 92, evidence |-> 3]}
MCStatements == MCPurchases \cup {[says |-> "broken", conf |-> 60, evidence |-> 3],
                                 [says |-> "broken", conf |-> 92, evidence |-> 1]}
MCChange   == (q1 :> {"a"}) @@ (q2 :> {"a", "b"})

StoresSymmetry == Permutations(BeliefValues) \cup Permutations(Tasks)

\* The index knows nothing of dates: its behaviours have one.
IndexBounds ==
  /\ ingests + edits + Cardinality({i \in Ids : neurons[i].bare}) <= IndexBound
  /\ \A i \in Ids : neurons[i].created = 1
  /\ \A t \in Tasks : tasks[t].phase = "idle" \/ tasks[t].created = 1

StoresInit ==
  /\ focus \in Foci
  /\ Init /\ BeliefInit /\ OfflineInit /\ NeuronInit /\ ProposalInit
  /\ focus = "beliefs" \/ kind = CHOOSE k \in Kinds : TRUE
  /\ focus \in {"neurons", "chain"} \/ onDisk = CHOOSE d \in Deployments : TRUE

StoresNext ==
  \/ /\ focus = "curator" /\ Next
     /\ UNCHANGED <<focus, beliefVars, offlineVars, neuronVars, proposalVars>>
  \/ /\ focus = "beliefs" /\ BeliefNext
     /\ UNCHANGED <<focus, vars, offlineVars, neuronVars, proposalVars>>
  \/ /\ focus = "offline" /\ OfflineNext
     /\ UNCHANGED <<focus, vars, beliefVars, neuronVars, proposalVars>>
  \/ /\ focus = "neurons" /\ NeuronNext /\ IndexBounds'
     /\ UNCHANGED <<focus, vars, beliefVars, offlineVars, proposalVars>>
  \/ /\ focus = "chain" /\ ChainNext
     /\ UNCHANGED <<focus, vars, beliefVars, offlineVars, proposalVars>>
  \/ /\ focus = "proposals" /\ ProposalNext
     /\ UNCHANGED <<focus, vars, beliefVars, offlineVars, neuronVars>>

StoresSpec ==
  StoresInit /\ [][StoresNext]_<<focus, vars, beliefVars, offlineVars, neuronVars, proposalVars>>
====
