---- MODULE MCLive ----
(***************************************************************************)
(* One run over the loops of the system, each under the fairness its       *)
(* module states: each behaviour is one component's, the others stay where *)
(* they begin and ask for no fairness.                                     *)
(***************************************************************************)
EXTENDS DreamCurator, NeuronMemory, ReEmbedding, BatchImport, Maintenance, RememberQueue, TLC

CONSTANT Foci

VARIABLE focus   \* the component the behaviour is about

\* Of the records, the first and the third say the same in one thread, the
\* fourth says it in another; redaction takes out what the second and the
\* fifth say.
MCTexts   == <<"x", "pii", "x", "x", "pii">>
MCThreads == <<"a", "a", "a", "b", "a">>
MCRedact  == [t \in {"x", "pii", "gone"} |-> IF t = "pii" THEN "gone" ELSE t]
MCWindows == {1..3, 1..5}
MCKeys    == <<"a", "b", "b">>

LiveInit ==
  /\ focus \in Foci
  /\ Init /\ NeuronInit /\ EmbeddingInit /\ ImportInit /\ MaintenanceInit /\ RememberInit
  /\ focus = "metabolism" \/ onDisk = CHOOSE d \in Deployments : TRUE
  /\ focus = "embedding" \/ stored = [i \in NeuronIds |-> "absent"]

LiveNext ==
  \/ /\ focus = "curator" /\ CuratorNext
     /\ UNCHANGED <<focus, neuronVars, embeddingVars, importVars, maintenanceVars, rememberVars>>
  \/ /\ focus = "metabolism" /\ NeuronNext
     /\ UNCHANGED <<focus, vars, embeddingVars, importVars, maintenanceVars, rememberVars>>
  \/ /\ focus = "embedding" /\ EmbeddingNext
     /\ UNCHANGED <<focus, vars, neuronVars, importVars, maintenanceVars, rememberVars>>
  \/ /\ focus = "import" /\ ImportNext
     /\ UNCHANGED <<focus, vars, neuronVars, embeddingVars, maintenanceVars, rememberVars>>
  \/ /\ focus = "maintenance" /\ MaintenanceNext
     /\ UNCHANGED <<focus, vars, neuronVars, embeddingVars, importVars, rememberVars>>
  \/ /\ focus = "remember" /\ RememberNext
     /\ UNCHANGED <<focus, vars, neuronVars, embeddingVars, importVars, maintenanceVars>>

liveVars == <<focus, vars, neuronVars, embeddingVars, importVars, maintenanceVars, rememberVars>>

LiveSpec == LiveInit /\ [][LiveNext]_liveVars

\* The fairness of each module, asked of the behaviours about it.
LiveFairness ==
  /\ WF_vars(focus = "curator" /\ LedgerStep /\ (Statement \/ Open))
  /\ WF_vars(focus = "curator" /\ DreamStatement)
  /\ \A r \in Runs : /\ WF_vars(focus = "curator" /\ Answer(r))
                     /\ WF_vars(focus = "curator" /\ FinishRun(r))
  /\ \A s \in Asked :
       WF_vars(focus = "curator" /\ \E r \in Runs, n \in Limits : StartRun(r, s, n))
  /\ WF_neuronVars(focus = "metabolism" /\ StartLoop)
  /\ WF_neuronVars(focus = "metabolism" /\ Cycle)
  /\ \A r \in Runners :
       /\ WF_embeddingVars(focus = "embedding" /\ (StartPass(r) \/ EndPass(r) \/ TakeBatch(r)))
       /\ SF_embeddingVars(focus = "embedding" /\ AnsweredInFull(r))
  /\ WF_importVars(focus = "import" /\ ImportStep)
  /\ WF_importVars(focus = "import" /\ lastWindow # Unmarked /\ StartImport(lastWindow))
  /\ WF_maintenanceVars(focus = "maintenance" /\ StartMaintenance)
  /\ WF_maintenanceVars(focus = "maintenance" /\ (StepCompletes \/ StepAborts))
  /\ \A d \in Drainers : WF_rememberVars(focus = "remember" /\ DrainStep(d))

LiveFairSpec == LiveSpec /\ LiveFairness

\* NoStepStarved, of the behaviours about the maintenance.
MaintenanceReachesAll == focus = "maintenance" => NoStepStarved
====
