---- MODULE Maintenance ----
(***************************************************************************)
(* The maintenance that ends every offline consolidation of a project      *)
(* (refreshTopicMaintenance in                                             *)
(* src/src/engine/OfflineConsolidationPipeline.ts): a row of steps under a *)
(* budget of time.  When the budget is used up after a step, the next step *)
(* is saved as a checkpoint, where the next consolidation begins; a        *)
(* checkpoint older than a day is dropped.  The last step has no budget.   *)
(*                                                                         *)
(* A step may throw, and the process may end at any of its awaits: the     *)
(* consolidation then ends without touching the checkpoint.  What a step   *)
(* does is left out.                                                       *)
(***************************************************************************)
EXTENDS Naturals

CONSTANTS StepCount, MaxExpiries, MaxThrows

ASSUME MaintenanceAssumption ==
  /\ StepCount \in Nat \ {0}
  /\ MaxExpiries \in Nat
  /\ MaxThrows \in Nat

VARIABLES checkpoint,   \* step saved in pipeline_checkpoints; 0: no row
          expired,      \* is that row older than a day
          current,      \* step about to run or running; 0: no consolidation
          completed,    \* step that completed last
          expiries, throws

maintenanceVars == <<checkpoint, expired, current, completed, expiries, throws>>

Steps == 1..StepCount

\* readCheckpointIndex
StartMaintenance ==
  /\ current = 0
  /\ current' = IF checkpoint = 0 \/ expired THEN 1 ELSE checkpoint
  /\ checkpoint' = IF expired THEN 0 ELSE checkpoint
  /\ expired' = FALSE
  /\ UNCHANGED <<completed, expiries, throws>>

\* A mutant: the step that used up the budget is saved, not the one after it.
SavedSame(step) == step

\* steps[Math.min(index + 1, steps.length - 1)]
Saved(step) == IF step < StepCount THEN step + 1 ELSE StepCount

\* A step completes within the budget, or without one.
StepCompletes ==
  /\ current # 0
  /\ completed' = current
  /\ IF current = StepCount
     THEN current' = 0 /\ checkpoint' = 0 /\ expired' = FALSE
     ELSE current' = current + 1 /\ UNCHANGED <<checkpoint, expired>>
  /\ UNCHANGED <<expiries, throws>>

\* A step completes, and the budget is used up.
StepAborts ==
  /\ current \in 1..(StepCount - 1)
  /\ completed' = current
  /\ checkpoint' = Saved(current)
  /\ expired' = FALSE
  /\ current' = 0
  /\ UNCHANGED <<expiries, throws>>

\* A step throws, or the process ends.
StepThrows ==
  /\ current # 0
  /\ throws < MaxThrows
  /\ throws' = throws + 1
  /\ current' = 0
  /\ UNCHANGED <<checkpoint, expired, completed, expiries>>

\* Nobody consolidates for a day.
Expire ==
  /\ current = 0
  /\ checkpoint # 0 /\ ~ expired
  /\ expiries < MaxExpiries
  /\ expiries' = expiries + 1
  /\ expired' = TRUE
  /\ UNCHANGED <<checkpoint, current, completed, throws>>

MaintenanceInit ==
  /\ checkpoint = 0 /\ expired = FALSE
  /\ current = 0 /\ completed = 0
  /\ expiries = 0 /\ throws = 0

MaintenanceNext == StartMaintenance \/ StepCompletes \/ StepAborts \/ StepThrows \/ Expire

\* Consolidations go on, and every await of a step settles.  Nothing is assumed
\* of the time a step takes: the budget may be used up after each.
MaintenanceFairness ==
  WF_maintenanceVars(StartMaintenance) /\ WF_maintenanceVars(StepCompletes \/ StepAborts)

----------------------------------------------------------------------------

\* The variables have their types.
MaintenanceTypeOK ==
  /\ checkpoint \in 0..StepCount
  /\ expired \in BOOLEAN
  /\ current \in 0..StepCount
  /\ completed \in 0..StepCount
  /\ expiries \in 0..MaxExpiries
  /\ throws \in 0..MaxThrows

\* However slow the first steps are, every step runs again and again, if
\* checkpoints do not keep expiring and steps do not keep throwing.
NoStepStarved == \A step \in Steps : []<>(completed = step)
====
