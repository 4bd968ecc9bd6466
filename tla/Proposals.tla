---- MODULE Proposals ----
(***************************************************************************)
(* Self-improvement proposals: the ledger of their life cycle              *)
(* (src/src/meta/ProposalLedger.ts), their evaluation                      *)
(* (src/src/meta/ProposalEvalRunner.ts) and their application to the       *)
(* configuration file (src/src/meta/ProposalApplier.ts).                   *)
(*                                                                         *)
(* An evaluation awaits its benchmarks; an application awaits the read and *)
(* the write of the file, a rollback the write.  The ledger row is written *)
(* after the file.  Proposals of mode patch_only, which change no          *)
(* configuration, are left out, and so are the other fields of the rows.   *)
(* A value of the file is the proposal that wrote it.                      *)
(***************************************************************************)
EXTENDS Naturals, Sequences, FiniteSets

CONSTANTS ProposalIds, Keys, Original,
          Change,                 \* keys each proposal sets
          MaxRejects, MaxEvaluations, MaxApplierCrashes

ASSUME ProposalAssumption ==
  /\ Original \notin ProposalIds
  /\ Change \in [ProposalIds -> SUBSET Keys]
  /\ MaxRejects \in Nat
  /\ MaxEvaluations \in Nat
  /\ MaxApplierCrashes \in Nat

VARIABLES ledger,      \* status and previous_value of each proposal
          config,      \* cogmem.config.json
          evaluating,  \* proposals whose benchmarks run
          calls,       \* the applier call of each proposal
          inForce,     \* history: applied proposals, oldest first
          orderly,     \* history: see AppliedInForce
          rejects, evaluations, applierCrashes

proposalVars == <<ledger, config, evaluating, calls, inForce, orderly,
                  rejects, evaluations, applierCrashes>>

NoCall == [phase |-> "none"]
Busy == {p \in ProposalIds : calls[p] # NoCall}
Touched(p) == p \in Busy \/ ledger[p].status = "applied"

SetStatus(p, status) == ledger' = [ledger EXCEPT ![p].status = status]

\* evaluate up to its await, whatever the status.
Evaluate(p) ==
  /\ p \notin evaluating
  /\ evaluations < MaxEvaluations
  /\ evaluations' = evaluations + 1
  /\ evaluating' = evaluating \cup {p}
  /\ SetStatus(p, "under_eval")
  /\ orderly' = (orderly /\ ~ Touched(p))
  /\ UNCHANGED <<config, calls, inForce, rejects, applierCrashes>>

\* The benchmarks end: a verdict, or an error that leaves the status.
Evaluated(p) ==
  /\ p \in evaluating
  /\ evaluating' = evaluating \ {p}
  /\ \E status \in {"passed_eval", "failed_eval", ledger[p].status} : SetStatus(p, status)
  /\ orderly' = (orderly /\ ~ Touched(p))
  /\ UNCHANGED <<config, calls, inForce, rejects, evaluations, applierCrashes>>

Approve(p) ==
  /\ ledger[p].status = "passed_eval"
  /\ SetStatus(p, "approved")
  /\ UNCHANGED <<config, evaluating, calls, inForce, orderly, rejects, evaluations, applierCrashes>>

\* reject has no guard.
Reject(p) ==
  /\ rejects < MaxRejects
  /\ rejects' = rejects + 1
  /\ SetStatus(p, "rejected")
  /\ orderly' = (orderly /\ ~ Touched(p))
  /\ UNCHANGED <<config, evaluating, calls, inForce, evaluations, applierCrashes>>

\* apply up to its first await.
BeginApply(p) ==
  /\ calls[p] = NoCall
  /\ ledger[p].status = "approved"
  /\ calls' = [calls EXCEPT ![p] = [phase |-> "reading"]]
  /\ orderly' = (orderly /\ Busy = {})
  /\ UNCHANGED <<ledger, config, evaluating, inForce, rejects, evaluations, applierCrashes>>

ReadConfig(p) ==
  /\ calls[p].phase = "reading"
  /\ calls' = [calls EXCEPT ![p] = [phase |-> "writing", previous |-> config]]
  /\ UNCHANGED <<ledger, config, evaluating, inForce, orderly, rejects, evaluations, applierCrashes>>

\* A mutant: the file holds the change only.
MergedNothing(p, previous) == [k \in Keys |-> IF k \in Change[p] THEN p ELSE Original]

Merged(p, previous) == [k \in Keys |-> IF k \in Change[p] THEN p ELSE previous[k]]

WriteConfig(p) ==
  /\ calls[p].phase = "writing"
  /\ config' = Merged(p, calls[p].previous)
  /\ calls' = [calls EXCEPT ![p].phase = "written"]
  /\ UNCHANGED <<ledger, evaluating, inForce, orderly, rejects, evaluations, applierCrashes>>

\* ledger.apply: if the proposal is no longer approved it throws, and the file
\* keeps the change.
RecordApply(p) ==
  /\ calls[p].phase = "written"
  /\ calls' = [calls EXCEPT ![p] = NoCall]
  /\ IF ledger[p].status = "approved"
     THEN /\ ledger' = [ledger EXCEPT ![p] = [status |-> "applied", previous |-> calls[p].previous]]
          /\ inForce' = Append(inForce, p)
     ELSE UNCHANGED <<ledger, inForce>>
  /\ UNCHANGED <<config, evaluating, orderly, rejects, evaluations, applierCrashes>>

BeginRollback(p) ==
  /\ calls[p] = NoCall
  /\ ledger[p].status = "applied"
  /\ calls' = [calls EXCEPT ![p] = [phase |-> "restoring"]]
  /\ orderly' = (orderly /\ Busy = {} /\ inForce[Len(inForce)] = p)
  /\ UNCHANGED <<ledger, config, evaluating, inForce, rejects, evaluations, applierCrashes>>

RestoreConfig(p) ==
  /\ calls[p].phase = "restoring"
  /\ config' = ledger[p].previous
  /\ calls' = [calls EXCEPT ![p].phase = "restored"]
  /\ UNCHANGED <<ledger, evaluating, inForce, orderly, rejects, evaluations, applierCrashes>>

\* What stays applied when p is taken back.
Without(p) ==
  LET n == CHOOSE n \in DOMAIN inForce : inForce[n] = p
  IN  [m \in 1..(Len(inForce) - 1) |-> inForce[IF m < n THEN m ELSE m + 1]]

\* ledger.rollback
RecordRollback(p) ==
  /\ calls[p].phase = "restored"
  /\ calls' = [calls EXCEPT ![p] = NoCall]
  /\ IF ledger[p].status = "applied"
     THEN /\ SetStatus(p, "rolled_back")
          /\ inForce' = Without(p)
     ELSE UNCHANGED <<ledger, inForce>>
  /\ UNCHANGED <<config, evaluating, orderly, rejects, evaluations, applierCrashes>>

\* The process ends; a restored or written file stays so.
ApplierCrash ==
  /\ Busy \cup evaluating # {}
  /\ applierCrashes < MaxApplierCrashes
  /\ applierCrashes' = applierCrashes + 1
  /\ evaluating' = {}
  /\ calls' = [p \in ProposalIds |-> NoCall]
  /\ orderly' = (orderly /\ \A p \in Busy : calls[p].phase \in {"reading", "writing", "restoring"})
  /\ UNCHANGED <<ledger, config, inForce, rejects, evaluations>>

ProposalInit ==
  /\ ledger = [p \in ProposalIds |-> [status |-> "pending", previous |-> [k \in Keys |-> Original]]]
  /\ config = [k \in Keys |-> Original]
  /\ evaluating = {}
  /\ calls = [p \in ProposalIds |-> NoCall]
  /\ inForce = <<>>
  /\ orderly = TRUE
  /\ rejects = 0 /\ evaluations = 0 /\ applierCrashes = 0

ProposalNext ==
  \/ \E p \in ProposalIds :
       \/ Evaluate(p) \/ Evaluated(p) \/ Approve(p) \/ Reject(p)
       \/ BeginApply(p) \/ ReadConfig(p) \/ WriteConfig(p) \/ RecordApply(p)
       \/ BeginRollback(p) \/ RestoreConfig(p) \/ RecordRollback(p)
  \/ ApplierCrash

ProposalSpec == ProposalInit /\ [][ProposalNext]_proposalVars

----------------------------------------------------------------------------

Statuses == {"pending", "under_eval", "passed_eval", "failed_eval", "approved",
             "rejected", "applied", "rolled_back"}

Files == [Keys -> ProposalIds \cup {Original}]

\* The variables have their types.
ProposalTypeOK ==
  /\ ledger \in [ProposalIds -> [status : Statuses, previous : Files]]
  /\ config \in Files
  /\ evaluating \subseteq ProposalIds
  /\ \A p \in ProposalIds :
       calls[p].phase \in {"none", "reading", "writing", "written", "restoring", "restored"}
  /\ inForce \in Seq(ProposalIds)
  /\ orderly \in BOOLEAN

\* The newest applied proposal that sets a key.
Newest(k) ==
  LET setters == {n \in DOMAIN inForce : k \in Change[inForce[n]]}
  IN  IF setters = {} THEN Original
      ELSE inForce[CHOOSE n \in setters : \A m \in setters : m <= n]

\* While calls do not overlap, roll back the newest application first, are not
\* cut between the file and the ledger, and leave applied proposals alone
\* otherwise, the file is the original with the applied proposals laid over
\* it in their order.  Every one of these conditions is needed.
AppliedInForce == orderly /\ Busy = {} => \A k \in Keys : config[k] = Newest(k)
====
