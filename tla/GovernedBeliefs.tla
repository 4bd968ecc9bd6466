---------------------------- MODULE GovernedBeliefs ----------------------------
(***************************************************************************)
(* Governance and the belief store together: what promotePreference        *)
(* (src/src/engine/DeepWritePromotionPolicy.ts) does with a candidate that *)
(* states a belief of the key BeliefStore models.  In CandidateGovernance  *)
(* the store accepts or rejects such a candidate as it likes; here upsert  *)
(* decides, over the beliefs that extraction and earlier promotions left.  *)
(*                                                                         *)
(* The belief commits before its candidate is marked.  A crash in between  *)
(* leaves the candidate open, and the next pass states the same belief of  *)
(* the same date to a store that holds it already.                         *)
(***************************************************************************)
EXTENDS CandidateGovernance, BeliefStore

CONSTANT Elsewhere   \* what a candidate about another key, or about none, says

VARIABLES
  says,     \* by candidate: content_json and created_at
  origin    \* by belief: metadata.deep_write_candidate_id, 0 if extracted

governedVars == <<governanceVars, beliefVars, says, origin>>

Saying == [value : BeliefValues, project : BeliefProjects, at : 0..MaxTime]

ASSUME ElsewhereAssumption == Elsewhere \notin Saying
ASSUME PromotionsAssumption == \A c \in Produced : WritesBelief(c) => c.conf \in Promotions

\* The candidate is promoted through the key.
States(k) == WritesBelief(cands[k].what) /\ says[k] # Elsewhere

\* Faulty variant: the policy passes its own clock, not the candidate's date.
DatedByClock(k) == today
Dated(k) == says[k].at

\* Faulty variant: the belief begins after the candidate.
ClaimOfLate(k) == Promotion(says[k].value, says[k].project, cands[k].what.conf, says[k].at + 1)
\* beliefCandidate
ClaimOf(k) == Promotion(says[k].value, says[k].project, cands[k].what.conf, says[k].at)

-----------------------------------------------------------------------------

ProposeStatements ==
  /\ ProposeAmong(Produced, Modes, BatchSizes)
  /\ \E said \in [1..(Len(cands') - Len(cands)) -> {Elsewhere} \cup {c \in Saying : c.at = today}] :
       says' = says \o said
  /\ UNCHANGED <<beliefVars, origin>>

\* upsert stores the belief; the candidate is still to be marked.
StoreStatement ==
  /\ WriteRow /\ States(At)
  /\ Upsert(ClaimOf(At), Dated(At))
  /\ origin' = Append(origin, At)
  /\ UNCHANGED says

\* Faulty variant: the answer of upsert is not looked at.
SetAsideUnseen ==
  /\ pass # {} /\ writing = 0 /\ Promotable(At) /\ Writes(cands[At].what) /\ States(At)
  /\ ~ Resolve(ClaimOf(At), Dated(At)).store
  /\ cands' = [cands EXCEPT ![At].status = "promoted"]
  /\ pass' = pass \ {At}
  /\ UNCHANGED <<durable, writing, passCrashes, beliefVars, says, origin>>

\* upsert returns no belief: the candidate waits for a confirmation.
SetAside ==
  /\ RejectBelief /\ States(At)
  /\ ~ Resolve(ClaimOf(At), Dated(At)).store
  /\ UNCHANGED <<beliefVars, says, origin>>

\* The steps of a pass that have nothing to do with the key.
PassAlone ==
  /\ \/ \E s \in Governed : PromotePending(s)
     \/ \E r \in 1..Len(cands) : PromoteRun(r)
     \/ Keep \/ Decide \/ MarkPromoted \/ PassCrash
     \/ (WriteRow \/ RejectBelief) /\ ~ States(At)
  /\ UNCHANGED <<beliefVars, says, origin>>

\* Extraction, calibration and the clock, between the passes, which are
\* synchronous.
BeliefsAlone ==
  /\ NoPassRuns /\ BeliefNext
  /\ origin' = IF Len(beliefs') > Len(beliefs) THEN Append(origin, 0) ELSE origin
  /\ UNCHANGED <<governanceVars, says>>

GovernedInit == GovernanceInit /\ BeliefInit /\ says = <<>> /\ origin = <<>>

GovernedNext == ProposeStatements \/ StoreStatement \/ SetAside \/ PassAlone \/ BeliefsAlone

GovernedSpec == GovernedInit /\ [][GovernedNext]_governedVars

-----------------------------------------------------------------------------

\* Every candidate has its content, every belief its origin.
GovernedTypeOK ==
  /\ says \in Seq(Saying \cup {Elsewhere}) /\ Len(says) = Len(cands)
  /\ \A k \in DOMAIN says : says[k] # Elsewhere => says[k].at <= today
  /\ origin \in Seq({0} \cup DOMAIN cands) /\ Len(origin) = Len(beliefs)

\* A belief that names a governed candidate says what the candidate says, for
\* its project and from its date on, and the policy may promote the candidate:
\* a user stands behind it, and it was never a shadow.  A promoted candidate
\* has such a belief; Lineage says what became of it.
Traceable ==
  /\ \A i \in Rows : origin[i] # 0 =>
       LET k == origin[i]
       IN  /\ States(k) /\ Writes(cands[k].what) /\ cands[k].status # "shadow"
           /\ beliefs[i].value = says[k].value
           /\ beliefs[i].project = says[k].project
           /\ beliefs[i].from = says[k].at
  /\ \A k \in DOMAIN cands :
       cands[k].status = "promoted" /\ Writes(cands[k].what) /\ States(k) =>
         \E i \in Rows : origin[i] = k

\* No candidate waits for a confirmation while the belief it states is in force
\* on its account: a pass that states again what a crash kept it from marking
\* is a restatement strong enough to be stored, whatever time has passed and
\* whatever else was learnt.
NotAskedInForce ==
  \A k \in DOMAIN cands, i \in Rows :
    cands[k].status = "needs_confirmation" /\ origin[i] = k => ~ Active(i)
=============================================================================
