-------------------------- MODULE CandidateGovernance --------------------------
(***************************************************************************)
(* What becomes of a candidate: DeepWritePromotionPolicy                   *)
(* (src/engine/DeepWritePromotionPolicy.ts) over the candidates that       *)
(* DreamCuratorWorker and DeepWriteMemoryOrchestrator propose, wired as in *)
(* MemoryKernel (src/factory.ts): no relation store, causal links off,     *)
(* minPromoteConfidence 0.86.                                              *)
(*                                                                         *)
(* A promotion pass is synchronous.  For each candidate it lists it writes *)
(* a fact, belief, summary or entity in one commit and marks the candidate *)
(* in another, so a crash can fall between the two.                        *)
(*                                                                         *)
(* A candidate is reduced to what the policy looks at.  Confidences are    *)
(* percentages.                                                            *)
(***************************************************************************)
EXTENDS Integers, Sequences, FiniteSetsExt

CONSTANTS
  CandidateProjects,     \* project ids
  All,          \* the scope of a pass, or of a run, without a projectId
  Governed,     \* the scopes promotePending is called with
  Limit,        \* the limit it is called with
  Producers,    \* who proposes, a subset of Producer
  Modes,        \* the status new candidates get, "candidate" or "shadow"; the
                \* curator's provider warnings start decided: see DreamCurator
  HostTypes,    \* the types the host's compiler proposes
  Confidences,  \* the confidences the models give
  BatchSizes,   \* how many candidates a run proposes
  MaxCands,     \* bound: the candidates ever proposed
  MaxPassCrashes    \* bound: the crashes

Producer == {"rules", "model", "host"}

\* summary: summary, session_summary, topic_summary, project_memory, ...;
\* preference: preferences, user_preference, boundary, long_term_goal;
\* organization: semantic_tags, indexing_decision, semantic_relation,
\* edge_adjustment; other: the types that always wait for a review.
Type   == {"organization", "summary", "preference", "fact", "entity",
           "relation", "causal", "other"}
CandidateStatus == {"shadow", "candidate", "promoted", "rejected", "needs_confirmation"}

ASSUME AllAssumption      == All \notin CandidateProjects
ASSUME GovernedAssumption == Governed \subseteq CandidateProjects \cup {All}
ASSUME LimitAssumption    == Limit \in Nat \ {0}
ASSUME ProducerAssumption == Producers \subseteq Producer /\ HostTypes \subseteq Type \ {"organization"}
ASSUME ModesAssumption    == Modes \subseteq {"candidate", "shadow"}
ASSUME SizesAssumption    == Confidences \subseteq 0..100 /\ BatchSizes \subseteq Nat \ {0}
ASSUME BoundAssumption    == MaxCands \in Nat /\ MaxPassCrashes \in Nat

VARIABLES
  cands,    \* deep_write_candidates, in the order of created_at
  durable,     \* the durable rows written by promotions, in order
  pass,     \* the candidates the pass in progress has still to decide
  writing,  \* the candidate whose row is written and which is not yet marked
  passCrashes   \* history: the crashes so far

governanceVars == <<cands, durable, pass, writing, passCrashes>>

\* explicit: hasExplicitUserSource; inferred: isInferenceOnly; evidence: none,
\* or some, with or without a user's turn (hasUserTurnEvidence); complete: the
\* fields the target needs are there; cited: the producer itself named the
\* evidence.
Profile == [type : Type, conf : 0..100, explicit : BOOLEAN, inferred : BOOLEAN,
            evidence : {"none", "other", "user"}, complete : BOOLEAN, cited : BOOLEAN]

-----------------------------------------------------------------------------
(* The producers. *)

Rule(type, conf, explicit, inferred, evidence) ==
  [type |-> type, conf |-> conf, explicit |-> explicit, inferred |-> inferred,
   evidence |-> evidence, complete |-> TRUE, cited |-> TRUE]

\* buildCandidates and buildSemanticOrganizationCandidates, with the confidences
\* in the code.  The window summary has "assistant" in the name of its source,
\* which isInferenceOnly takes for an inference.
ByRules == {Rule("summary", 74, FALSE, TRUE, "user"), Rule("preference", 80, TRUE, FALSE, "user"),
            Rule("other", 72, TRUE, FALSE, "user"), Rule("causal", 68, FALSE, FALSE, "other"),
            Rule("organization", 62, FALSE, FALSE, "other"),
            Rule("organization", 74, FALSE, FALSE, "user")}

\* providerEvidenceFor: the events the model named, or if it named none of the
\* batch the first events of the batch.
ProviderEvidence(named, first) == IF named = "none" THEN first ELSE named

\* flattenProviderCandidates: the source is fixed (and is not one that
\* isInferenceOnly knows), the risk is what the model says.
ByModel ==
  {[type |-> type, conf |-> conf, explicit |-> FALSE, inferred |-> risky,
    evidence |-> ProviderEvidence(named, first), cited |-> named # "none",
    complete |-> type # "preference" \/ whole] :
     type \in {"organization", "summary", "preference", "other"}, conf \in Confidences,
     risky \in BOOLEAN, whole \in BOOLEAN,
     named \in {"none", "other", "user"}, first \in {"other", "user"}}

\* DeepWriteMemoryOrchestrator.flattenCandidates: what its compiler returned,
\* items without evidence dropped.
ByHost ==
  [type : HostTypes, conf : Confidences, explicit : BOOLEAN,
   inferred : BOOLEAN, evidence : {"other", "user"}, complete : BOOLEAN, cited : {TRUE}]

Produced == UNION {CASE by = "rules" -> ByRules [] by = "model" -> ByModel
                     [] by = "host" -> ByHost : by \in Producers}

-----------------------------------------------------------------------------
(* The policy. *)

\* The gate of the types without a threshold of their own.
Reviewed(c) == c.conf >= 86 /\ ~c.inferred

\* Organization candidates are accepted as they are: marked, nothing written.
Accepted(c)      == c.type = "organization" /\ c.conf >= 60
WritesSummary(c) == c.type = "summary" /\ c.conf >= 72 /\ c.evidence = "user" /\ c.complete
\* Faulty variant: a preference needs no word of the user.
WritesBeliefAnyway(c) == c.type = "preference" /\ c.conf >= 74 /\ c.complete
WritesBelief(c)  == /\ c.type = "preference" /\ c.conf >= 74
                    /\ c.explicit \/ c.evidence = "user"
                    /\ c.complete
WritesFact(c)    == c.type = "fact" /\ Reviewed(c) /\ c.explicit /\ c.complete
WritesEntity(c)  == c.type = "entity" /\ Reviewed(c) /\ c.explicit /\ c.complete

Writes(c) == /\ c.evidence # "none"
             /\ WritesSummary(c) \/ WritesBelief(c) \/ WritesFact(c) \/ WritesEntity(c)

\* relation_store_unavailable: the candidate stays as it is.
Kept(c) == c.type = "relation" /\ Reviewed(c) /\ c.evidence # "none"

\* The status of a candidate that is decided without a write.
Verdict(c) == IF c.evidence = "none" THEN "rejected"
              ELSE IF Accepted(c) THEN "promoted" ELSE "needs_confirmation"

-----------------------------------------------------------------------------
(* A pass. *)

NoPassRuns == pass = {}

\* insertRun and insertCandidates of one run.
Propose(p, batch, mode) ==
  /\ cands' = cands \o [i \in DOMAIN batch |->
                         [what |-> batch[i], status |-> mode, project |-> p,
                          run |-> Len(cands) + 1]]
  /\ UNCHANGED <<durable, pass, writing, passCrashes>>

\* listCandidates of a project, or listCandidatesByStatus without one.
Concerns(k, s) == s = All \/ cands[k].project = s
\* Faulty variant: what waits for a confirmation is listed too.
WaitingUnconfirmed(s) == {k \in DOMAIN cands : Concerns(k, s) /\
                            cands[k].status \in {"candidate", "needs_confirmation"}}
Waiting(s) == {k \in DOMAIN cands : Concerns(k, s) /\ cands[k].status = "candidate"}

\* ORDER BY created_at LIMIT n
Oldest(S, n) == {k \in S : Cardinality({j \in S : j < k}) < n}

PromotePending(s) ==
  /\ NoPassRuns
  /\ pass' = Oldest(Waiting(s), Limit)
  /\ pass' # {}
  /\ UNCHANGED <<cands, durable, writing, passCrashes>>

\* promoteRun lists the candidates of the run whatever their status.
PromoteRun(r) ==
  /\ NoPassRuns
  /\ pass' = {k \in DOMAIN cands : cands[k].run = r}
  /\ pass' # {}
  /\ UNCHANGED <<cands, durable, writing, passCrashes>>

\* Faulty variant: a pass does not look at the status.
PromotableAlways(k) == k \in DOMAIN cands
Promotable(k) == cands[k].status = "candidate"

\* The candidate evaluateAndApply is at.
At == Min(pass)

\* keep: nothing is written.
Keep ==
  /\ pass # {} /\ writing = 0
  /\ ~Promotable(At) \/ Kept(cands[At].what)
  /\ pass' = pass \ {At}
  /\ UNCHANGED <<cands, durable, writing, passCrashes>>

\* mark without a write before it.
Decide ==
  /\ pass # {} /\ writing = 0
  /\ Promotable(At) /\ ~Kept(cands[At].what) /\ ~Writes(cands[At].what)
  /\ cands' = [cands EXCEPT ![At].status = Verdict(cands[At].what)]
  /\ pass' = pass \ {At}
  /\ UNCHANGED <<durable, writing, passCrashes>>

\* insertFacts, insertSummary or BeliefStore.upsert writes a row; upsertEntity
\* finds the one it wrote before.
WriteRow ==
  /\ pass # {} /\ writing = 0
  /\ Promotable(At) /\ Writes(cands[At].what)
  /\ durable' = IF WritesEntity(cands[At].what) /\ \E r \in DOMAIN durable : durable[r] = At
             THEN durable ELSE Append(durable, At)
  /\ writing' = At
  /\ UNCHANGED <<cands, pass, passCrashes>>

\* BeliefStore.upsert may reject a belief that conflicts with stronger ones:
\* the candidate then waits for a confirmation.
RejectBelief ==
  /\ pass # {} /\ writing = 0
  /\ Promotable(At) /\ Writes(cands[At].what) /\ WritesBelief(cands[At].what)
  /\ cands' = [cands EXCEPT ![At].status = "needs_confirmation"]
  /\ pass' = pass \ {At}
  /\ UNCHANGED <<durable, writing, passCrashes>>

\* Faulty variant: a fact is written and its candidate forgotten.
MarkAllButFacts ==
  /\ writing # 0
  /\ cands' = IF WritesFact(cands[writing].what) THEN cands
              ELSE [cands EXCEPT ![writing].status = "promoted"]
  /\ pass' = pass \ {writing}
  /\ writing' = 0
  /\ UNCHANGED <<durable, passCrashes>>

\* mark after a write.
MarkPromoted ==
  /\ writing # 0
  /\ cands' = [cands EXCEPT ![writing].status = "promoted"]
  /\ pass' = pass \ {writing}
  /\ writing' = 0
  /\ UNCHANGED <<durable, passCrashes>>

\* The process ends and is started again; opening the database repairs nothing.
PassCrash ==
  /\ pass # {}
  /\ passCrashes < MaxPassCrashes
  /\ pass' = {} /\ writing' = 0
  /\ passCrashes' = passCrashes + 1
  /\ UNCHANGED <<cands, durable>>

-----------------------------------------------------------------------------

GovernanceInit == cands = <<>> /\ durable = <<>> /\ pass = {} /\ writing = 0 /\ passCrashes = 0

Step == Keep \/ Decide \/ WriteRow \/ RejectBelief \/ MarkPromoted

\* A run proposes some candidates of these profiles.
ProposeAmong(profiles, modes, sizes) ==
  \E n \in sizes :
    /\ NoPassRuns /\ Len(cands) + n <= MaxCands
    /\ \E p \in CandidateProjects \cup {All}, mode \in modes, batch \in [1..n -> profiles] :
         Propose(p, batch, mode)

PassNext ==
  \/ \E s \in Governed : PromotePending(s)
  \/ \E r \in 1..Len(cands) : PromoteRun(r)
  \/ Step
  \/ PassCrash

GovernanceNext == ProposeAmong(Produced, Modes, BatchSizes) \/ PassNext

GovernanceSpec == GovernanceInit /\ [][GovernanceNext]_governanceVars

\* A pass, being synchronous, runs to its end.  `cogmem memory dream --watch
\* --promote` starts one for its scope whenever its timer fires, which the
\* passes of other tasks can delay but not prevent: strong fairness.
GovernanceFairness ==
  /\ WF_governanceVars(Step)
  /\ \A s \in Governed : SF_governanceVars(PromotePending(s))

-----------------------------------------------------------------------------
(* Properties. *)

Candidate == [what : Profile, status : CandidateStatus, project : CandidateProjects \cup {All}, run : Nat]

\* Type invariant.  The row being written is that of the candidate at hand.
GovernanceTypeOK ==
  /\ cands \in Seq(Candidate)
  /\ durable \in Seq(DOMAIN cands)
  /\ pass \subseteq DOMAIN cands
  /\ writing = 0 \/ (pass # {} /\ writing = At)
  /\ passCrashes \in Nat

Backed == {k \in DOMAIN cands : Writes(cands[k].what) /\ cands[k].status = "promoted"}

\* Each promoted candidate that should have a row has one, and there are no
\* rows besides, except one for the write in progress and at most one for each
\* crash: a pass repeated after a crash, or of a run promoted before, writes
\* nothing twice.
Accounted ==
  /\ \A k \in Backed : \E r \in DOMAIN durable : durable[r] = k
  /\ Len(durable) <= Cardinality(Backed) + passCrashes + (IF writing = 0 THEN 0 ELSE 1)

\* Dreaming "cannot silently turn model guesses or tool output into verified
\* truth" (MEMORY_MODEL.md:67): every durable row comes from a candidate that
\* was proposed as one (not as a shadow) and that either states what the user
\* said or has a user's turn in its evidence.
UserBacked ==
  \A r \in DOMAIN durable :
    /\ cands[durable[r]].what.explicit \/ cands[durable[r]].what.evidence = "user"
    /\ cands[durable[r]].status # "shadow"

\* A decision is final for the policy: no later pass, of the queue or of the
\* run, changes a candidate that was decided or was proposed as a shadow.
Final == [][\A k \in DOMAIN cands :
              cands[k].status # "candidate" => cands'[k].status = cands[k].status]_governanceVars

\* The queue does not pile up: a candidate in the scope of the repeated passes
\* is eventually decided, unless it is a relation the policy keeps, or kept
\* ones fill the limit of a pass.
Settles ==
  \A s \in Governed :
    LET Waits(k) == k \in DOMAIN cands /\ cands[k].status = "candidate" /\ Concerns(k, s)
        Stuck    == {k \in DOMAIN cands : Waits(k) /\ Kept(cands[k].what)}
    IN \A k \in 1..MaxCands :
         Waits(k) ~> ~Waits(k) \/ k \in Stuck \/ Cardinality(Stuck) >= Limit

\* "Inference-only content" remains needs_confirmation or stays a candidate
\* (MEMORY_MODEL.md:67).
InferenceHeld == \A r \in DOMAIN durable : ~cands[durable[r]].what.inferred

\* "Missing evidence" does too, and "Every candidate must be traceable to
\* evidenceEventIds" (DreamCuratorWorker.ts, the prompt): no row comes from a
\* candidate whose evidence its producer did not name.
EvidenceNamed == \A r \in DOMAIN durable : cands[durable[r]].what.cited

=============================================================================
