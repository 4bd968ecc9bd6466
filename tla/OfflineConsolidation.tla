---- MODULE OfflineConsolidation ----
(***************************************************************************)
(* Offline consolidation (src/src/engine/OfflineConsolidationPipeline.ts)  *)
(* over the entity instances of one name (src/src/store/EntityStore.ts)    *)
(* and the facts that mention it (src/src/store/FactStore.ts).  Statements *)
(* about the name come in from several projects; a run reads the stores,   *)
(* awaits three reviews, and then verifies one fact of each group, binds   *)
(* it if it is bound to nothing, retires the others and merges the         *)
(* instances.                                                              *)
(*                                                                         *)
(* The review backend is the one the kernel uses: it suggests nothing.     *)
(* What a statement says stands for the predicate, value, object and text  *)
(* that toFactKey compares.  Left out are imported summary support, which  *)
(* no run verifies; a confidence from 0.75 to 0.8, where the semantic      *)
(* compiler decides; facts promoted as verified; and instances of another  *)
(* name, which an object that names none of this name may resolve to.      *)
(* Runs do not overlap (CONCURRENT_ACCESS.md:8); statements and deletions  *)
(* come in between.  The window of a run is the default one: everything so *)
(* far, of all projects.                                                   *)
(***************************************************************************)
EXTENDS Naturals, Sequences, FiniteSets, FiniteSetsExt

CONSTANTS StatementProjects, NoProjectId,
          Statements,     \* what it says, its confidence in percent, and how
                          \* good the evidence of its episode is
          Purchases,      \* those of them that make a new instance
          FactLimit,      \* facts a run reads at most
          MaxStatements, MaxOfflineRuns

ASSUME OfflineAssumption ==
  /\ \A s \in Statements : /\ s.conf \in (0..74) \cup (80..99)
                            /\ s.evidence \in 0..4
  /\ Purchases \subseteq Statements
  /\ \A s \in Purchases : s.conf >= 80
  /\ FactLimit \in Nat \ {0}
  /\ MaxStatements \in Nat
  /\ MaxOfflineRuns \in Nat

VARIABLES instances,   \* rows of entity_instances, in creation order
          sameAs,      \* relations <<duplicate, primary>>
          facts,       \* rows of facts, in the order of valid_from
          offline,     \* the run in progress
          clock, offlineRuns

offlineVars == <<instances, sameAs, facts, offline, clock, offlineRuns>>

NoRunYet == [phase |-> "idle"]
Instances == DOMAIN instances
Stated == DOMAIN facts

\* ORDER BY updated_at DESC, created_at DESC
Fresher(i, j) == \/ instances[i].updated > instances[j].updated
                 \/ instances[i].updated = instances[j].updated /\ i > j

Freshest(S) == CHOOSE i \in S : \A j \in S \ {i} : Fresher(i, j)

\* findExistingInstance in its default mode: the freshest of the project, or
\* of any if the statement has no project.  Archived rows are not left out.
Existing(p) == {i \in Instances : p = NoProjectId \/ instances[i].project = p}

\* upsertEntity and the mention after it: who is named, and the rows then.
Named(p, purchase) ==
  LET found == IF purchase THEN {} ELSE Existing(p)
  IN  IF found = {} THEN Len(instances) + 1 ELSE Freshest(found)

Upserted(p, who, at) ==
  IF who \notin Instances
  THEN Append(instances, [project |-> p, active |-> TRUE, updated |-> at])
  ELSE [instances EXCEPT ![who].updated = at, ![who].project = p]

\* insertFacts: a purchase is recorded as verified.
Inserted(p, who, s) ==
  Append(facts, [project |-> p, of |-> who, said |-> s, entity |-> who, conf |-> s.conf, by |-> 0,
                 status |-> IF s \in Purchases THEN "verified" ELSE "provisional"])

\* A statement is compiled, synchronously.  It names its instance.
State(p, s) ==
  LET who == Named(p, s \in Purchases)
  IN  /\ Len(facts) < MaxStatements
      /\ instances' = Upserted(p, who, clock + 1)
      /\ facts' = Inserted(p, who, s)
      /\ clock' = clock + 1
      /\ UNCHANGED <<sameAs, offline, offlineRuns>>

\* It refers to an instance, whichever that is taken for, or to none that is
\* known; a correction, a preference, an issue, or what a model has found.  It
\* may count as a mention of the instance.
StateOf(p, who, s) ==
  /\ Len(facts) < MaxStatements
  /\ facts' = Inserted(p, who, s)
  /\ \/ instances' = instances
     \/ who # 0 /\ instances' = [instances EXCEPT ![who].updated = clock + 1]
  /\ clock' = clock + 1
  /\ UNCHANGED <<sameAs, offline, offlineRuns>>

\* listFactsByTimeRange without its limit.
Readable == {f \in Stated : facts[f].status \in {"provisional", "verified"}}

\* consolidate up to the first await: the newest facts, every instance.
StartOffline ==
  /\ offline.phase = "idle"
  /\ offlineRuns < MaxOfflineRuns
  /\ offline' = [phase |-> "reviewing",
                 facts |-> {f \in Readable : Cardinality({g \in Readable : g > f}) < FactLimit},
                 seen  |-> facts,
                 order |-> instances]
  /\ offlineRuns' = offlineRuns + 1
  /\ UNCHANGED <<instances, sameAs, facts, clock>>

\* By evidence, by confidence, then the newest.
Better(f, g) ==
  LET was == offline.seen
  IN  \/ was[f].said.evidence > was[g].said.evidence
      \/ /\ was[f].said.evidence = was[g].said.evidence
         /\ \/ was[f].conf > was[g].conf
            \/ was[f].conf = was[g].conf /\ f > g

\* The facts of one instance, or of none, that say the same.
Group(f) ==
  LET was == offline.seen
  IN  {g \in offline.facts : /\ was[g].entity = was[f].entity
                             /\ was[g].said.says = was[f].said.says}

\* A mutant: the newest but one, so that two facts replace each other.
WinnerOther(f) == CHOOSE g \in Group(f) : Cardinality(Group(f)) > 1 => g # f

Winner(f) == CHOOSE g \in Group(f) : \A h \in Group(f) \ {g} : Better(g, h)

Corroborated(f) == Cardinality(Group(f)) > 1

\* A mutant: the confidence is not asked.
VerifiedAnyway(f) == TRUE

\* shouldVerifyFact
Verified(f) == \/ offline.seen[f].status = "verified"
               \/ offline.seen[f].conf >= 80
               \/ Corroborated(f)

\* The first of the instances as they were read.
PrimaryInstance ==
  LET was == offline.order
  IN  CHOOSE i \in DOMAIN was :
        \A j \in DOMAIN was \ {i} : \/ was[i].updated > was[j].updated
                                    \/ was[i].updated = was[j].updated /\ i > j

Duplicates == IF Len(offline.order) > 1 THEN DOMAIN offline.order \ {PrimaryInstance} ELSE {}

\* The winners that are bound to nothing: what the object of each resolves to is
\* an instance, archived or not, or nothing (0).
Unbound == {f \in offline.facts : Winner(f) = f /\ offline.seen[f].entity = 0}

Resolutions == [Unbound -> Instances \cup {0}]

Resolved(f, to) == f \in Unbound /\ to[f] # 0

\* What a fact is bound to before the merge.
BoundTo(f, to) == IF f \in Unbound THEN to[f] ELSE offline.seen[f].entity

Raised(conf, least, when) == IF when THEN Max({conf, least}) ELSE conf

\* bindFactEntity raises the confidence, a verification does, and so does the
\* merge of the instance the fact is bound to by then.
ConfidenceAfter(f, to) ==
  LET bound    == Raised(facts[f].conf, 82, Resolved(f, to))
      verified == Raised(bound, IF Corroborated(f) THEN 91 ELSE 86,
                         Winner(f) = f /\ Verified(f))
  IN  Raised(verified, 84, BoundTo(f, to) \in Duplicates)

\* The others of a group are archived; if the winner was bound just before, its
\* key is another by now and they are rejected.
StatusAfter(f, to) ==
  CASE Winner(f) # f -> IF Resolved(Winner(f), to) THEN "rejected" ELSE "archived"
    [] Winner(f) = f /\ Verified(f) -> "verified"
    [] OTHER -> facts[f].status

\* What the run makes of a fact it has read; a row deleted meanwhile is gone.
FactAfter(f, to) ==
  IF f \notin offline.facts \/ facts[f].status = "forgotten" THEN facts[f]
  ELSE [facts[f] EXCEPT
          !.status = StatusAfter(f, to),
          !.by     = IF Winner(f) = f THEN @ ELSE Winner(f),
          !.entity = IF BoundTo(f, to) \in Duplicates THEN PrimaryInstance ELSE BoundTo(f, to),
          !.conf   = ConfidenceAfter(f, to)]

\* archiveEntity stamps the present time.
Archived(i) == [instances[i] EXCEPT !.active = FALSE, !.updated = clock + 1]

\* addRelation
Relations == {<<i, PrimaryInstance>> : i \in Duplicates}

\* The run after the reviews.
FinishOffline ==
  /\ offline.phase = "reviewing"
  /\ \E to \in Resolutions : facts' = [f \in Stated |-> FactAfter(f, to)]
  /\ instances' = [i \in Instances |-> IF i \in Duplicates THEN Archived(i) ELSE instances[i]]
  /\ sameAs' = sameAs \cup Relations
  /\ clock' = clock + 1
  /\ offline' = NoRunYet
  /\ UNCHANGED offlineRuns

\* forgetUser deletes the facts of the project's neurons, and no entity.
ForgetFacts(p) ==
  /\ \E f \in Stated : facts[f].project = p /\ facts[f].status # "forgotten"
  /\ facts' = [f \in Stated |-> IF facts[f].project = p
                                THEN [facts[f] EXCEPT !.status = "forgotten"] ELSE facts[f]]
  /\ UNCHANGED <<instances, sameAs, offline, clock, offlineRuns>>

OfflineInit ==
  /\ instances = <<>>
  /\ sameAs = {}
  /\ facts = <<>>
  /\ offline = NoRunYet
  /\ clock = 0
  /\ offlineRuns = 0

OfflineNext ==
  \/ \E p \in StatementProjects \cup {NoProjectId} :
       \/ \E s \in Statements : State(p, s)
       \/ \E who \in Instances \cup {0}, s \in Statements \ Purchases : StateOf(p, who, s)
  \/ StartOffline
  \/ FinishOffline
  \/ \E p \in StatementProjects : ForgetFacts(p)

OfflineSpec == OfflineInit /\ [][OfflineNext]_offlineVars

----------------------------------------------------------------------------

\* The variables have their types.
OfflineTypeOK ==
  /\ instances \in Seq([project : StatementProjects \cup {NoProjectId}, active : BOOLEAN,
                        updated : 1..clock])
  /\ sameAs \subseteq Instances \X Instances
  /\ facts \in Seq([project : StatementProjects \cup {NoProjectId},
                    of : Instances \cup {0}, entity : Instances \cup {0},
                    said : Statements, conf : 0..99,
                    status : {"provisional", "verified", "archived", "rejected", "forgotten"},
                    by : 0..MaxStatements])
  /\ offline.phase \in {"idle", "reviewing"}
  /\ offlineRuns \in 0..MaxOfflineRuns

Retired == {f \in Stated : facts[f].status \in {"archived", "rejected"}}

\* What was said stays answered: of any facts that were archived or rejected one
\* was replaced by a fact that is not among them.  So the statements, the runs
\* and the deletions in between never form a circle, and the successors of a
\* retired fact end at one that is in use, unless that one was deleted on
\* request.  A merged instance is related to one it went into, where its facts
\* are now.
StaysAnswered ==
  /\ \A S \in SUBSET Retired : S # {} => \E f \in S : facts[f].by \in Stated \ S
  /\ \A i \in Instances :
       ~ instances[i].active => \E j \in Instances : <<i, j>> \in sameAs

\* What a fact may be verified on: its own word; another fact that went into it
\* or was deleted during a review; a merge of the instance it was said of, which
\* lifts the confidence of what it moves to 0.84; or that it was said of no
\* known instance and a run has bound it to one, which lifts it to 0.82.
Ground(f) ==
  \/ facts[f].said.conf >= 80
  \/ \E g \in Stated \ {f} : facts[g].by = f \/ facts[g].status = "forgotten"
  \/ \E i \in Instances : <<facts[f].of, i>> \in sameAs
  \/ facts[f].of = 0 /\ facts[f].entity # 0

\* A fact is not verified on its own weak word: neither a repetition of the runs
\* nor a statement or a deletion during their reviews lifts it.
Grounded == \A f \in Stated : facts[f].status = "verified" => Ground(f)

\* "resolve ... same-name duplicates" (OfflineConsolidationPipeline.ts:145):
\* of the instances of a name one stays active.
OneInstanceKept == Instances # {} => \E i \in Instances : instances[i].active
====
