---- MODULE ReEmbedding ----
(***************************************************************************)
(* Embedding rows of a project's neurons                                   *)
(* (src/src/embedding/NeuronEmbeddingStore.ts), the background embedding   *)
(* that follows an ingestion (src/src/factory.ts queueEmbedding), the      *)
(* pipeline that replaces the rows of an earlier model                     *)
(* (src/src/embedding/ReEmbeddingPipeline.ts) and forgetUser.              *)
(*                                                                         *)
(* The pipeline awaits the provider once per batch.  Between two awaits a  *)
(* run goes through its loop without a pause, batches of deleted neurons   *)
(* included: it is then in phase "next" and nothing else moves.  Nothing   *)
(* stops two runs from overlapping.  A row is a neuron and whether the     *)
(* model of the row is the current one; neurons are ordered as their ids.  *)
(***************************************************************************)
EXTENDS Naturals, FiniteSets, FiniteSetsExt

CONSTANTS NeuronCount, Runners,
          EmbedBatch,                 \* batchSize
          MaxForgets, MaxRestarts

ASSUME ReEmbeddingAssumption ==
  /\ NeuronCount \in Nat
  /\ EmbedBatch \in Nat \ {0}
  /\ MaxForgets \in Nat
  /\ MaxRestarts \in Nat

VARIABLES stored,     \* of a neuron: "absent", "live" or "deleted"
          embedded,   \* rows of neuron_embeddings
          queued,     \* neurons whose background embedding is in flight
          progress,   \* re_embedding_progress; 0: no row
          passes,     \* the run each runner is in
          caught,     \* history: neurons deleted with an embedding by the current
                      \* model in flight
          forgets, restarts

embeddingVars == <<stored, embedded, queued, progress, passes, caught, forgets, restarts>>

NeuronIds == 1..NeuronCount
NoPass == [phase |-> "idle"]
NextBatch(from) == [phase |-> "next", cursor |-> from]

Pausing == \A r \in Runners : passes[r].phase # "next"

Stale == {i \in NeuronIds : <<i, "old">> \in embedded}

InFlight == queued \cup UNION {passes[r].batch : r \in {r \in Runners : passes[r].phase = "waiting"}}

\* ingest: the neuron, then its embedding in the background.
IngestNeuron(i) ==
  /\ Pausing
  /\ stored[i] = "absent"
  /\ stored' = [stored EXCEPT ![i] = "live"]
  /\ queued' = queued \cup {i}
  /\ UNCHANGED <<embedded, progress, passes, caught, forgets, restarts>>

\* queueEmbedding settles; a neuron deleted since is not looked up again.
BackgroundSettles(i) ==
  /\ Pausing
  /\ i \in queued
  /\ queued' = queued \ {i}
  /\ embedded' \in {embedded, embedded \cup {<<i, "new">>}}
  /\ UNCHANGED <<stored, progress, passes, caught, forgets, restarts>>

\* run, up to its loop.
StartPass(r) ==
  /\ Pausing
  /\ passes[r].phase = "idle"
  /\ IF Stale = {}
     THEN progress' = 0 /\ UNCHANGED passes
     ELSE passes' = [passes EXCEPT ![r] = NextBatch(progress)] /\ UNCHANGED progress
  /\ UNCHANGED <<stored, embedded, queued, caught, forgets, restarts>>

\* listStaleNeuronIds
StaleAfter(from) ==
  LET rest == {i \in Stale : i > from}
  IN  {i \in rest : Cardinality({j \in rest : j < i}) < EmbedBatch}

\* A mutant: the cursor of a finished pass stays behind.
ClearNothing == progress

\* clearProgress
Cleared == 0

\* Nothing is left after the cursor.
EndPass(r) ==
  /\ passes[r].phase = "next"
  /\ StaleAfter(passes[r].cursor) = {}
  /\ progress' = Cleared
  /\ passes' = [passes EXCEPT ![r] = NoPass]
  /\ UNCHANGED <<stored, embedded, queued, caught, forgets, restarts>>

\* A mutant: deleted neurons are embedded with the others.
AnyOf(batch) == batch

LiveOf(batch) == {i \in batch : stored[i] = "live"}

RowsOf(S) == S \X {"old", "new"}

\* The loop, or the end of the budget.
GoesOn(r, from) == passes' \in {[passes EXCEPT ![r] = p] : p \in {NextBatch(from), NoPass}}

\* The next batch: rows of deleted neurons are dropped; if a neuron is left,
\* the provider is asked, otherwise the loop goes on.
TakeBatch(r) ==
  LET batch == StaleAfter(passes[r].cursor)
      live  == LiveOf(batch)
  IN  /\ passes[r].phase = "next"
      /\ batch # {}
      /\ embedded' = embedded \ RowsOf(batch \ live)
      /\ IF live = {}
         THEN /\ progress' = Max(batch)
              /\ GoesOn(r, Max(batch))
         ELSE /\ passes' = [passes EXCEPT ![r] = [phase |-> "waiting", batch |-> live,
                                                  last |-> Max(batch)]]
              /\ UNCHANGED progress
      /\ UNCHANGED <<stored, queued, caught, forgets, restarts>>

\* A mutant: the stale rows of the whole batch go, answered or not.
ReplacedAll(r, given) ==
  (embedded \cup (given \X {"new"})) \ (passes[r].batch \X {"old"})

\* upsert and deleteStaleEmbeddingsForNeuron for each vector received.
Replaced(r, given) == (embedded \cup (given \X {"new"})) \ (given \X {"old"})

\* embedBatch answers; a vector may be missing.
BatchAnswered(r, given) ==
  /\ Pausing
  /\ passes[r].phase = "waiting"
  /\ given \subseteq passes[r].batch
  /\ embedded' = Replaced(r, given)
  /\ progress' = passes[r].last
  /\ GoesOn(r, passes[r].last)
  /\ UNCHANGED <<stored, queued, caught, forgets, restarts>>

\* A vector has the wrong size: what came before it is kept, the cursor not.
\* Or the provider rejects, and nothing was kept.
BatchFails(r) ==
  /\ Pausing
  /\ passes[r].phase = "waiting"
  /\ \E i \in passes[r].batch : \E given \in SUBSET {j \in passes[r].batch : j < i} :
       embedded' = Replaced(r, given)
  /\ passes' = [passes EXCEPT ![r] = NoPass]
  /\ UNCHANGED <<stored, queued, progress, caught, forgets, restarts>>

\* forgetUser
ForgetNeurons ==
  LET mine == {i \in NeuronIds : stored[i] = "live"}
  IN  /\ Pausing
      /\ forgets < MaxForgets
      /\ stored' = [i \in NeuronIds |-> IF i \in mine THEN "deleted" ELSE stored[i]]
      /\ embedded' = embedded \ RowsOf(mine)
      /\ caught' = caught \cup (mine \cap InFlight)
      /\ forgets' = forgets + 1
      /\ UNCHANGED <<queued, progress, passes, restarts>>

\* The process ends and starts again, with the same model or another one,
\* which has its own progress row.
Restart ==
  /\ restarts < MaxRestarts
  /\ restarts' = restarts + 1
  /\ queued' = {}
  /\ passes' = [r \in Runners |-> NoPass]
  /\ \/ UNCHANGED <<embedded, progress, caught>>
     \/ /\ embedded' = {<<row[1], "old">> : row \in embedded}
        /\ progress' = 0
        /\ caught' = {}
  /\ UNCHANGED <<stored, forgets>>

\* A kernel opened with a new model over the rows of another one.
EmbeddingInit ==
  /\ stored \in [NeuronIds -> {"absent", "live"}]
  /\ embedded = {i \in NeuronIds : stored[i] = "live"} \X {"old"}
  /\ queued = {}
  /\ progress = 0
  /\ passes = [r \in Runners |-> NoPass]
  /\ caught = {}
  /\ forgets = 0
  /\ restarts = 0

EmbeddingNext ==
  \/ \E i \in NeuronIds : IngestNeuron(i) \/ BackgroundSettles(i)
  \/ \E r \in Runners : \/ StartPass(r)
                        \/ EndPass(r)
                        \/ TakeBatch(r)
                        \/ \E given \in SUBSET NeuronIds : BatchAnswered(r, given)
                        \/ BatchFails(r)
  \/ ForgetNeurons
  \/ Restart

EmbeddingSpec == EmbeddingInit /\ [][EmbeddingNext]_embeddingVars

AnsweredInFull(r) == passes[r].phase = "waiting" /\ BatchAnswered(r, passes[r].batch)

\* The host runs the pipeline again and again, and the provider, asked again
\* and again, answers a batch in full.
EmbeddingFairness ==
  \A r \in Runners :
    /\ WF_embeddingVars(StartPass(r) \/ EndPass(r) \/ TakeBatch(r))
    /\ SF_embeddingVars(AnsweredInFull(r))

----------------------------------------------------------------------------

\* The variables have their types; the provider is asked for a batch of the
\* configured size, and never for none.
EmbeddingTypeOK ==
  /\ stored \in [NeuronIds -> {"absent", "live", "deleted"}]
  /\ embedded \subseteq NeuronIds \X {"old", "new"}
  /\ queued \subseteq NeuronIds
  /\ progress \in 0..NeuronCount
  /\ \A r \in Runners :
       \/ passes[r] = NoPass
       \/ passes[r].phase = "next" /\ passes[r].cursor \in 0..NeuronCount
       \/ /\ passes[r].phase = "waiting"
          /\ passes[r].batch \subseteq 1..passes[r].last
          /\ Cardinality(passes[r].batch) \in 1..EmbedBatch
  /\ caught \subseteq NeuronIds

\* A deleted neuron has a row of the current model only if an answer for it was
\* in flight when it was deleted.  Such a row is not embedded again under the
\* next model: the pipeline drops it.
NoneRevived ==
  \A i \in NeuronIds : <<i, "new">> \in embedded /\ stored[i] = "deleted" => i \in caught

\* Whatever the provider returns or leaves out, and whoever else is at work, a
\* neuron that has an embedding row keeps one for as long as it lives.
KeepsEmbedding ==
  [][\A i \in NeuronIds :
       stored'[i] = "live" /\ RowsOf({i}) \cap embedded # {}
         => RowsOf({i}) \cap embedded' # {}]_embeddingVars

\* In the end no row of an earlier model is left.
Converges == <>[](Stale = {})
====
