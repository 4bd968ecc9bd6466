---------------------------- MODULE NeuronProofs ----------------------------
(***************************************************************************)
(* Theorems about ReEmbedding and NeuronMemory, the two components that    *)
(* keep what belongs to a neuron, for every value of their constants.      *)
(*                                                                         *)
(* ReEmbedding.  NoneRevived speaks of rows; what makes it inductive is    *)
(* that every answer in flight for a neuron deleted meanwhile was counted  *)
(* as caught when the neuron was deleted (CaughtInFlight).                 *)
(*                                                                         *)
(* NeuronMemory.  The three bounds of the rows are not inductive: between  *)
(* the probe of an ingestion and its insert nothing in the store says that *)
(* a copy is on its way.  The invariant therefore counts the ingestions    *)
(* that have probed together with the rows they will add, and says what    *)
(* each has seen of the store it will write to.                            *)
(***************************************************************************)
EXTENDS NeuronMemory, ReEmbedding, SetLemmas

-----------------------------------------------------------------------------
(* Re-embedding: types. *)

PassRecord ==
  {NoPass} \cup [phase : {"next"}, cursor : 0..NeuronCount]
           \cup [phase : {"waiting"}, batch : SUBSET NeuronIds, last : 0..NeuronCount]

\* A run that waits was given a batch of the configured size.
BatchSized(p) ==
  p.phase = "waiting" => p.batch \subseteq 1..p.last /\ Cardinality(p.batch) \in 1..EmbedBatch

PassTypes == /\ passes \in [Runners -> PassRecord]
             /\ \A r \in Runners : BatchSized(passes[r])

RowTypes ==
  /\ stored \in [NeuronIds -> {"absent", "live", "deleted"}]
  /\ embedded \subseteq NeuronIds \X {"old", "new"}
  /\ queued \subseteq NeuronIds
  /\ progress \in 0..NeuronCount
  /\ caught \subseteq NeuronIds

CaughtInFlight ==
  /\ \A i \in queued : stored[i] = "deleted" => i \in caught
  /\ \A r \in Runners : passes[r].phase = "waiting" =>
       \A i \in passes[r].batch : stored[i] = "deleted" => i \in caught

EInv == PassTypes /\ RowTypes /\ CaughtInFlight /\ NoneRevived

LEMMA TypesOfEInv == PassTypes /\ RowTypes => EmbeddingTypeOK
<1> SUFFICES ASSUME PassTypes, RowTypes, NEW r \in Runners
             PROVE  \/ passes[r] = NoPass
                    \/ passes[r].phase = "next" /\ passes[r].cursor \in 0..NeuronCount
                    \/ /\ passes[r].phase = "waiting"
                       /\ passes[r].batch \subseteq 1..passes[r].last
                       /\ Cardinality(passes[r].batch) \in 1..EmbedBatch
  BY DEF EmbeddingTypeOK, RowTypes
<1> QED BY DEF PassTypes, PassRecord, BatchSized

\* A batch read from the table is a set of neurons of at most the batch size.
LEMMA StaleBatch ==
  ASSUME RowTypes, NEW from \in 0..NeuronCount
  PROVE  /\ StaleAfter(from) \subseteq NeuronIds
         /\ IsFiniteSet(StaleAfter(from)) /\ Cardinality(StaleAfter(from)) <= EmbedBatch
         /\ Cardinality(StaleAfter(from)) \in Nat
<1> DEFINE rest == {i \in Stale : i > from}
<1>1. rest \subseteq NeuronIds /\ IsFiniteSet(NeuronIds) /\ rest \in SUBSET Int
  BY ReEmbeddingAssumption, FS_Interval DEF Stale, NeuronIds
<1>2. IsFiniteSet(rest)
  BY <1>1, FS_Subset
<1>3. StaleAfter(from) = {i \in rest : Cardinality({j \in rest : j < i}) < EmbedBatch}
  BY DEF StaleAfter
<1> HIDE DEF rest
<1>4. StaleAfter(from) \in SUBSET rest
  BY <1>3
<1>5. Cardinality(StaleAfter(from)) <= EmbedBatch
  BY <1>1, <1>2, <1>3, LimitBounds, ReEmbeddingAssumption
<1> QED BY <1>1, <1>2, <1>4, <1>5, FS_Subset, FS_CardinalityType

\* Replacing the record of one run.
LEMMA PassReplaced ==
  ASSUME PassTypes, NEW r \in Runners, NEW p \in PassRecord, BatchSized(p),
         passes' = [passes EXCEPT ![r] = p]
  PROVE  PassTypes'
BY DEF PassTypes, BatchSized

\* The rows after an answer.
LEMMA ReplacedRows ==
  ASSUME RowTypes, NEW r, NEW given, given \subseteq NeuronIds
  PROVE  /\ Replaced(r, given) \subseteq NeuronIds \X {"old", "new"}
         /\ \A i \in NeuronIds : <<i, "new">> \in Replaced(r, given)
              => <<i, "new">> \in embedded \/ i \in given
BY DEF RowTypes, Replaced

-----------------------------------------------------------------------------
(* Re-embedding: steps. *)

\* After an answer for a batch in flight, whole or cut short.
LEMMA AnswerRows ==
  ASSUME EInv, NEW r \in Runners, passes[r].phase = "waiting",
         NEW given \in SUBSET passes[r].batch,
         embedded' = Replaced(r, given), UNCHANGED <<stored, caught>>
  PROVE  embedded' \subseteq NeuronIds \X {"old", "new"} /\ NoneRevived'
<1>1. given \subseteq NeuronIds
  BY DEF EInv, PassTypes, PassRecord, NoPass
<1>2. \A i \in given : stored[i] = "deleted" => i \in caught
  BY DEF EInv, CaughtInFlight
<1> QED BY <1>1, <1>2, ReplacedRows DEF EInv, NoneRevived

LEMMA EmbeddingStep ==
  ASSUME EInv, [EmbeddingNext]_embeddingVars
  PROVE  EInv'
<1>1. ASSUME NEW i \in NeuronIds, IngestNeuron(i) PROVE EInv'
  BY <1>1 DEF IngestNeuron, EInv, PassTypes, RowTypes, CaughtInFlight, NoneRevived
<1>2. ASSUME NEW i \in NeuronIds, BackgroundSettles(i) PROVE EInv'
  BY <1>2 DEF BackgroundSettles, EInv, PassTypes, RowTypes, CaughtInFlight, NoneRevived
<1>3. ASSUME NEW r \in Runners, StartPass(r) PROVE EInv'
  <2>1. UNCHANGED <<stored, embedded, queued, caught>> /\ progress' \in 0..NeuronCount
    BY <1>3, ReEmbeddingAssumption DEF StartPass, EInv, RowTypes
  <2>2. PICK p \in {passes[r], NextBatch(progress)} : passes' = [passes EXCEPT ![r] = p]
    BY <1>3 DEF StartPass, EInv, PassTypes
  <2>3. p \in PassRecord /\ BatchSized(p) /\ (p.phase = "waiting" => p = passes[r])
    BY <2>2 DEF EInv, PassTypes, RowTypes, PassRecord, NextBatch, BatchSized
  <2>4. PassTypes'
    BY <2>2, <2>3, PassReplaced DEF EInv
  <2>5. CaughtInFlight'
    BY <2>1, <2>2, <2>3 DEF EInv, PassTypes, CaughtInFlight
  <2> QED BY <2>1, <2>4, <2>5 DEF EInv, RowTypes, NoneRevived
<1>4. ASSUME NEW r \in Runners, EndPass(r) PROVE EInv'
  <2>1. NoPass \in PassRecord /\ BatchSized(NoPass) /\ NoPass.phase # "waiting"
    BY DEF NoPass, PassRecord, BatchSized
  <2>2. PassTypes'
    BY <1>4, <2>1, PassReplaced DEF EndPass, EInv
  <2>3. CaughtInFlight'
    BY <1>4, <2>1 DEF EndPass, EInv, PassTypes, CaughtInFlight
  <2> QED BY <1>4, <2>2, <2>3, ReEmbeddingAssumption DEF EndPass, EInv, RowTypes, NoneRevived, Cleared
<1>5. ASSUME NEW r \in Runners, TakeBatch(r) PROVE EInv'
  <2> DEFINE batch == StaleAfter(passes[r].cursor)
             live == LiveOf(batch)
  <2>1. passes[r].cursor \in 0..NeuronCount
    BY <1>5 DEF TakeBatch, EInv, PassTypes, PassRecord, NoPass
  <2>2. batch \subseteq NeuronIds /\ IsFiniteSet(batch) /\ Cardinality(batch) <= EmbedBatch
        /\ Cardinality(batch) \in Nat /\ batch # {}
    BY <1>5, <2>1, StaleBatch DEF TakeBatch, EInv
  <2>3. Max(batch) \in batch /\ \A i \in batch : i <= Max(batch)
    <3>1. batch \in SUBSET Int
      BY <2>2, ReEmbeddingAssumption DEF NeuronIds
    <3> HIDE DEF batch
    <3> QED BY <2>2, <3>1, MaxOfFinite
  <2>4. Max(batch) \in 0..NeuronCount /\ batch \subseteq 1..Max(batch)
    <3>1. Max(batch) \in 1..NeuronCount /\ \A i \in batch : i \in 1..NeuronCount /\ i <= Max(batch)
      BY <2>2, <2>3 DEF NeuronIds
    <3> HIDE DEF batch, live
    <3>2. NeuronCount \in Nat
      BY ReEmbeddingAssumption
    <3>3. \A i \in batch : i \in 1..Max(batch)
      BY <3>1, <3>2
    <3> QED BY <3>1, <3>2, <3>3
  <2>5. /\ UNCHANGED <<stored, queued, caught>>
        /\ embedded' = embedded \ RowsOf(batch \ live)
        /\ \/ /\ live = {} /\ progress' = Max(batch)
              /\ passes' \in {[passes EXCEPT ![r] = p] : p \in {NextBatch(Max(batch)), NoPass}}
           \/ /\ live # {} /\ UNCHANGED progress
              /\ passes' = [passes EXCEPT ![r] =
                              [phase |-> "waiting", batch |-> live, last |-> Max(batch)]]
    BY <1>5 DEF TakeBatch, GoesOn
  <2>6. live \in SUBSET batch /\ \A i \in live : stored[i] = "live"
    BY DEF LiveOf
  <2>7. live # {} => Cardinality(live) \in 1..EmbedBatch
    <3> HIDE DEF batch, live
    <3>1. IsFiniteSet(live) /\ Cardinality(live) <= Cardinality(batch) /\ Cardinality(live) \in Nat
      BY <2>2, <2>6, FS_Subset, FS_CardinalityType
    <3>2. live # {} => Cardinality(live) # 0
      BY <3>1, FS_EmptySet
    <3> QED BY <2>2, <3>1, <3>2, ReEmbeddingAssumption
  <2> HIDE DEF batch, live
  <2>8. PICK p \in PassRecord :
          /\ BatchSized(p)
          /\ passes' = [passes EXCEPT ![r] = p]
          /\ p.phase = "waiting" => \A i \in p.batch : stored[i] = "live"
    <3>1. CASE live = {}
      <4>1. PICK p \in {NextBatch(Max(batch)), NoPass} : passes' = [passes EXCEPT ![r] = p]
        BY <2>5, <3>1
      <4>2. p \in PassRecord /\ p.phase # "waiting"
        BY <2>4 DEF PassRecord, NextBatch, NoPass
      <4> QED BY <4>1, <4>2 DEF BatchSized
    <3>2. CASE live # {}
      <4> DEFINE w == [phase |-> "waiting", batch |-> live, last |-> Max(batch)]
      <4>1. w \in PassRecord /\ BatchSized(w)
        BY <2>2, <2>4, <2>6, <2>7, <3>2 DEF PassRecord, BatchSized
      <4> QED BY <2>5, <2>6, <3>2, <4>1
    <3> QED BY <3>1, <3>2
  <2>9. PassTypes'
    BY <2>8, PassReplaced DEF EInv
  <2>10. CaughtInFlight'
    BY <2>5, <2>8 DEF EInv, PassTypes, CaughtInFlight
  <2>11. RowTypes'
    BY <2>4, <2>5 DEF EInv, RowTypes
  <2>12. NoneRevived'
    BY <2>5 DEF EInv, NoneRevived
  <2> QED BY <2>9, <2>10, <2>11, <2>12 DEF EInv
<1>6. ASSUME NEW r \in Runners, NEW given \in SUBSET NeuronIds, BatchAnswered(r, given) PROVE EInv'
  <2>1. /\ passes[r].phase = "waiting" /\ given \in SUBSET passes[r].batch
        /\ embedded' = Replaced(r, given) /\ progress' = passes[r].last
        /\ UNCHANGED <<stored, queued, caught>>
    BY <1>6 DEF BatchAnswered
  <2>2. PICK p \in {NextBatch(passes[r].last), NoPass} : passes' = [passes EXCEPT ![r] = p]
    BY <1>6 DEF BatchAnswered, GoesOn
  <2>3. passes[r].last \in 0..NeuronCount
    BY <2>1 DEF EInv, PassTypes, PassRecord, NoPass
  <2>4. p \in PassRecord /\ BatchSized(p) /\ p.phase # "waiting"
    BY <2>2, <2>3 DEF PassRecord, NextBatch, BatchSized, NoPass
  <2>5. PassTypes'
    BY <2>2, <2>4, PassReplaced DEF EInv
  <2>6. CaughtInFlight'
    BY <2>1, <2>2, <2>4 DEF EInv, PassTypes, CaughtInFlight
  <2>7. embedded' \subseteq NeuronIds \X {"old", "new"} /\ NoneRevived'
    BY <2>1, AnswerRows
  <2> QED BY <2>1, <2>3, <2>5, <2>6, <2>7 DEF EInv, RowTypes
<1>7. ASSUME NEW r \in Runners, BatchFails(r) PROVE EInv'
  <2>1. /\ passes[r].phase = "waiting"
        /\ passes' = [passes EXCEPT ![r] = NoPass]
        /\ UNCHANGED <<stored, queued, progress, caught>>
    BY <1>7 DEF BatchFails
  <2>2. PICK given \in SUBSET passes[r].batch : embedded' = Replaced(r, given)
    BY <1>7 DEF BatchFails
  <2>3. NoPass \in PassRecord /\ BatchSized(NoPass) /\ NoPass.phase # "waiting"
    BY DEF NoPass, PassRecord, BatchSized
  <2>4. PassTypes'
    BY <2>1, <2>3, PassReplaced DEF EInv
  <2>5. CaughtInFlight'
    BY <2>1, <2>3 DEF EInv, PassTypes, CaughtInFlight
  <2>6. embedded' \subseteq NeuronIds \X {"old", "new"} /\ NoneRevived'
    BY <2>1, <2>2, AnswerRows
  <2> QED BY <2>1, <2>4, <2>5, <2>6 DEF EInv, RowTypes
<1>8. ASSUME ForgetNeurons PROVE EInv'
  <2> DEFINE mine == {i \in NeuronIds : stored[i] = "live"}
  <2>1. /\ stored' = [i \in NeuronIds |-> IF i \in mine THEN "deleted" ELSE stored[i]]
        /\ embedded' = embedded \ RowsOf(mine)
        /\ caught' = caught \cup (mine \cap InFlight)
        /\ UNCHANGED <<queued, progress, passes>>
    BY <1>8 DEF ForgetNeurons
  <2>2. queued \subseteq InFlight
        /\ \A r \in Runners : passes[r].phase = "waiting" => passes[r].batch \subseteq InFlight
    BY DEF InFlight
  <2>3. \A r \in Runners : passes[r].phase = "waiting" => passes[r].batch \subseteq NeuronIds
    BY DEF EInv, PassTypes, PassRecord, NoPass
  <2>4. CaughtInFlight'
    BY <2>1, <2>2, <2>3 DEF EInv, RowTypes, CaughtInFlight
  <2>5. NoneRevived'
    BY <2>1 DEF EInv, RowTypes, NoneRevived, RowsOf
  <2> QED BY <2>1, <2>4, <2>5 DEF EInv, PassTypes, RowTypes
<1>9. ASSUME Restart PROVE EInv'
  <2>1. /\ queued' = {} /\ passes' = [r \in Runners |-> NoPass] /\ stored' = stored
        /\ \/ UNCHANGED <<embedded, progress, caught>>
           \/ /\ embedded' = {<<row[1], "old">> : row \in embedded}
              /\ progress' = 0 /\ caught' = {}
    BY <1>9 DEF Restart
  <2>2. PassTypes' /\ CaughtInFlight'
    BY <2>1 DEF PassTypes, PassRecord, BatchSized, NoPass, CaughtInFlight
  <2>3. RowTypes' /\ NoneRevived'
    BY <2>1, ReEmbeddingAssumption DEF EInv, RowTypes, NoneRevived
  <2> QED BY <2>2, <2>3 DEF EInv
<1>10. CASE UNCHANGED embeddingVars
  BY <1>10 DEF embeddingVars, EInv, PassTypes, RowTypes, CaughtInFlight, NoneRevived
<1> QED BY <1>1, <1>2, <1>3, <1>4, <1>5, <1>6, <1>7, <1>8, <1>9, <1>10 DEF EmbeddingNext

LEMMA EmbeddingStart == EmbeddingInit => EInv
<1> SUFFICES ASSUME EmbeddingInit PROVE EInv
  OBVIOUS
<1>1. PassTypes
  BY DEF EmbeddingInit, PassTypes, PassRecord, BatchSized, NoPass
<1>2. RowTypes /\ CaughtInFlight /\ NoneRevived
  BY ReEmbeddingAssumption DEF EmbeddingInit, RowTypes, CaughtInFlight, NoneRevived, NoPass
<1> QED BY <1>1, <1>2 DEF EInv

LEMMA EmbeddingInvariant == EmbeddingSpec => []EInv
BY EmbeddingStart, EmbeddingStep, PTL DEF EmbeddingSpec

\* The tables and the runs of the pipeline keep their types: in particular the
\* provider is asked for a batch of at most the configured size, never an empty
\* one, and the cursor never leaves the neurons.
THEOREM EmbeddingTypes == EmbeddingSpec => []EmbeddingTypeOK
<1>1. EInv => EmbeddingTypeOK
  BY TypesOfEInv DEF EInv
<1> QED BY <1>1, EmbeddingInvariant, PTL

\* A deleted neuron has a row of the current model only if an answer for it was
\* in flight at its deletion, with any number of overlapping runs and restarts.
THEOREM DeletedStayDeleted == EmbeddingSpec => []NoneRevived
<1>1. EInv => NoneRevived
  BY DEF EInv
<1> QED BY <1>1, EmbeddingInvariant, PTL

\* No step of the pipeline, of a background embedding, a deletion or a restart
\* leaves a living neuron that had an embedding row without one.
THEOREM EmbeddingsKept == EmbeddingSpec => KeepsEmbedding
<1> DEFINE Keeps == \A i \in NeuronIds : stored'[i] = "live" /\ RowsOf({i}) \cap embedded # {}
                                           => RowsOf({i}) \cap embedded' # {}
<1>1. EInv /\ [EmbeddingNext]_embeddingVars => [Keeps]_embeddingVars
  <2> SUFFICES ASSUME EInv, EmbeddingNext, NEW i \in NeuronIds, stored'[i] = "live",
                      RowsOf({i}) \cap embedded # {}
               PROVE  RowsOf({i}) \cap embedded' # {}
    BY DEF embeddingVars
  <2>1. PICK model \in {"old", "new"} : <<i, model>> \in embedded
    BY DEF RowsOf
  <2>2. SUFFICES <<i, "old">> \in embedded' \/ <<i, "new">> \in embedded'
    BY DEF RowsOf
  <2>3. ASSUME NEW r, NEW given, embedded' = Replaced(r, given)
        PROVE  <<i, "old">> \in embedded' \/ <<i, "new">> \in embedded'
    BY <2>1, <2>3 DEF Replaced
  <2>4. ASSUME NEW r \in Runners, TakeBatch(r)
        PROVE  <<i, "old">> \in embedded' \/ <<i, "new">> \in embedded'
    BY <2>1, <2>4 DEF TakeBatch, LiveOf, RowsOf
  <2>5. CASE ForgetNeurons
    BY <2>1, <2>5 DEF ForgetNeurons, RowsOf
  <2>6. CASE Restart
    <3>1. CASE embedded' = embedded
      BY <2>1, <3>1
    <3>2. CASE embedded' = {<<row[1], "old">> : row \in embedded}
      BY <2>1, <3>2
    <3> QED BY <2>6, <3>1, <3>2 DEF Restart
  <2>7. CASE UNCHANGED embedded
    BY <2>1, <2>7
  <2>8. ASSUME NEW j \in NeuronIds, BackgroundSettles(j)
        PROVE  <<i, "old">> \in embedded' \/ <<i, "new">> \in embedded'
    BY <2>1, <2>8 DEF BackgroundSettles
  <2> QED BY <2>3, <2>4, <2>5, <2>6, <2>7, <2>8
       DEF EmbeddingNext, IngestNeuron, StartPass, EndPass, BatchAnswered, BatchFails
<1> QED BY <1>1, EmbeddingInvariant, PTL DEF EmbeddingSpec, KeepsEmbedding
-----------------------------------------------------------------------------
(* Neurons: the inductive invariant. *)

TaskRecord ==
  {NoTask} \cup [phase : {"embedding", "summary"}, project : NeuronProjects \cup {NoProject},
                 text : Texts, prev : 0..MaxIngests, created : Dates]

Flying == {t \in Tasks : tasks[t].phase # "idle"}

\* Each row and each ingestion in flight was counted when it began.
Room == Len(neurons) + Cardinality(Flying) <= ingests

Nodes == Ids \cup {Genesis}

\* Predecessors are rows.
Rooted ==
  /\ \A i \in Ids : neurons[i].prev \in Nodes
  /\ \A t \in Flying : tasks[t].prev \in Nodes

LaterThan(h, date) == h # Genesis => neurons[h].created < date

Followers(p, h) == {i \in After(p, h) : ~ neurons[i].bare}
Chasing(p, h) ==
  {t \in Flying : tasks[t].project = p /\ tasks[t].prev = h /\ LaterThan(h, tasks[t].created)}

\* Those that read a predecessor before anything later followed it are counted in.
Forks ==
  \A p \in NeuronProjects, h \in Nodes :
    Cardinality(Followers(p, h)) + Cardinality(Chasing(p, h)) <= Cardinality(Tasks)

\* A distilled row is written where it reads its predecessor.
Twins ==
  \A p \in NeuronProjects, h \in Nodes : \A i, j \in After(p, h) :
    neurons[i].bare /\ neurons[j].bare => i = j

Copies(p, x) == {i \in vectors : neurons[i].project = p /\ neurons[i].text = x}
Passed(p, x) ==
  {t \in Tasks : tasks[t].phase = "summary" /\ tasks[t].project = p /\ tasks[t].text = x}

\* So are those that passed the check before the first copy was stored.
Repeats ==
  \A p \in NeuronProjects, x \in Texts :
    Cardinality(Copies(p, x)) + Cardinality(Passed(p, x)) <= Cardinality(Tasks)

\* No neuron with a vector is ever restored by a cycle: while it is pinned it
\* does not go to the archive, and pinning takes it out.
PinnedActive ==
  \A i \in Ids : neurons[i].pinned /\ Undeleted(i) /\ ~ neurons[i].bare
                   => neurons[i].status # "archived"

\* The index ought to hold the row.
Listed(i) == /\ Undeleted(i) /\ neurons[i].status # "archived"
             /\ ~ neurons[i].bare /\ ~ neurons[i].revived

Lost == {i \in Ids \ vectors : Listed(i)}

Indexed ==
  /\ \A i \in vectors : Undeleted(i) /\ neurons[i].status # "archived" /\ ~ neurons[i].bare
  /\ Cardinality(Lost) <= kernelCrashes

\* What speaks of the chain and what speaks of the index.
ChainInv == Room /\ Rooted /\ Forks /\ Twins
IndexInv == PinnedActive /\ Indexed /\ Repeats

NInv == NeuronTypeOK /\ tasks \in [Tasks -> TaskRecord] /\ ChainInv /\ IndexInv

\* What the chain and the index know a row by.
SameOrigin(row, old) ==
  /\ row.project = old.project /\ row.text = old.text
  /\ row.prev = old.prev /\ row.created = old.created /\ row.bare = old.bare

\* Rows rewritten in place keep what they were written with.
RowsKept ==
  /\ neurons' \in Seq(NeuronRow)
  /\ DOMAIN neurons' = DOMAIN neurons
  /\ \A i \in DOMAIN neurons : SameOrigin(neurons'[i], neurons[i])

\* No ingestion begins: each ends or goes on as it was.
NoneBegun ==
  /\ tasks' \in [Tasks -> TaskRecord]
  /\ \A t \in Tasks :
       tasks'[t].phase # "idle" =>
         /\ tasks[t].phase # "idle"
         /\ tasks'[t].project = tasks[t].project /\ tasks'[t].text = tasks[t].text
         /\ tasks'[t].prev = tasks[t].prev /\ tasks'[t].created = tasks[t].created

-----------------------------------------------------------------------------
(* Neurons: the state. *)

\* The rows are finitely many, numbered from one, and of their type.
LEMMA NeuronRows ==
  ASSUME NeuronTypeOK
  PROVE  /\ Len(neurons) \in Nat /\ Ids = 1..Len(neurons)
         /\ IsFiniteSet(Ids) /\ IsFiniteSet(vectors)
         /\ \A i \in Ids : i \in Nat \ {0} /\ neurons[i] \in NeuronRow
<1>1. neurons \in Seq(NeuronRow) /\ vectors \subseteq Ids
  BY DEF NeuronTypeOK
<1>2. /\ Len(neurons) \in Nat /\ Ids = 1..Len(neurons) /\ IsFiniteSet(Ids)
      /\ \A i \in Ids : i \in Nat \ {0} /\ neurons[i] \in NeuronRow
  BY <1>1, FinitePlaces DEF Ids
<1> QED BY <1>1, <1>2, FS_Subset

\* An ingestion in flight has a project, a text and a predecessor.
LEMMA FlyingTasks ==
  ASSUME tasks \in [Tasks -> TaskRecord]
  PROVE  /\ IsFiniteSet(Flying) /\ Cardinality(Flying) \in Nat
         /\ \A t \in Flying :
              /\ t \in Tasks
              /\ tasks[t].phase \in {"embedding", "summary"}
              /\ tasks[t].project \in NeuronProjects \cup {NoProject}
              /\ tasks[t].text \in Texts
              /\ tasks[t].prev \in 0..MaxIngests
              /\ tasks[t].created \in Dates
<1>1. IsFiniteSet(Tasks) /\ Flying \in SUBSET Tasks
  BY NeuronAssumption DEF Flying
<1>2. IsFiniteSet(Flying) /\ Cardinality(Flying) \in Nat
  BY <1>1, FS_Subset, FS_CardinalityType
<1>3. \A t \in Flying : tasks[t] # NoTask /\ tasks[t] \in TaskRecord /\ t \in Tasks
  BY DEF Flying, NoTask
<1> QED BY <1>2, <1>3 DEF TaskRecord

\* The sets that are counted are finite.
LEMMA CountedSets ==
  ASSUME NeuronTypeOK, tasks \in [Tasks -> TaskRecord], NEW p, NEW x
  PROVE  /\ IsFiniteSet(Followers(p, x)) /\ Cardinality(Followers(p, x)) \in Nat
         /\ IsFiniteSet(Chasing(p, x)) /\ Cardinality(Chasing(p, x)) \in Nat
         /\ IsFiniteSet(Copies(p, x)) /\ Cardinality(Copies(p, x)) \in Nat
         /\ IsFiniteSet(Passed(p, x)) /\ Cardinality(Passed(p, x)) \in Nat
         /\ IsFiniteSet(Lost) /\ Cardinality(Lost) \in Nat
         /\ Cardinality(Chasing(p, x)) <= Cardinality(Tasks)
         /\ Cardinality(Passed(p, x)) <= Cardinality(Tasks)
         /\ Cardinality(Tasks) \in Nat
<1>1. IsFiniteSet(Ids) /\ IsFiniteSet(vectors) /\ IsFiniteSet(Tasks)
  BY NeuronRows, NeuronAssumption
<1>2. /\ Followers(p, x) \in SUBSET Ids /\ After(p, x) \in SUBSET Ids /\ Copies(p, x) \in SUBSET vectors
      /\ Lost \in SUBSET Ids
      /\ Chasing(p, x) \in SUBSET Tasks /\ Passed(p, x) \in SUBSET Tasks
  BY DEF Followers, After, Copies, Lost, Chasing, Passed, Flying
<1>3. /\ IsFiniteSet(Followers(p, x)) /\ IsFiniteSet(Copies(p, x)) /\ IsFiniteSet(Lost)
  BY <1>1, <1>2, FS_Subset
<1>4. /\ IsFiniteSet(Chasing(p, x)) /\ Cardinality(Chasing(p, x)) <= Cardinality(Tasks)
      /\ IsFiniteSet(Passed(p, x)) /\ Cardinality(Passed(p, x)) <= Cardinality(Tasks)
  BY <1>1, <1>2, FS_Subset
<1> QED BY <1>1, <1>3, <1>4, FS_CardinalityType

\* The predecessor an ingestion reads is one of the newest rows of its project,
\* and the genesis only of a project without rows.
LEMMA LatestIsNewest ==
  ASSUME NEW p, NEW h \in Latest(p)
  PROVE  LET mine == {i \in Ids : p = NoProject \/ neurons[i].project = p}
         IN  \/ mine = {} /\ h = Genesis
             \/ h \in mine /\ \A j \in mine : neurons[j].created <= neurons[h].created
BY DEF Latest, Foremost

\* Nothing of its project is dated after it, so it has no later followers yet.
LEMMA LatestUnfollowed ==
  ASSUME NeuronTypeOK, NEW p \in NeuronProjects, NEW h \in Latest(p)
  PROVE  After(p, h) = {}
<1> DEFINE mine == {i \in Ids : p = NoProject \/ neurons[i].project = p}
<1>1. \/ mine = {} /\ h = Genesis
      \/ h \in mine /\ \A j \in mine : neurons[j].created <= neurons[h].created
  BY LatestIsNewest
<1>2. \A i \in After(p, h) : i \in mine /\ (h # Genesis => neurons[h].created < neurons[i].created)
  BY DEF After
<1>3. \A i \in mine : i # Genesis /\ neurons[i].created \in Nat
  BY NeuronRows, NeuronAssumption DEF NeuronRow, Genesis
<1> HIDE DEF mine
<1>4. ASSUME NEW i \in After(p, h) PROVE FALSE
  <2>1. i \in mine /\ h \in mine /\ neurons[i].created <= neurons[h].created
    BY <1>1, <1>2, <1>4
  <2>2. neurons[h].created < neurons[i].created
    BY <1>2, <1>3, <2>1
  <2>3. neurons[i].created \in Nat /\ neurons[h].created \in Nat
    BY <1>3, <2>1
  <2> QED BY <2>1, <2>2, <2>3
<1> QED BY <1>4

\* No ingestion passes the check for duplicates.
NonePass ==
  \A t \in Tasks : tasks'[t].phase = "summary" => tasks[t].phase = "summary"

\* An ingestion that ends.
LEMMA TaskEnds ==
  ASSUME tasks \in [Tasks -> TaskRecord], NEW t \in Tasks,
         tasks' = [tasks EXCEPT ![t] = NoTask]
  PROVE  NoneBegun /\ NonePass /\ tasks'[t] = NoTask
<1>1. NoTask \in TaskRecord /\ NoTask.phase = "idle"
  BY DEF TaskRecord, NoTask
<1>2. tasks' \in [Tasks -> TaskRecord]
  BY <1>1
<1> QED BY <1>1, <1>2 DEF NoneBegun, NonePass

\* All ingestions go on as they were.
LEMMA TasksStay ==
  ASSUME tasks \in [Tasks -> TaskRecord], tasks' = tasks
  PROVE  NoneBegun /\ NonePass
BY DEF NoneBegun, NonePass

-----------------------------------------------------------------------------
(* Neurons: the chain. *)

\* Rows rewritten in place follow whom they followed.
LEMMA AfterKept ==
  ASSUME NeuronTypeOK, RowsKept
  PROVE  /\ Nodes' = Nodes
         /\ \A p : \A h \in Nodes : After(p, h)' = After(p, h) /\ Followers(p, h)' = Followers(p, h)
         /\ \A h \in Nodes : \A date : LaterThan(h, date)' = LaterThan(h, date)
<1>1. Ids' = Ids
  BY DEF Ids, RowsKept
<1>2. \A i \in Ids : SameOrigin(neurons'[i], neurons[i])
  BY DEF Ids, RowsKept
<1>3. ASSUME NEW p, NEW h \in Nodes PROVE After(p, h)' = After(p, h)
  <2>1. h # Genesis => neurons'[h].created = neurons[h].created
    BY <1>2 DEF Nodes, SameOrigin
  <2> QED BY <1>1, <1>2, <2>1 DEF After, SameOrigin
<1>4. \A p : \A h \in Nodes : Followers(p, h)' = Followers(p, h)
  <2> SUFFICES ASSUME NEW p, NEW h \in Nodes PROVE Followers(p, h)' = Followers(p, h)
    OBVIOUS
  <2>1. \A i \in After(p, h) : neurons'[i].bare = neurons[i].bare
    BY <1>2 DEF After, SameOrigin
  <2> QED BY <1>3, <2>1 DEF Followers
<1>5. \A h \in Nodes : \A date : LaterThan(h, date)' = LaterThan(h, date)
  BY <1>2 DEF Nodes, LaterThan, SameOrigin
<1> QED BY <1>1, <1>3, <1>4, <1>5 DEF Nodes

\* Rewriting rows in place and ending ingestions leaves the chain alone.
LEMMA ChainKept ==
  ASSUME NeuronTypeOK, tasks \in [Tasks -> TaskRecord], ChainInv,
         RowsKept, NoneBegun, ingests' = ingests
  PROVE  ChainInv'
<1>1. Flying' \in SUBSET Flying
  BY DEF Flying, NoneBegun
<1>2. Ids' = Ids /\ Nodes' = Nodes
  BY AfterKept DEF Ids, RowsKept
<1>3. Len(neurons) \in Nat /\ Len(neurons') = Len(neurons)
  BY NeuronRows, LenProperties DEF NeuronTypeOK, RowsKept
<1>4. IsFiniteSet(Flying) /\ Cardinality(Flying) \in Nat
  BY FlyingTasks
<1>5. Cardinality(Flying') \in Nat /\ Cardinality(Flying') <= Cardinality(Flying)
  BY <1>1, <1>4, FS_Subset, FS_CardinalityType
<1>6. Room'
  BY <1>3, <1>4, <1>5 DEF NeuronTypeOK, ChainInv, Room
<1>7. \A i \in Ids : neurons'[i].prev = neurons[i].prev /\ neurons'[i].bare = neurons[i].bare
  BY DEF Ids, RowsKept, SameOrigin
<1>8. Rooted'
  BY <1>1, <1>2, <1>7 DEF ChainInv, Rooted, NoneBegun, Flying
<1>9. ASSUME NEW p \in NeuronProjects, NEW h \in Nodes
      PROVE  (Cardinality(Followers(p, h)) + Cardinality(Chasing(p, h)) <= Cardinality(Tasks))'
  <2>1. Followers(p, h)' = Followers(p, h)
    BY AfterKept
  <2>2. Chasing(p, h)' \in SUBSET Chasing(p, h)
    BY <1>1, AfterKept DEF Chasing, Flying, NoneBegun
  <2>3. Cardinality(Followers(p, h)) + Cardinality(Chasing(p, h)) <= Cardinality(Tasks)
    BY DEF ChainInv, Forks
  <2>4. Cardinality(Chasing(p, h)') \in Nat
        /\ Cardinality(Chasing(p, h)') <= Cardinality(Chasing(p, h))
    BY <2>2, CountedSets, FS_Subset, FS_CardinalityType
  <2>5. /\ Cardinality(Followers(p, h)) \in Nat /\ Cardinality(Chasing(p, h)) \in Nat
        /\ Cardinality(Tasks) \in Nat
    BY CountedSets
  <2> QED BY <2>1, <2>3, <2>4, <2>5
<1>10. Twins'
  <2> SUFFICES ASSUME NEW p \in NeuronProjects, NEW h \in Nodes,
                      NEW i \in After(p, h), NEW j \in After(p, h),
                      neurons'[i].bare, neurons'[j].bare
               PROVE  i = j
    BY <1>2, AfterKept DEF Twins
  <2> QED BY <1>7 DEF ChainInv, Twins, After
<1> QED BY <1>2, <1>6, <1>8, <1>9, <1>10 DEF ChainInv, Forks

\* A row written is of its type and the last of the table; the others stay.
LEMMA RowAppended ==
  ASSUME NeuronTypeOK, NEW row \in NeuronRow, neurons' = Append(neurons, row)
  PROVE  /\ neurons' \in Seq(NeuronRow)
         /\ Len(neurons') = Len(neurons) + 1
         /\ Ids' = Ids \cup {Len(neurons) + 1}
         /\ Len(neurons) + 1 \notin Nodes
         /\ \A i \in Ids : neurons'[i] = neurons[i]
         /\ neurons'[Len(neurons) + 1] = row
<1>1. neurons \in Seq(NeuronRow) /\ Len(neurons) \in Nat /\ Ids = 1..Len(neurons)
  BY NeuronRows DEF NeuronTypeOK
<1>2. /\ neurons' \in Seq(NeuronRow) /\ Len(neurons') = Len(neurons) + 1
      /\ \A i \in 1..Len(neurons) : neurons'[i] = neurons[i]
      /\ neurons'[Len(neurons) + 1] = row
  BY <1>1, AppendProperties
<1>3. Ids' = 1..Len(neurons')
  BY <1>2, LenProperties DEF Ids
<1>4. Len(neurons) + 1 \notin Nodes
  BY <1>1 DEF Nodes, Genesis
<1> QED BY <1>1, <1>2, <1>3, <1>4

\* The rows that are written are of the rows' type.
LEMMA NewRows ==
  ASSUME NeuronTypeOK, tasks \in [Tasks -> TaskRecord], ChainInv
  PROVE  /\ \A t \in Flying, pinned \in BOOLEAN, since \in Nat :
              NewNeuron(tasks[t], pinned, since) \in NeuronRow
         /\ \A p \in NeuronProjects, x \in Texts, d \in Dates, pinned \in BOOLEAN : \A h \in Latest(p) :
              ingests < MaxIngests => BareNeuron(p, x, h, d, pinned) \in NeuronRow /\ h \in Nodes
<1>1. ASSUME NEW t \in Flying, NEW pinned \in BOOLEAN, NEW since \in Nat
      PROVE  NewNeuron(tasks[t], pinned, since) \in NeuronRow
  BY <1>1, FlyingTasks DEF NewNeuron, NeuronRow, NeuronStatuses, Energies
<1>2. ASSUME NEW p \in NeuronProjects, NEW x \in Texts, NEW d \in Dates, NEW pinned \in BOOLEAN,
             NEW h \in Latest(p), ingests < MaxIngests
      PROVE  BareNeuron(p, x, h, d, pinned) \in NeuronRow /\ h \in Nodes
  <2>1. h \in Nodes
    BY LatestIsNewest DEF Nodes
  <2>2. h \in 0..MaxIngests
    <3>1. /\ Len(neurons) \in Nat /\ Ids = 1..Len(neurons) /\ Cardinality(Flying) \in Nat
          /\ ingests \in Nat /\ MaxIngests \in Nat
      BY NeuronRows, FlyingTasks, NeuronAssumption DEF NeuronTypeOK
    <3>2. Len(neurons) <= MaxIngests
      BY <1>2, <3>1 DEF ChainInv, Room
    <3> QED BY <2>1, <3>1, <3>2 DEF Nodes, Genesis
  <2>3. touches + 1 \in Nat
    BY DEF NeuronTypeOK
  <2> QED BY <2>1, <2>2, <2>3 DEF BareNeuron, NeuronRow, NeuronStatuses, Energies
<1> QED BY <1>1, <1>2

\* A row written follows the one it names, if it is dated after it; nothing
\* follows the new row.
LEMMA AfterAppended ==
  ASSUME NeuronTypeOK, Rooted, NEW row \in NeuronRow, row.prev \in Nodes,
         neurons' = Append(neurons, row), NEW p \in NeuronProjects, NEW new, new = Len(neurons) + 1
  PROVE  /\ After(p, new)' = {}
         /\ \A h \in Nodes :
              /\ new \notin After(p, h)
              /\ After(p, h)' = IF row.project = p /\ row.prev = h /\ LaterThan(h, row.created)
                                THEN After(p, h) \cup {new} ELSE After(p, h)
<1>1. /\ Ids' = Ids \cup {new} /\ new \notin Nodes
      /\ (\A i \in Ids : neurons'[i] = neurons[i]) /\ neurons'[new] = row
  BY RowAppended
<1>2. \A i \in Ids : neurons[i].prev \in Nodes
  BY DEF Rooted
<1>3. After(p, new)' = {}
  BY <1>1, <1>2 DEF After
<1>4. ASSUME NEW h \in Nodes
      PROVE  /\ new \notin After(p, h)
             /\ After(p, h)' = IF row.project = p /\ row.prev = h /\ LaterThan(h, row.created)
                               THEN After(p, h) \cup {new} ELSE After(p, h)
  <2>1. h # Genesis => neurons'[h] = neurons[h]
    BY <1>1 DEF Nodes
  <2>2. new \notin After(p, h)
    BY <1>1 DEF After, Nodes
  <2>3. \A i \in Ids : i \in After(p, h)' <=> i \in After(p, h)
    BY <1>1, <2>1 DEF After
  <2>4. new \in After(p, h)' <=> row.project = p /\ row.prev = h /\ LaterThan(h, row.created)
    BY <1>1, <2>1 DEF After, LaterThan
  <2>5. After(p, h)' \subseteq Ids \cup {new} /\ After(p, h) \subseteq Ids
    BY <1>1 DEF After
  <2>6. CASE row.project = p /\ row.prev = h /\ LaterThan(h, row.created)
    <3>1. After(p, h)' = After(p, h) \cup {new}
      BY <2>3, <2>4, <2>5, <2>6
    <3> QED BY <2>2, <2>6, <3>1
  <2>7. CASE ~ (row.project = p /\ row.prev = h /\ LaterThan(h, row.created))
    <3>1. After(p, h)' = After(p, h)
      BY <2>3, <2>4, <2>5, <2>7
    <3> QED BY <2>2, <2>7, <3>1
  <2> QED BY <2>6, <2>7
<1> QED BY <1>3, <1>4

\* What is in flight chases whom it chased.
LEMMA ChasingAppended ==
  ASSUME NeuronTypeOK, Rooted, NEW row \in NeuronRow, neurons' = Append(neurons, row),
         NoneBegun, NEW p \in NeuronProjects, NEW new, new = Len(neurons) + 1
  PROVE  /\ Chasing(p, new)' = {}
         /\ \A h \in Nodes : Chasing(p, h)' \in SUBSET {t \in Chasing(p, h) : tasks'[t].phase # "idle"}
<1>1. new \notin Nodes /\ \A i \in Ids : neurons'[i] = neurons[i]
  BY RowAppended
<1>2. \A t \in Flying' : /\ t \in Flying /\ tasks'[t].project = tasks[t].project
                         /\ tasks'[t].prev = tasks[t].prev /\ tasks'[t].created = tasks[t].created
  BY DEF Flying, NoneBegun
<1>3. \A t \in Flying' : tasks'[t].prev \in Nodes
  BY <1>2 DEF Rooted
<1>4. Chasing(p, new)' = {}
  BY <1>1, <1>3 DEF Chasing
<1>5. ASSUME NEW h \in Nodes
      PROVE  Chasing(p, h)' \in SUBSET {t \in Chasing(p, h) : tasks'[t].phase # "idle"}
  <2>1. h # Genesis => neurons'[h] = neurons[h]
    BY <1>1 DEF Nodes
  <2>2. \A t \in Chasing(p, h)' : /\ t \in Flying' /\ tasks'[t].project = p /\ tasks'[t].prev = h
                                  /\ h # Genesis => neurons'[h].created < tasks'[t].created
    BY DEF Chasing, LaterThan
  <2>3. \A t \in Flying' : tasks'[t].phase # "idle"
    BY DEF Flying
  <2> QED BY <1>2, <2>1, <2>2, <2>3 DEF Chasing, LaterThan
<1> QED BY <1>4, <1>5

\* Predecessors are still rows when one was written whose predecessor is.
LEMMA RootedAppended ==
  ASSUME NeuronTypeOK, Rooted, NEW row \in NeuronRow, row.prev \in Nodes,
         neurons' = Append(neurons, row), NoneBegun
  PROVE  Rooted'
<1> DEFINE new == Len(neurons) + 1
<1>1. /\ Ids' = Ids \cup {new}
      /\ (\A i \in Ids : neurons'[i] = neurons[i]) /\ neurons'[new] = row
  BY RowAppended
<1>2. Nodes \subseteq Nodes'
  BY <1>1 DEF Nodes
<1>3. \A t \in Flying' : t \in Flying /\ tasks'[t].prev = tasks[t].prev
  BY DEF Flying, NoneBegun
<1> HIDE DEF new
<1> QED BY <1>1, <1>2, <1>3 DEF Rooted

\* Nothing follows or chases the row just written.
LEMMA AloneAppended ==
  ASSUME NeuronTypeOK, Rooted, NEW row \in NeuronRow, row.prev \in Nodes,
         neurons' = Append(neurons, row), NoneBegun, NEW p \in NeuronProjects,
         NEW new, new = Len(neurons) + 1
  PROVE  /\ (Cardinality(Followers(p, new)) + Cardinality(Chasing(p, new))
               <= Cardinality(Tasks))'
         /\ After(p, new)' = {}
<1>1. After(p, new)' = {} /\ Chasing(p, new)' = {}
  BY AfterAppended, ChasingAppended
<1>2. Followers(p, new)' = {}
  BY <1>1 DEF Followers
<1>3. Cardinality(Tasks) \in Nat
  BY NeuronAssumption, FS_CardinalityType
<1>4. Cardinality(Followers(p, new)') = 0 /\ Cardinality(Chasing(p, new)') = 0
  BY <1>1, <1>2, FS_EmptySet
<1>5. Cardinality(Followers(p, new)') + Cardinality(Chasing(p, new)') <= Cardinality(Tasks)
  BY <1>3, <1>4
<1> QED BY <1>1, <1>5

\* Storing the row of an ingestion lengthens the chain, whatever becomes of the
\* other ingestions.
LEMMA ChainAppended ==
  ASSUME NeuronTypeOK, tasks \in [Tasks -> TaskRecord], ChainInv,
         NEW t \in Flying, NEW pinned \in BOOLEAN, NEW since \in Nat,
         neurons' = Append(neurons, NewNeuron(tasks[t], pinned, since)),
         NoneBegun, tasks'[t] = NoTask, ingests' = ingests
  PROVE  ChainInv'
<1>n. PICK new : new = Len(neurons) + 1
  OBVIOUS
<1> DEFINE row == NewNeuron(tasks[t], pinned, since)
<1>0. row \in NeuronRow /\ neurons' = Append(neurons, row)
  BY NewRows
<1>1. /\ Len(neurons') = new
      /\ Ids' = Ids \cup {new} /\ new \notin Nodes
      /\ (\A i \in Ids : neurons'[i] = neurons[i])
      /\ neurons'[new] = row
  BY <1>0, <1>n, RowAppended
<1>2. /\ row.project = tasks[t].project /\ row.prev = tasks[t].prev
      /\ row.created = tasks[t].created /\ row.bare = FALSE /\ row.prev \in Nodes
  BY DEF NewNeuron, ChainInv, Rooted
<1>3. Flying' \in SUBSET (Flying \ {t})
  BY DEF Flying, NoneBegun, NoTask
<1>4. IsFiniteSet(Flying) /\ Cardinality(Flying) \in Nat /\ Len(neurons) \in Nat
  BY FlyingTasks, NeuronRows
<1>5. IsFiniteSet(Flying \ {t}) /\ Cardinality(Flying \ {t}) = Cardinality(Flying) - 1
  BY <1>4, FS_RemoveElement
<1>6. Cardinality(Flying') \in Nat /\ Cardinality(Flying') <= Cardinality(Flying) - 1
  BY <1>3, <1>5, FS_Subset, FS_CardinalityType
<1>7. Room'
  BY <1>1, <1>4, <1>6, <1>n DEF NeuronTypeOK, ChainInv, Room
<1> HIDE DEF row
<1>8. Rooted'
  BY <1>0, <1>2, RootedAppended DEF ChainInv
<1>9. ASSUME NEW p \in NeuronProjects, NEW h \in Nodes
      PROVE  /\ (Cardinality(Followers(p, h)) + Cardinality(Chasing(p, h)) <= Cardinality(Tasks))'
             /\ \A i, j \in After(p, h)' : neurons'[i].bare /\ neurons'[j].bare => i = j
  <2>1. /\ IsFiniteSet(Followers(p, h)) /\ Cardinality(Followers(p, h)) \in Nat
        /\ IsFiniteSet(Chasing(p, h)) /\ Cardinality(Chasing(p, h)) \in Nat
        /\ Cardinality(Tasks) \in Nat
    BY CountedSets
  <2>2. /\ Cardinality(Followers(p, h)) + Cardinality(Chasing(p, h)) <= Cardinality(Tasks)
        /\ \A i, j \in After(p, h) : neurons[i].bare /\ neurons[j].bare => i = j
    BY DEF ChainInv, Forks, Twins
  <2>3. Chasing(p, h)' \in SUBSET (Chasing(p, h) \ {t})
    BY <1>0, <1>n, ChasingAppended DEF ChainInv, NoTask
  <2>4. /\ new \notin After(p, h)
        /\ After(p, h)' = IF row.project = p /\ row.prev = h /\ LaterThan(h, row.created)
                          THEN After(p, h) \cup {new} ELSE After(p, h)
    BY <1>0, <1>2, <1>n, AfterAppended DEF ChainInv
  <2>5. \A i \in After(p, h) : neurons'[i] = neurons[i]
    BY <1>1 DEF After
  <2>6. \A i, j \in After(p, h)' : neurons'[i].bare /\ neurons'[j].bare => i = j
    BY <1>1, <1>2, <2>2, <2>4, <2>5
  <2>7. CASE t \in Chasing(p, h)
    <3>1. row.project = p /\ row.prev = h /\ LaterThan(h, row.created)
      BY <1>2, <2>7 DEF Chasing
    <3>2. Followers(p, h)' = Followers(p, h) \cup {new} /\ new \notin Followers(p, h)
      <4>1. After(p, h)' = After(p, h) \cup {new} /\ new \notin After(p, h)
        BY <2>4, <3>1
      <4>2. ~ neurons'[new].bare
        BY <1>1, <1>2
      <4> QED BY <2>5, <4>1, <4>2 DEF Followers
    <3>3. Cardinality(Followers(p, h)') = Cardinality(Followers(p, h)) + 1
      BY <2>1, <3>2, FS_AddElement
    <3>4. IsFiniteSet(Chasing(p, h) \ {t})
          /\ Cardinality(Chasing(p, h) \ {t}) = Cardinality(Chasing(p, h)) - 1
      BY <2>1, <2>7, FS_RemoveElement
    <3>5. /\ Cardinality(Chasing(p, h)') <= Cardinality(Chasing(p, h)) - 1
          /\ Cardinality(Chasing(p, h)') \in Nat
      BY <2>3, <3>4, FS_Subset, FS_CardinalityType
    <3>6. Cardinality(Followers(p, h)') + Cardinality(Chasing(p, h)') <= Cardinality(Tasks)
      BY <2>1, <2>2, <3>3, <3>5
    <3> QED BY <2>6, <3>6
  <2>8. CASE t \notin Chasing(p, h)
    <3>1. Followers(p, h)' = Followers(p, h)
      BY <1>2, <2>4, <2>5, <2>8 DEF Followers, Chasing
    <3>2. /\ Cardinality(Chasing(p, h)') <= Cardinality(Chasing(p, h))
          /\ Cardinality(Chasing(p, h)') \in Nat
      BY <2>1, <2>3, FS_Subset, FS_CardinalityType
    <3>3. Cardinality(Followers(p, h)') + Cardinality(Chasing(p, h)') <= Cardinality(Tasks)
      BY <2>1, <2>2, <3>1, <3>2
    <3> QED BY <2>6, <3>3
  <2> QED BY <2>7, <2>8
<1>10. ASSUME NEW p \in NeuronProjects
       PROVE  /\ (Cardinality(Followers(p, new)) + Cardinality(Chasing(p, new))
                    <= Cardinality(Tasks))'
              /\ After(p, new)' = {}
  BY <1>0, <1>2, <1>n, AloneAppended DEF ChainInv
<1>11. Nodes' = Nodes \cup {new}
  BY <1>1 DEF Nodes
<1>12. Forks' /\ Twins'
  BY <1>9, <1>10, <1>11 DEF Forks, Twins
<1> QED BY <1>7, <1>8, <1>12 DEF ChainInv

\* A distilled row is written after the newest row, which nothing later follows.
LEMMA ChainDistilled ==
  ASSUME NeuronTypeOK, tasks \in [Tasks -> TaskRecord], ChainInv,
         NEW p \in NeuronProjects, NEW x \in Texts, NEW d \in Dates, NEW pinned \in BOOLEAN,
         Distill(p, x, d, pinned)
  PROVE  ChainInv'
<1>n. PICK new : new = Len(neurons) + 1
  OBVIOUS
<1>1. /\ ingests < MaxIngests /\ ingests' = ingests + 1 /\ tasks' = tasks
      /\ NoneBegun
  BY TasksStay DEF Distill
<1>2. PICK h \in Latest(p) : neurons' = Append(neurons, BareNeuron(p, x, h, d, pinned))
  BY DEF Distill
<1> DEFINE row == BareNeuron(p, x, h, d, pinned)
<1>3. row \in NeuronRow /\ h \in Nodes /\ neurons' = Append(neurons, row)
  BY <1>1, <1>2, NewRows
<1>4. row.project = p /\ row.prev = h /\ row.bare = TRUE
  BY DEF BareNeuron
<1>5. /\ Len(neurons') = new /\ Ids' = Ids \cup {new} /\ new \notin Nodes
      /\ (\A i \in Ids : neurons'[i] = neurons[i])
      /\ neurons'[new] = row
  BY <1>3, <1>n, RowAppended
<1>6. Flying' = Flying /\ Cardinality(Flying) \in Nat /\ Len(neurons) \in Nat /\ ingests \in Nat
  BY <1>1, FlyingTasks, NeuronRows DEF Flying, NeuronTypeOK
<1>7. Room'
  BY <1>1, <1>5, <1>6, <1>n DEF ChainInv, Room
<1> HIDE DEF row
<1>8. Rooted'
  BY <1>1, <1>3, <1>4, RootedAppended DEF ChainInv
<1>9. ASSUME NEW q \in NeuronProjects, NEW k \in Nodes
      PROVE  /\ (Cardinality(Followers(q, k)) + Cardinality(Chasing(q, k)) <= Cardinality(Tasks))'
             /\ \A i, j \in After(q, k)' : neurons'[i].bare /\ neurons'[j].bare => i = j
  <2>1. /\ Cardinality(Followers(q, k)) \in Nat
        /\ IsFiniteSet(Chasing(q, k)) /\ Cardinality(Chasing(q, k)) \in Nat
        /\ Cardinality(Tasks) \in Nat
    BY CountedSets
  <2>2. /\ Cardinality(Followers(q, k)) + Cardinality(Chasing(q, k)) <= Cardinality(Tasks)
        /\ \A i, j \in After(q, k) : neurons[i].bare /\ neurons[j].bare => i = j
    BY DEF ChainInv, Forks, Twins
  <2>3. Chasing(q, k)' \in SUBSET Chasing(q, k)
    BY <1>1, <1>3, <1>n, ChasingAppended DEF ChainInv
  <2>4. /\ Cardinality(Chasing(q, k)') <= Cardinality(Chasing(q, k))
        /\ Cardinality(Chasing(q, k)') \in Nat
    BY <2>1, <2>3, FS_Subset, FS_CardinalityType
  <2>5. /\ new \notin After(q, k)
        /\ After(q, k)' = IF row.project = q /\ row.prev = k /\ LaterThan(k, row.created)
                          THEN After(q, k) \cup {new} ELSE After(q, k)
    BY <1>3, <1>4, <1>n, AfterAppended DEF ChainInv
  <2>6. \A i \in After(q, k) : neurons'[i] = neurons[i]
    BY <1>5 DEF After
  <2>7. Followers(q, k)' = Followers(q, k)
    BY <1>4, <1>5, <2>5, <2>6 DEF Followers
  <2>8. \A i, j \in After(q, k)' : neurons'[i].bare /\ neurons'[j].bare => i = j
    <3>1. CASE q = p /\ k = h
      <4>1. After(q, k) = {}
        BY <3>1, LatestUnfollowed
      <4> QED BY <2>5, <4>1
    <3>2. CASE ~ (q = p /\ k = h)
      BY <1>4, <2>2, <2>5, <2>6, <3>2
    <3> QED BY <3>1, <3>2
  <2> QED BY <2>1, <2>2, <2>4, <2>7, <2>8
<1>10. ASSUME NEW q \in NeuronProjects
       PROVE  /\ (Cardinality(Followers(q, new)) + Cardinality(Chasing(q, new))
                    <= Cardinality(Tasks))'
              /\ After(q, new)' = {}
  BY <1>1, <1>3, <1>4, <1>n, AloneAppended DEF ChainInv
<1>11. Nodes' = Nodes \cup {new}
  BY <1>5 DEF Nodes
<1>12. Forks' /\ Twins'
  BY <1>9, <1>10, <1>11 DEF Forks, Twins
<1> QED BY <1>7, <1>8, <1>12 DEF ChainInv

\* An ingestion begins.  The row it reads as its predecessor has no later
\* followers in its project: it would not be the latest.
LEMMA ChainStarted ==
  ASSUME NeuronTypeOK, tasks \in [Tasks -> TaskRecord], ChainInv,
         NEW t \in Tasks, NEW p \in NeuronProjects \cup {NoProject}, NEW x \in Texts,
         NEW d \in Dates, StartIngest(t, p, x, d)
  PROVE  ChainInv' /\ tasks' \in [Tasks -> TaskRecord]
<1>1. /\ tasks[t].phase = "idle" /\ ingests < MaxIngests /\ ingests' = ingests + 1
      /\ UNCHANGED <<neurons, vectors>>
  BY DEF StartIngest
<1>2. PICK h \in Latest(p) :
        tasks' = [tasks EXCEPT ![t] = [phase |-> "embedding", project |-> p, text |-> x,
                                       prev |-> h, created |-> d]]
  BY DEF StartIngest
<1> DEFINE new == [phase |-> "embedding", project |-> p, text |-> x, prev |-> h, created |-> d]
<1>3. h \in Nodes
  BY LatestIsNewest DEF Nodes
<1>4. /\ Len(neurons) \in Nat /\ Ids = 1..Len(neurons)
      /\ IsFiniteSet(Flying) /\ Cardinality(Flying) \in Nat
      /\ ingests \in Nat /\ MaxIngests \in Nat
  BY NeuronRows, FlyingTasks, NeuronAssumption DEF NeuronTypeOK
<1>5. Len(neurons) <= ingests
  BY <1>4 DEF ChainInv, Room
<1>6. h \in 0..MaxIngests
  BY <1>1, <1>3, <1>4, <1>5 DEF Nodes, Genesis
<1>7. new \in TaskRecord
  BY <1>6 DEF TaskRecord
<1>8. tasks' \in [Tasks -> TaskRecord]
  BY <1>2, <1>7
<1>9. /\ Flying' = Flying \cup {t} /\ t \notin Flying
      /\ tasks'[t] = new /\ \A u \in Flying : tasks'[u] = tasks[u]
  BY <1>1, <1>2 DEF Flying
<1>10. Cardinality(Flying') = Cardinality(Flying) + 1
  BY <1>4, <1>9, FS_AddElement
<1>11. Room'
  BY <1>1, <1>4, <1>10 DEF ChainInv, Room
<1>12. Nodes' = Nodes /\ \A q, k : After(q, k)' = After(q, k) /\ Followers(q, k)' = Followers(q, k)
  BY <1>1 DEF Nodes, Ids, After, Followers
<1>13. Rooted' /\ Twins'
  BY <1>1, <1>3, <1>9, <1>12 DEF ChainInv, Rooted, Twins, Ids
<1>14. ASSUME NEW q \in NeuronProjects, NEW k \in Nodes
       PROVE  (Cardinality(Followers(q, k)) + Cardinality(Chasing(q, k)) <= Cardinality(Tasks))'
  <2>1. Cardinality(Followers(q, k)) + Cardinality(Chasing(q, k)) <= Cardinality(Tasks)
    BY DEF ChainInv, Forks
  <2>2. CASE q = p /\ k = h
    <3>1. Followers(q, k) = {}
      BY <2>2, LatestUnfollowed DEF Followers
    <3>2. Cardinality(Followers(q, k)) = 0
      BY <3>1, FS_EmptySet
    <3>3. IsFiniteSet(Tasks) /\ Chasing(q, k)' \in SUBSET Tasks
      BY <1>8, <1>9, NeuronAssumption DEF Chasing, Flying
    <3>4. /\ Cardinality(Chasing(q, k)') <= Cardinality(Tasks)
          /\ Cardinality(Chasing(q, k)') \in Nat /\ Cardinality(Tasks) \in Nat
      BY <3>3, FS_Subset, FS_CardinalityType
    <3> QED BY <1>12, <3>2, <3>4
  <2>3. CASE ~ (q = p /\ k = h)
    <3>1. Chasing(q, k)' = Chasing(q, k)
      BY <1>1, <1>9, <2>3 DEF Chasing, LaterThan
    <3> QED BY <1>12, <2>1, <3>1
  <2> QED BY <2>2, <2>3
<1> QED BY <1>8, <1>11, <1>12, <1>13, <1>14 DEF ChainInv, Forks

-----------------------------------------------------------------------------
(* Neurons: the index. *)

\* Rewriting one row in place.
LEMMA RowReplaced ==
  ASSUME NeuronTypeOK, NEW i \in Ids, NEW row \in NeuronRow,
         SameOrigin(row, neurons[i]), neurons' = [neurons EXCEPT ![i] = row]
  PROVE  RowsKept /\ \A j \in Ids : neurons'[j] = IF j = i THEN row ELSE neurons[j]
<1>1. neurons \in Seq(NeuronRow) /\ Len(neurons) \in Nat /\ Ids = 1..Len(neurons)
  BY NeuronRows DEF NeuronTypeOK
<1>2. /\ neurons' \in Seq(NeuronRow) /\ Len(neurons') = Len(neurons)
      /\ \A j \in 1..Len(neurons) : neurons'[j] = IF j = i THEN row ELSE neurons[j]
  BY <1>1, ExceptSeq
<1>3. DOMAIN neurons' = DOMAIN neurons
  BY <1>1, <1>2, LenProperties
<1> QED BY <1>1, <1>2, <1>3 DEF RowsKept, SameOrigin, Ids

\* Rewriting many rows in place.
LEMMA RowsReplaced ==
  ASSUME NeuronTypeOK, neurons' \in [Ids -> NeuronRow],
         \A i \in Ids : SameOrigin(neurons'[i], neurons[i])
  PROVE  RowsKept
<1>1. Len(neurons) \in Nat /\ Ids = 1..Len(neurons)
  BY NeuronRows
<1>2. neurons' \in Seq(NeuronRow)
  BY <1>1, FunctionIsSeq
<1> QED BY <1>2 DEF RowsKept, Ids

\* Nothing is added to the index and nothing passes the check.
LEMMA RepeatsKept ==
  ASSUME NeuronTypeOK, tasks \in [Tasks -> TaskRecord], Repeats, NoneBegun, NonePass,
         \A i \in vectors' : /\ i \in vectors /\ neurons'[i].project = neurons[i].project
                             /\ neurons'[i].text = neurons[i].text
  PROVE  Repeats'
<1> SUFFICES ASSUME NEW p \in NeuronProjects, NEW x \in Texts
             PROVE  (Cardinality(Copies(p, x)) + Cardinality(Passed(p, x)) <= Cardinality(Tasks))'
  BY DEF Repeats
<1>1. Copies(p, x)' \in SUBSET Copies(p, x)
  BY DEF Copies
<1>2. Passed(p, x)' \in SUBSET Passed(p, x)
  BY DEF Passed, NoneBegun, NonePass
<1>3. /\ IsFiniteSet(Copies(p, x)) /\ Cardinality(Copies(p, x)) \in Nat
      /\ IsFiniteSet(Passed(p, x)) /\ Cardinality(Passed(p, x)) \in Nat
      /\ Cardinality(Tasks) \in Nat
  BY CountedSets
<1>4. /\ Cardinality(Copies(p, x)') <= Cardinality(Copies(p, x))
      /\ Cardinality(Copies(p, x)') \in Nat
  BY <1>1, <1>3, FS_Subset, FS_CardinalityType
<1>5. /\ Cardinality(Passed(p, x)') <= Cardinality(Passed(p, x))
      /\ Cardinality(Passed(p, x)') \in Nat
  BY <1>2, <1>3, FS_Subset, FS_CardinalityType
<1>6. Cardinality(Copies(p, x)) + Cardinality(Passed(p, x)) <= Cardinality(Tasks)
  BY DEF Repeats
<1> QED BY <1>3, <1>4, <1>5, <1>6

\* The index loses no row that stays outside the archive.
LEMMA IndexKept ==
  ASSUME NeuronTypeOK, tasks \in [Tasks -> TaskRecord], IndexInv, RowsKept,
         NoneBegun, NonePass, PinnedActive', kernelCrashes' = kernelCrashes,
         vectors' \subseteq vectors,
         \A i \in vectors' : Undeleted(i)' /\ neurons'[i].status # "archived",
         \A i \in Ids \ vectors' : Listed(i)' => i \notin vectors /\ Listed(i)
  PROVE  IndexInv'
<1>1. \A i \in vectors : i \in DOMAIN neurons
  BY DEF NeuronTypeOK, Ids
<1>2. \A i \in vectors' : /\ i \in vectors /\ neurons'[i].project = neurons[i].project
                          /\ neurons'[i].text = neurons[i].text
  BY <1>1 DEF RowsKept, SameOrigin
<1>3. Repeats'
  BY <1>2, RepeatsKept DEF IndexInv
<1>4. Lost' \in SUBSET Lost
  BY DEF Lost, RowsKept, Ids
<1>5. IsFiniteSet(Lost) /\ Cardinality(Lost) \in Nat /\ Cardinality(Lost) <= kernelCrashes
  BY CountedSets DEF IndexInv, Indexed
<1>6. Cardinality(Lost') <= Cardinality(Lost) /\ Cardinality(Lost') \in Nat
  BY <1>4, <1>5, FS_Subset, FS_CardinalityType
<1>7. Cardinality(Lost') <= kernelCrashes'
  BY <1>5, <1>6 DEF NeuronTypeOK
<1>8. \A i \in vectors' : ~ neurons'[i].bare
  BY <1>1 DEF IndexInv, Indexed, RowsKept, SameOrigin
<1> QED BY <1>3, <1>7, <1>8 DEF IndexInv, Indexed

\* The row of an ingestion that passed the check is stored with its vector.
LEMMA IndexStored ==
  ASSUME NInv, NEW t \in Tasks, NEW pinned \in BOOLEAN, Store(t, pinned)
  PROVE  IndexInv'
<1> DEFINE new == Len(neurons) + 1
           row == NewNeuron(tasks[t], pinned, touches + 1)
<1>0. NeuronTypeOK /\ tasks \in [Tasks -> TaskRecord] /\ ChainInv /\ IndexInv /\ t \in Flying
  BY DEF NInv, Store, Flying
<1>1. /\ tasks[t].phase = "summary" /\ neurons' = Append(neurons, row)
      /\ vectors' = vectors \cup {new} /\ kernelCrashes' = kernelCrashes
      /\ tasks' = [tasks EXCEPT ![t] = NoTask]
  BY DEF Store
<1>2. /\ Ids' = Ids \cup {new} /\ new \notin Ids
      /\ (\A i \in Ids : neurons'[i] = neurons[i])
      /\ neurons'[new] = row
  <2>1. row \in NeuronRow
    BY <1>0, NewRows DEF NeuronTypeOK
  <2> QED BY <1>0, <1>1, <2>1, RowAppended DEF Nodes
<1>3. /\ row.project = tasks[t].project /\ row.text = tasks[t].text
      /\ row.status = "active" /\ ~ row.deleted /\ ~ row.bare
  BY DEF NewNeuron
<1>4. NoneBegun /\ NonePass /\ tasks'[t] = NoTask /\ vectors \subseteq Ids
  BY <1>0, <1>1, TaskEnds DEF NeuronTypeOK
<1> HIDE DEF new, row
<1>5. PinnedActive'
  BY <1>0, <1>2, <1>3 DEF IndexInv, PinnedActive, Undeleted
<1>6. \A i \in vectors' : Undeleted(i)' /\ neurons'[i].status # "archived" /\ ~ neurons'[i].bare
  BY <1>0, <1>1, <1>2, <1>3, <1>4 DEF IndexInv, Indexed, Undeleted
<1>7. Lost' = Lost
  BY <1>1, <1>2, <1>4 DEF Lost, Listed, Undeleted
<1>8. Cardinality(Lost') <= kernelCrashes'
  BY <1>0, <1>1, <1>7 DEF IndexInv, Indexed
<1>9. ASSUME NEW p \in NeuronProjects, NEW x \in Texts
      PROVE  (Cardinality(Copies(p, x)) + Cardinality(Passed(p, x)) <= Cardinality(Tasks))'
  <2>1. /\ IsFiniteSet(Copies(p, x)) /\ Cardinality(Copies(p, x)) \in Nat
        /\ IsFiniteSet(Passed(p, x)) /\ Cardinality(Passed(p, x)) \in Nat
        /\ Cardinality(Tasks) \in Nat
    BY <1>0, CountedSets
  <2>2. Cardinality(Copies(p, x)) + Cardinality(Passed(p, x)) <= Cardinality(Tasks)
    BY <1>0 DEF IndexInv, Repeats
  <2>3. Passed(p, x)' \in SUBSET (Passed(p, x) \ {t})
    BY <1>4 DEF Passed, NoneBegun, NonePass, NoTask
  <2>4. CASE t \in Passed(p, x)
    <3>1. Copies(p, x)' = Copies(p, x) \cup {new} /\ new \notin Copies(p, x)
      BY <1>1, <1>2, <1>3, <1>4, <2>4 DEF Copies, Passed
    <3>2. Cardinality(Copies(p, x)') = Cardinality(Copies(p, x)) + 1
      BY <2>1, <3>1, FS_AddElement
    <3>3. IsFiniteSet(Passed(p, x) \ {t})
          /\ Cardinality(Passed(p, x) \ {t}) = Cardinality(Passed(p, x)) - 1
      BY <2>1, <2>4, FS_RemoveElement
    <3>4. /\ Cardinality(Passed(p, x)') <= Cardinality(Passed(p, x)) - 1
          /\ Cardinality(Passed(p, x)') \in Nat
      BY <2>3, <3>3, FS_Subset, FS_CardinalityType
    <3> QED BY <2>1, <2>2, <3>2, <3>4
  <2>5. CASE t \notin Passed(p, x)
    <3>1. Copies(p, x)' = Copies(p, x)
      BY <1>1, <1>2, <1>3, <1>4, <2>5 DEF Copies, Passed
    <3>2. /\ Cardinality(Passed(p, x)') <= Cardinality(Passed(p, x))
          /\ Cardinality(Passed(p, x)') \in Nat
      BY <2>1, <2>3, FS_Subset, FS_CardinalityType
    <3> QED BY <2>1, <2>2, <3>1, <3>2
  <2> QED BY <2>4, <2>5
<1>10. Repeats'
  BY <1>9 DEF Repeats
<1> QED BY <1>5, <1>6, <1>8, <1>10 DEF IndexInv, Indexed

\* An ingestion that passes the check found no copy: the live ones of its text
\* would have been found by their vectors.
LEMMA IndexPassed ==
  ASSUME NInv, NEW t \in Tasks, PassCheck(t)
  PROVE  IndexInv'
<1>0. NeuronTypeOK /\ tasks \in [Tasks -> TaskRecord] /\ IndexInv
  BY DEF NInv
<1>1. /\ tasks[t].phase = "embedding" /\ SameText(tasks[t].project, tasks[t].text) = {}
      /\ tasks' = [tasks EXCEPT ![t].phase = "summary"]
      /\ UNCHANGED <<neurons, vectors, kernelCrashes>>
  BY DEF PassCheck
<1>2. PinnedActive' /\ Indexed'
  BY <1>0, <1>1 DEF IndexInv, PinnedActive, Indexed, Undeleted, Listed, Lost, Ids
<1>3. ASSUME NEW p \in NeuronProjects, NEW x \in Texts
      PROVE  (Cardinality(Copies(p, x)) + Cardinality(Passed(p, x)) <= Cardinality(Tasks))'
  <2>1. Copies(p, x)' = Copies(p, x)
    BY <1>1 DEF Copies
  <2>2. CASE tasks[t].project = p /\ tasks[t].text = x
    <3>1. Copies(p, x) = {}
      BY <1>0, <1>1, <2>2 DEF Copies, SameText, IndexInv, Indexed
    <3>2. IsFiniteSet(Tasks) /\ Passed(p, x)' \in SUBSET Tasks
      BY NeuronAssumption DEF Passed
    <3>3. /\ Cardinality(Passed(p, x)') <= Cardinality(Tasks)
          /\ Cardinality(Passed(p, x)') \in Nat /\ Cardinality(Tasks) \in Nat
      BY <3>2, FS_Subset, FS_CardinalityType
    <3>4. Cardinality(Copies(p, x)) = 0
      BY <3>1, FS_EmptySet
    <3> QED BY <2>1, <3>3, <3>4
  <2>3. CASE ~ (tasks[t].project = p /\ tasks[t].text = x)
    <3>1. \A u \in Tasks : tasks'[u].project = tasks[u].project /\ tasks'[u].text = tasks[u].text
                           /\ (u # t => tasks'[u] = tasks[u])
      <4>1. tasks[t] \in TaskRecord /\ tasks[t] # NoTask
        BY <1>0, <1>1 DEF NoTask
      <4> QED BY <1>0, <1>1, <4>1 DEF TaskRecord
    <3>2. Passed(p, x)' = Passed(p, x)
      BY <2>3, <3>1 DEF Passed
    <3> QED BY <1>0, <2>1, <3>2 DEF IndexInv, Repeats
  <2> QED BY <2>2, <2>3
<1> QED BY <1>2, <1>3 DEF IndexInv, Repeats

\* A crash forgets every ingestion in flight, and may leave one row behind
\* whose vector was not written.
LEMMA CrashKeeps ==
  ASSUME NInv, KernelCrash
  PROVE  NInv'
<1>0. NeuronTypeOK /\ tasks \in [Tasks -> TaskRecord] /\ ChainInv /\ IndexInv
  BY DEF NInv
<1>1. /\ kernelCrashes < MaxKernelCrashes /\ kernelCrashes' = kernelCrashes + 1
      /\ tasks' = [t \in Tasks |-> NoTask] /\ loop' = "off"
      /\ UNCHANGED <<vectors, onDisk, touches, ingests, edits>>
  BY DEF KernelCrash
<1>2. kernelCrashes \in Nat /\ kernelCrashes' \in 0..MaxKernelCrashes
  BY <1>0, <1>1, NeuronAssumption DEF NeuronTypeOK
<1>3. NoTask \in TaskRecord /\ NoTask.phase = "idle"
  BY DEF TaskRecord, NoTask
<1>4. /\ tasks' \in [Tasks -> TaskRecord] /\ NoneBegun /\ NonePass
      /\ \A t \in Tasks : tasks'[t] = NoTask
  BY <1>1, <1>3 DEF NoneBegun, NonePass
<1>5. IsFiniteSet(Lost) /\ Cardinality(Lost) \in Nat /\ Cardinality(Lost) <= kernelCrashes
  BY <1>0, CountedSets DEF IndexInv, Indexed
<1>6. CASE UNCHANGED neurons
  <2>1. RowsKept
    BY <1>0, <1>6 DEF RowsKept, SameOrigin, NeuronTypeOK
  <2>2. ChainInv'
    BY <1>0, <1>1, <1>4, <2>1, ChainKept
  <2>3. Repeats'
    BY <1>0, <1>1, <1>4, <1>6, RepeatsKept DEF IndexInv
  <2>4. PinnedActive' /\ (\A i \in vectors' : Undeleted(i)' /\ neurons'[i].status # "archived"
                                               /\ ~ neurons'[i].bare)
    BY <1>0, <1>1, <1>6 DEF IndexInv, PinnedActive, Indexed, Undeleted, Ids
  <2>5. Lost' = Lost
    BY <1>1, <1>6 DEF Lost, Listed, Undeleted, Ids
  <2>6. Cardinality(Lost') <= kernelCrashes'
    BY <1>1, <1>2, <1>5, <2>5
  <2>7. NeuronTypeOK'
    BY <1>0, <1>1, <1>2, <1>3, <1>4, <1>6 DEF NeuronTypeOK, Ids
  <2> QED BY <1>4, <2>2, <2>3, <2>4, <2>6, <2>7 DEF NInv, IndexInv, Indexed
<1>7. ASSUME NEW t \in Tasks, NEW since \in Nat, tasks[t].phase = "summary",
             neurons' = Append(neurons, NewNeuron(tasks[t], FALSE, since))
      PROVE  NInv'
  <2> DEFINE new == Len(neurons) + 1
  <2>1. t \in Flying /\ NewNeuron(tasks[t], FALSE, since) \in NeuronRow
    BY <1>0, <1>7, NewRows DEF Flying
  <2>2. /\ neurons' \in Seq(NeuronRow)
        /\ Ids' = Ids \cup {new} /\ new \notin Ids
        /\ (\A i \in Ids : neurons'[i] = neurons[i])
        /\ neurons'[new] = NewNeuron(tasks[t], FALSE, since)
    BY <1>0, <1>7, <2>1, RowAppended DEF Nodes
  <2>3. ~ neurons'[new].pinned
    BY <2>2 DEF NewNeuron
  <2>4. ChainInv'
    BY <1>0, <1>1, <1>4, <1>7, <2>1, ChainAppended
  <2>5. vectors \subseteq Ids
    BY <1>0 DEF NeuronTypeOK
  <2> HIDE DEF new
  <2>6. Repeats'
    BY <1>0, <1>1, <1>4, <2>2, <2>5, RepeatsKept DEF IndexInv
  <2>7. PinnedActive'
    BY <1>0, <2>2, <2>3 DEF IndexInv, PinnedActive, Undeleted
  <2>8. \A i \in vectors' : Undeleted(i)' /\ neurons'[i].status # "archived" /\ ~ neurons'[i].bare
    BY <1>0, <1>1, <2>2, <2>5 DEF IndexInv, Indexed, Undeleted
  <2>9. Lost' \in SUBSET (Lost \cup {new}) /\ new \notin Lost
    BY <1>1, <2>2 DEF Lost, Listed, Undeleted
  <2>10. IsFiniteSet(Lost \cup {new}) /\ Cardinality(Lost \cup {new}) = Cardinality(Lost) + 1
    BY <1>5, <2>9, FS_AddElement
  <2>11. Cardinality(Lost') <= Cardinality(Lost) + 1 /\ Cardinality(Lost') \in Nat
    BY <2>9, <2>10, FS_Subset, FS_CardinalityType
  <2>12. Cardinality(Lost') <= kernelCrashes'
    BY <1>1, <1>2, <1>5, <2>11
  <2>13. NeuronTypeOK'
    BY <1>0, <1>1, <1>2, <1>3, <1>4, <2>2, <2>5 DEF NeuronTypeOK
  <2> QED BY <1>4, <2>4, <2>6, <2>7, <2>8, <2>12, <2>13 DEF NInv, IndexInv, Indexed
<1>8. 0..touches \subseteq Nat
  BY <1>0 DEF NeuronTypeOK
<1> QED BY <1>6, <1>7, <1>8 DEF KernelCrash

\* A row written by the consolidation or the topic board is none the index knows.
LEMMA IndexDistilled ==
  ASSUME NInv, NEW p \in NeuronProjects, NEW x \in Texts, NEW d \in Dates, NEW pinned \in BOOLEAN,
         Distill(p, x, d, pinned)
  PROVE  NInv'
<1>0. NeuronTypeOK /\ tasks \in [Tasks -> TaskRecord] /\ ChainInv /\ IndexInv
  BY DEF NInv
<1>1. /\ ingests < MaxIngests /\ ingests' = ingests + 1 /\ touches' = touches + 1
      /\ UNCHANGED <<vectors, tasks, loop, onDisk, edits, kernelCrashes>>
  BY DEF Distill
<1>2. PICK h \in Latest(p) : neurons' = Append(neurons, BareNeuron(p, x, h, d, pinned))
  BY DEF Distill
<1> DEFINE row == BareNeuron(p, x, h, d, pinned)
           new == Len(neurons) + 1
<1>3. row \in NeuronRow /\ row.bare = TRUE
  BY <1>0, <1>1, NewRows DEF BareNeuron
<1>4. /\ neurons' \in Seq(NeuronRow)
      /\ Ids' = Ids \cup {new} /\ new \notin Ids
      /\ (\A i \in Ids : neurons'[i] = neurons[i])
      /\ neurons'[new] = row
  BY <1>0, <1>2, <1>3, RowAppended DEF Nodes
<1> HIDE DEF row, new
<1>5. NoneBegun /\ NonePass /\ vectors \subseteq Ids
  BY <1>0, <1>1, TasksStay DEF NeuronTypeOK
<1>6. Repeats'
  BY <1>0, <1>1, <1>4, <1>5, RepeatsKept DEF IndexInv
<1>7. PinnedActive'
  BY <1>0, <1>3, <1>4 DEF IndexInv, PinnedActive, Undeleted
<1>8. \A i \in vectors' : Undeleted(i)' /\ neurons'[i].status # "archived" /\ ~ neurons'[i].bare
  BY <1>0, <1>1, <1>4, <1>5 DEF IndexInv, Indexed, Undeleted
<1>9. Lost' = Lost
  BY <1>1, <1>3, <1>4 DEF Lost, Listed, Undeleted
<1>10. Cardinality(Lost') <= kernelCrashes'
  BY <1>0, <1>1, <1>9 DEF IndexInv, Indexed
<1>11. ChainInv'
  BY <1>0, ChainDistilled
<1>12. /\ ingests' \in 0..MaxIngests /\ touches' \in Nat
  BY <1>0, <1>1, NeuronAssumption DEF NeuronTypeOK
<1>13. NeuronTypeOK'
  BY <1>0, <1>1, <1>4, <1>5, <1>12 DEF NeuronTypeOK
<1> QED BY <1>0, <1>1, <1>6, <1>7, <1>8, <1>10, <1>11, <1>13 DEF NInv, IndexInv, Indexed

\* A cycle takes the vector of every row it archives, and finds none to restore:
\* of the archived rows only pinned ones are due, and these have no vector.
LEMMA CycleKeeps ==
  ASSUME NInv, NEW S \in SUBSET Due, neurons' = Transition(S), vectors' = IndexAfter(S),
         UNCHANGED <<tasks, ingests, kernelCrashes>>
  PROVE  /\ RowsKept /\ ChainInv' /\ IndexInv' /\ vectors' \subseteq vectors
<1>0. NeuronTypeOK /\ tasks \in [Tasks -> TaskRecord] /\ ChainInv /\ IndexInv
  BY DEF NInv
<1>1. S \subseteq Due /\ \A i \in S : i \in Ids /\ Undeleted(i)
  BY DEF Due
<1>2. \A i \in Ids : neurons[i] \in NeuronRow
  BY <1>0, NeuronRows
<1>3. \A i \in Ids : NextStatus(i) \in NeuronStatuses
  BY <1>2 DEF NextStatus, NeuronRow, NeuronStatuses, Energies
<1>4. \A i \in Ids : neurons[i].pinned => NextStatus(i) = "active"
  BY <1>2 DEF NextStatus, NeuronRow
<1>5. \A i \in S : neurons[i].status # "archived" \/ neurons[i].bare
  BY <1>0, <1>1 DEF Due, IndexInv, PinnedActive
<1>6. ASSUME NEW i \in Ids
      PROVE  /\ neurons'[i] \in NeuronRow
             /\ SameOrigin(neurons'[i], neurons[i])
             /\ neurons'[i].pinned = neurons[i].pinned /\ neurons'[i].deleted = neurons[i].deleted
             /\ neurons'[i].revived = neurons[i].revived
             /\ neurons'[i].status = IF i \in S THEN NextStatus(i) ELSE neurons[i].status
  <2>1. neurons'[i] = IF i \in S THEN [neurons[i] EXCEPT !.status = NextStatus(i)] ELSE neurons[i]
    BY DEF Transition
  <2> QED BY <1>2, <1>3, <2>1 DEF NeuronRow, SameOrigin
<1>7. neurons' \in [Ids -> NeuronRow]
  BY <1>6 DEF Transition
<1>8. RowsKept
  BY <1>0, <1>6, <1>7, RowsReplaced
<1>9. NoneBegun /\ NonePass
  BY <1>0, TasksStay
<1>10. ChainInv'
  BY <1>0, <1>8, <1>9, ChainKept
<1>11. vectors' = vectors \ {i \in S : NextStatus(i) = "archived"}
  BY <1>5 DEF IndexAfter
<1>12. Ids' = Ids /\ vectors \subseteq Ids
  BY <1>0, <1>8 DEF RowsKept, Ids, NeuronTypeOK
<1>13. PinnedActive'
  BY <1>0, <1>4, <1>6, <1>12 DEF IndexInv, PinnedActive, Undeleted, SameOrigin
<1>14. \A i \in vectors' : Undeleted(i)' /\ neurons'[i].status # "archived"
  BY <1>0, <1>6, <1>11, <1>12 DEF IndexInv, Indexed, Undeleted
<1>15. \A i \in Ids \ vectors' : Listed(i)' => i \notin vectors /\ Listed(i)
  BY <1>5, <1>6, <1>11 DEF Listed, Undeleted, SameOrigin
<1>16. IndexInv'
  BY <1>0, <1>8, <1>9, <1>11, <1>13, <1>14, <1>15, IndexKept
<1> QED BY <1>8, <1>10, <1>11, <1>16

\* forgetUser deletes rows and vectors together.
LEMMA ForgetKeeps ==
  ASSUME NInv, NEW p \in NeuronProjects, ForgetProject(p)
  PROVE  RowsKept /\ ChainInv' /\ IndexInv' /\ vectors' \subseteq vectors
<1> DEFINE mine == {i \in Ids : neurons[i].project = p /\ Undeleted(i)}
<1>0. NeuronTypeOK /\ tasks \in [Tasks -> TaskRecord] /\ ChainInv /\ IndexInv
  BY DEF NInv
<1>1. /\ neurons' = [i \in Ids |-> IF i \in mine
                                   THEN [neurons[i] EXCEPT !.deleted = TRUE, !.status = "archived",
                                                      !.energy = 0]
                                   ELSE neurons[i]]
      /\ vectors' = vectors \ mine /\ UNCHANGED <<tasks, ingests, kernelCrashes>>
  BY DEF ForgetProject
<1>2. \A i \in Ids : neurons[i] \in NeuronRow
  BY <1>0, NeuronRows
<1> HIDE DEF mine
<1>3. ASSUME NEW i \in Ids
      PROVE  /\ neurons'[i] \in NeuronRow
             /\ SameOrigin(neurons'[i], neurons[i])
             /\ i \in mine => neurons'[i].deleted = TRUE /\ neurons'[i].status = "archived"
             /\ i \notin mine => neurons'[i] = neurons[i]
  BY <1>1, <1>2, <1>3 DEF NeuronRow, NeuronStatuses, Energies, SameOrigin
<1>4. neurons' \in [Ids -> NeuronRow]
  BY <1>1, <1>3
<1>5. RowsKept
  BY <1>0, <1>3, <1>4, RowsReplaced
<1>6. NoneBegun /\ NonePass
  BY <1>0, <1>1, TasksStay
<1>7. ChainInv'
  BY <1>0, <1>1, <1>5, <1>6, ChainKept
<1>8. Ids' = Ids /\ vectors \subseteq Ids
  BY <1>0, <1>5 DEF RowsKept, Ids, NeuronTypeOK
<1>9. PinnedActive'
  BY <1>0, <1>3, <1>8 DEF IndexInv, PinnedActive, Undeleted
<1>10. \A i \in vectors' : Undeleted(i)' /\ neurons'[i].status # "archived"
  BY <1>0, <1>1, <1>3, <1>8 DEF IndexInv, Indexed, Undeleted
<1>11. \A i \in Ids \ vectors' : Listed(i)' => i \notin vectors /\ Listed(i)
  BY <1>1, <1>3 DEF Listed, Undeleted
<1>12. IndexInv'
  BY <1>0, <1>1, <1>5, <1>6, <1>9, <1>10, <1>11, IndexKept
<1> QED BY <1>1, <1>5, <1>7, <1>12

\* A row rewritten in place: it keeps its vector if it has one, and does not
\* come to be missed by the index.
LEMMA RowKeeps ==
  ASSUME NInv, NEW i \in Ids, NEW row \in NeuronRow, SameOrigin(row, neurons[i]),
         neurons' = [neurons EXCEPT ![i] = row],
         row.deleted = neurons[i].deleted,
         row.pinned /\ ~ row.deleted /\ ~ row.bare => row.status # "archived",
         neurons[i].status # "archived" /\ ~ row.bare => row.status # "archived",
         row.status # "archived" /\ ~ row.revived
           => (neurons[i].status # "archived" /\ ~ neurons[i].revived) \/ row.bare,
         NoneBegun, NonePass, UNCHANGED <<vectors, ingests, kernelCrashes>>
  PROVE  RowsKept /\ ChainInv' /\ IndexInv'
<1>0. NeuronTypeOK /\ tasks \in [Tasks -> TaskRecord] /\ ChainInv /\ IndexInv
  BY DEF NInv
<1>1. RowsKept /\ \A j \in Ids : neurons'[j] = IF j = i THEN row ELSE neurons[j]
  BY <1>0, RowReplaced
<1>2. ChainInv'
  BY <1>0, <1>1, ChainKept
<1>3. Ids' = Ids /\ vectors \subseteq Ids
  BY <1>0, <1>1 DEF RowsKept, Ids, NeuronTypeOK
<1>4. row.bare = neurons[i].bare
  BY DEF SameOrigin
<1>5. PinnedActive'
  BY <1>0, <1>1, <1>3 DEF IndexInv, PinnedActive, Undeleted
<1>6. \A j \in vectors' : Undeleted(j)' /\ neurons'[j].status # "archived"
  BY <1>0, <1>1, <1>3, <1>4 DEF IndexInv, Indexed, Undeleted
<1>7. \A j \in Ids \ vectors' : Listed(j)' => j \notin vectors /\ Listed(j)
  BY <1>1, <1>4 DEF Listed, Undeleted
<1>8. IndexInv'
  BY <1>0, <1>1, <1>5, <1>6, <1>7, IndexKept
<1> QED BY <1>1, <1>2, <1>8

-----------------------------------------------------------------------------
(* Neurons: steps. *)

\* The phases of the ingestions, from their records.
LEMMA TaskPhases ==
  ASSUME tasks' \in [Tasks -> TaskRecord]
  PROVE  \A t \in Tasks : tasks'[t].phase \in {"idle", "embedding", "summary"}
BY DEF TaskRecord, NoTask

\* What is left of the types when the rows stay.
LEMMA NeuronTypesKept ==
  ASSUME NeuronTypeOK, RowsKept, tasks' \in [Tasks -> TaskRecord], vectors' \subseteq vectors,
         loop' \in {"off", "on", "dead"}, onDisk' = onDisk,
         touches' \in Nat, ingests' \in 0..MaxIngests, edits' \in 0..MaxEdits,
         kernelCrashes' = kernelCrashes
  PROVE  NeuronTypeOK'
BY TaskPhases DEF NeuronTypeOK, RowsKept, Ids

LEMMA NeuronStep ==
  ASSUME NInv, [NeuronNext]_neuronVars
  PROVE  NInv'
<1>0. NeuronTypeOK /\ tasks \in [Tasks -> TaskRecord] /\ ChainInv /\ IndexInv
  BY DEF NInv
<1>1. /\ ingests \in 0..MaxIngests /\ loop \in {"off", "on", "dead"}
      /\ touches \in Nat /\ touches + 1 \in Nat /\ edits \in 0..MaxEdits
  BY <1>0 DEF NeuronTypeOK
<1>2. ASSUME NEW t \in Tasks, NEW p \in NeuronProjects \cup {NoProject}, NEW x \in Texts,
             NEW d \in Dates, StartIngest(t, p, x, d)
      PROVE  NInv'
  <2>1. ChainInv' /\ tasks' \in [Tasks -> TaskRecord]
    BY <1>0, <1>2, ChainStarted
  <2>2. /\ ingests < MaxIngests /\ ingests' = ingests + 1
        /\ UNCHANGED <<neurons, vectors, loop, onDisk, touches, edits, kernelCrashes>>
    BY <1>2 DEF StartIngest
  <2>3. \A u \in Tasks : tasks'[u].phase = "summary" => tasks'[u] = tasks[u]
    BY <1>0, <1>2 DEF StartIngest
  <2>4. \A p1, x1 : Copies(p1, x1)' = Copies(p1, x1) /\ Passed(p1, x1)' \in SUBSET Passed(p1, x1)
    BY <2>2, <2>3 DEF Copies, Passed
  <2>5. Repeats'
    <3> SUFFICES ASSUME NEW p1 \in NeuronProjects, NEW x1 \in Texts
                 PROVE  (Cardinality(Copies(p1, x1)) + Cardinality(Passed(p1, x1)) <= Cardinality(Tasks))'
      BY DEF Repeats
    <3>1. /\ Cardinality(Copies(p1, x1)) \in Nat /\ Cardinality(Tasks) \in Nat
          /\ IsFiniteSet(Passed(p1, x1)) /\ Cardinality(Passed(p1, x1)) \in Nat
      BY <1>0, CountedSets
    <3>2. Cardinality(Passed(p1, x1)') <= Cardinality(Passed(p1, x1))
          /\ Cardinality(Passed(p1, x1)') \in Nat
      BY <2>4, <3>1, FS_Subset, FS_CardinalityType
    <3>3. Cardinality(Copies(p1, x1)) + Cardinality(Passed(p1, x1)) <= Cardinality(Tasks)
      BY <1>0 DEF IndexInv, Repeats
    <3>4. Cardinality(Copies(p1, x1)') = Cardinality(Copies(p1, x1))
      BY <2>4
    <3> QED BY <3>1, <3>2, <3>3, <3>4
  <2>6. PinnedActive' /\ Indexed'
    BY <1>0, <2>2 DEF IndexInv, PinnedActive, Indexed, Undeleted, Listed, Lost, Ids
  <2>7. RowsKept /\ ingests' \in 0..MaxIngests
    BY <1>0, <1>1, <2>2, NeuronAssumption DEF RowsKept, SameOrigin, NeuronTypeOK
  <2>8. NeuronTypeOK'
    BY <1>0, <1>1, <2>1, <2>2, <2>7, NeuronTypesKept
  <2> QED BY <2>1, <2>5, <2>6, <2>8 DEF NInv, IndexInv
<1>3. ASSUME NEW t \in Tasks, Activate(t) PROVE NInv'
  <2>1. PICK i \in SameText(tasks[t].project, tasks[t].text) :
          neurons' = [neurons EXCEPT ![i].energy = 2, ![i].touched = touches + 1]
    BY <1>3 DEF Activate
  <2>2. i \in Ids
    BY <1>0, <2>1 DEF SameText, NeuronTypeOK
  <2>3. neurons[i] \in NeuronRow
    BY <1>0, <2>2, NeuronRows
  <2> DEFINE row == [neurons[i] EXCEPT !.energy = 2, !.touched = touches + 1]
  <2>4. neurons' = [neurons EXCEPT ![i] = row]
    BY <2>1
  <2>5. /\ tasks' = [tasks EXCEPT ![t] = NoTask] /\ touches' = touches + 1
        /\ UNCHANGED <<vectors, loop, onDisk, ingests, edits, kernelCrashes>>
    BY <1>3 DEF Activate
  <2>6. NoneBegun /\ NonePass /\ tasks' \in [Tasks -> TaskRecord]
    BY <1>0, <2>5, TaskEnds DEF NoneBegun
  <2>7. /\ row \in NeuronRow /\ SameOrigin(row, neurons[i]) /\ row.deleted = neurons[i].deleted
        /\ row.status = neurons[i].status /\ row.pinned = neurons[i].pinned
        /\ row.revived = neurons[i].revived /\ row.bare = neurons[i].bare
    BY <1>1, <2>3 DEF NeuronRow, Energies, SameOrigin
  <2> HIDE DEF row
  <2>8. row.pinned /\ ~ row.deleted /\ ~ row.bare => row.status # "archived"
    BY <1>0, <2>2, <2>7 DEF IndexInv, PinnedActive, Undeleted
  <2>9. RowsKept /\ ChainInv' /\ IndexInv'
    BY <2>2, <2>4, <2>5, <2>6, <2>7, <2>8, RowKeeps
  <2>10. NeuronTypeOK'
    BY <1>0, <1>1, <2>5, <2>6, <2>9, NeuronTypesKept
  <2> QED BY <2>6, <2>9, <2>10 DEF NInv
<1>4. ASSUME NEW t \in Tasks, PassCheck(t) PROVE NInv'
  <2>1. /\ tasks[t].phase = "embedding" /\ tasks' = [tasks EXCEPT ![t].phase = "summary"]
        /\ UNCHANGED <<neurons, vectors, loop, onDisk, touches, ingests, edits, kernelCrashes>>
    BY <1>4 DEF PassCheck
  <2>2. tasks[t] \in TaskRecord /\ tasks[t] # NoTask
    BY <1>0, <2>1 DEF NoTask
  <2> DEFINE task == [tasks[t] EXCEPT !.phase = "summary"]
  <2>3. task \in TaskRecord /\ task.project = tasks[t].project /\ task.text = tasks[t].text
        /\ task.prev = tasks[t].prev /\ task.created = tasks[t].created
    BY <2>2 DEF TaskRecord
  <2>4. tasks' = [tasks EXCEPT ![t] = task]
    BY <2>1
  <2> HIDE DEF task
  <2>5. NoneBegun
    BY <1>0, <2>1, <2>3, <2>4 DEF NoneBegun
  <2>6. RowsKept
    BY <1>0, <2>1 DEF RowsKept, SameOrigin, NeuronTypeOK
  <2>7. ChainInv'
    BY <1>0, <2>1, <2>5, <2>6, ChainKept
  <2>8. IndexInv'
    BY <1>4, IndexPassed
  <2>9. NeuronTypeOK'
    BY <1>0, <1>1, <2>1, <2>5, <2>6, NeuronTypesKept DEF NoneBegun
  <2> QED BY <2>5, <2>7, <2>8, <2>9 DEF NInv, NoneBegun
<1>5. ASSUME UNCHANGED <<neurons, vectors, onDisk, touches, ingests, edits, kernelCrashes>>,
             NoneBegun, NonePass, loop' \in {"off", "on", "dead"}
      PROVE  NInv'
  <2>1. RowsKept
    BY <1>0, <1>5 DEF RowsKept, SameOrigin, NeuronTypeOK
  <2>2. ChainInv'
    BY <1>0, <1>5, <2>1, ChainKept
  <2>3. PinnedActive' /\ (\A i \in vectors' : Undeleted(i)' /\ neurons'[i].status # "archived")
    BY <1>0, <1>5 DEF IndexInv, PinnedActive, Indexed, Undeleted, Ids
  <2>4. IndexInv'
    <3>1. \A i \in Ids \ vectors' : Listed(i)' => i \notin vectors /\ Listed(i)
      BY <1>5 DEF Listed, Undeleted
    <3> QED BY <1>0, <1>5, <2>1, <2>3, <3>1, IndexKept
  <2>5. NeuronTypeOK'
    BY <1>0, <1>5, <1>1, <2>1, NeuronTypesKept DEF NoneBegun
  <2> QED BY <1>5, <2>2, <2>4, <2>5 DEF NInv, NoneBegun
<1>6. ASSUME NEW t \in Tasks, EmbedderFails(t) PROVE NInv'
  BY <1>0, <1>1, <1>5, <1>6, TaskEnds DEF EmbedderFails
<1>7. ASSUME NEW t \in Tasks, NEW pinned \in BOOLEAN, Store(t, pinned) PROVE NInv'
  <2>1. /\ t \in Flying /\ neurons' = Append(neurons, NewNeuron(tasks[t], pinned, touches + 1))
        /\ vectors' = vectors \cup {Len(neurons) + 1} /\ touches' = touches + 1
        /\ tasks' = [tasks EXCEPT ![t] = NoTask]
        /\ UNCHANGED <<loop, onDisk, ingests, edits, kernelCrashes>>
    BY <1>7 DEF Store, Flying
  <2>2. NoneBegun /\ tasks'[t] = NoTask /\ tasks' \in [Tasks -> TaskRecord]
    BY <1>0, <2>1, TaskEnds DEF NoneBegun
  <2>3. ChainInv'
    BY <1>0, <1>1, <2>1, <2>2, ChainAppended
  <2>4. IndexInv'
    BY <1>7, IndexStored
  <2>5. neurons' \in Seq(NeuronRow) /\ Ids' = Ids \cup {Len(neurons) + 1}
    <3>1. NewNeuron(tasks[t], pinned, touches + 1) \in NeuronRow
      BY <1>0, <1>1, <2>1, NewRows
    <3> QED BY <1>0, <2>1, <3>1, RowAppended
  <2>6. NeuronTypeOK'
    BY <1>0, <1>1, <2>1, <2>2, <2>5, TaskPhases DEF NeuronTypeOK
  <2> QED BY <2>2, <2>3, <2>4, <2>6 DEF NInv
<1>8. CASE KernelCrash
  BY <1>8, CrashKeeps
<1>9. ASSUME NEW p \in NeuronProjects, ForgetProject(p) PROVE NInv'
  <2>1. RowsKept /\ ChainInv' /\ IndexInv' /\ vectors' \subseteq vectors
    BY <1>9, ForgetKeeps
  <2>2. UNCHANGED <<tasks, loop, onDisk, touches, ingests, edits, kernelCrashes>>
    BY <1>9 DEF ForgetProject
  <2> QED BY <1>0, <1>1, <2>1, <2>2, NeuronTypesKept DEF NInv
<1>10. ASSUME NEW i \in Ids, NEW row \in NeuronRow, SameOrigin(row, neurons[i]),
              neurons' = [neurons EXCEPT ![i] = row],
              row.deleted = neurons[i].deleted,
              row.pinned /\ ~ row.deleted /\ ~ row.bare => row.status # "archived",
              neurons[i].status # "archived" /\ ~ row.bare => row.status # "archived",
              row.status # "archived" /\ ~ row.revived
                => (neurons[i].status # "archived" /\ ~ neurons[i].revived) \/ row.bare,
              edits' \in 0..MaxEdits,
              UNCHANGED <<vectors, tasks, loop, onDisk, touches, ingests, kernelCrashes>>
       PROVE  NInv'
  <2>1. NoneBegun /\ NonePass
    BY <1>0, <1>10, TasksStay
  <2>2. RowsKept /\ ChainInv' /\ IndexInv'
    BY <1>10, <2>1, RowKeeps
  <2> QED BY <1>0, <1>1, <1>10, <2>2, NeuronTypesKept DEF NInv
<1>11. ASSUME NEW i \in Ids, Cool(i) \/ MarkOrphan(i) PROVE NInv'
  <2>1. neurons[i] \in NeuronRow
    BY <1>0, NeuronRows
  <2>2. UNCHANGED <<vectors, tasks, loop, onDisk, touches, ingests, kernelCrashes>>
        /\ edits' \in 0..MaxEdits
    BY <1>1, <1>11 DEF Cool, MarkOrphan
  <2>3. neurons[i].pinned /\ Undeleted(i) /\ ~ neurons[i].bare => neurons[i].status # "archived"
    BY <1>0 DEF IndexInv, PinnedActive
  <2>4. CASE Cool(i)
    <3> DEFINE row == [neurons[i] EXCEPT !.energy = @ - 1]
    <3>1. /\ row \in NeuronRow /\ SameOrigin(row, neurons[i]) /\ row.deleted = neurons[i].deleted
          /\ row.status = neurons[i].status /\ row.pinned = neurons[i].pinned
          /\ row.revived = neurons[i].revived /\ row.bare = neurons[i].bare
      BY <2>1, <2>4 DEF Cool, NeuronRow, Energies, SameOrigin
    <3>2. neurons' = [neurons EXCEPT ![i] = row]
      BY <2>4 DEF Cool
    <3> HIDE DEF row
    <3> QED BY <1>10, <2>2, <2>3, <3>1, <3>2 DEF Undeleted
  <2>5. CASE MarkOrphan(i)
    <3> DEFINE row == [neurons[i] EXCEPT !.status = "suspect"]
    <3>1. /\ row \in NeuronRow /\ SameOrigin(row, neurons[i]) /\ row.deleted = neurons[i].deleted
          /\ row.status = "suspect" /\ neurons[i].status = "active"
          /\ row.revived = neurons[i].revived
      BY <2>1, <2>5 DEF MarkOrphan, NeuronRow, NeuronStatuses, SameOrigin
    <3>2. neurons' = [neurons EXCEPT ![i] = row]
      BY <2>5 DEF MarkOrphan
    <3> HIDE DEF row
    <3> QED BY <1>10, <2>2, <3>1, <3>2
  <2> QED BY <1>11, <2>4, <2>5
<1>12. CASE EditNext
  <2>1. PICK i \in Ids : RefreshSummary(i) \/ ArchiveSummary(i) \/ DoubtPrinciple(i)
                          \/ \E pinned \in BOOLEAN : SetImportance(i, pinned)
    BY <1>12 DEF EditNext
  <2>2. neurons[i] \in NeuronRow
    BY <1>0, NeuronRows
  <2>3. UNCHANGED <<vectors, tasks, loop, onDisk, touches, ingests, kernelCrashes>>
        /\ edits < MaxEdits /\ edits' = edits + 1
    BY <2>1 DEF RefreshSummary, ArchiveSummary, DoubtPrinciple, SetImportance, Edit
  <2>4. edits' \in 0..MaxEdits
    BY <1>1, <2>3, NeuronAssumption
  <2>5. ASSUME NEW s \in NeuronStatuses, NEW pinned \in BOOLEAN, neurons[i].bare,
               neurons' = [neurons EXCEPT ![i].status = s, ![i].pinned = pinned]
        PROVE  NInv'
    <3> DEFINE row == [neurons[i] EXCEPT !.status = s, !.pinned = pinned]
    <3>1. /\ row \in NeuronRow /\ SameOrigin(row, neurons[i]) /\ row.deleted = neurons[i].deleted
          /\ row.bare
      BY <2>2, <2>5 DEF NeuronRow, SameOrigin
    <3>2. neurons' = [neurons EXCEPT ![i] = row]
      BY <2>5
    <3> HIDE DEF row
    <3> QED BY <1>10, <2>3, <2>4, <3>1, <3>2
  <2>6. neurons[i].pinned \in BOOLEAN
        /\ "active" \in NeuronStatuses /\ "archived" \in NeuronStatuses /\ "suspect" \in NeuronStatuses
    BY <2>2 DEF NeuronRow, NeuronStatuses
  <2>7. CASE RefreshSummary(i)
    BY <2>5, <2>6, <2>7 DEF RefreshSummary
  <2>8. ASSUME NEW s \in NeuronStatuses, neurons[i].bare, neurons' = [neurons EXCEPT ![i].status = s]
        PROVE  NInv'
    <3>1. [neurons[i] EXCEPT !.status = s]
            = [neurons[i] EXCEPT !.status = s, !.pinned = neurons[i].pinned]
      BY <2>2 DEF NeuronRow
    <3>2. neurons' = [neurons EXCEPT ![i].status = s, ![i].pinned = neurons[i].pinned]
      BY <2>8, <3>1
    <3> QED BY <2>5, <2>6, <2>8, <3>2
  <2>9. CASE ArchiveSummary(i) \/ DoubtPrinciple(i)
    BY <2>6, <2>8, <2>9 DEF ArchiveSummary, DoubtPrinciple
  <2>10. ASSUME NEW pinned \in BOOLEAN, SetImportance(i, pinned) PROVE NInv'
    <3> DEFINE row == [neurons[i] EXCEPT
                         !.pinned = pinned,
                         !.status = IF pinned THEN "active" ELSE @,
                         !.revived = @ \/ (pinned /\ neurons[i].status = "archived")]
    <3>1. /\ row \in NeuronRow /\ SameOrigin(row, neurons[i]) /\ row.deleted = neurons[i].deleted
          /\ row.pinned = pinned
          /\ row.status = IF pinned THEN "active" ELSE neurons[i].status
          /\ row.revived = (neurons[i].revived \/ (pinned /\ neurons[i].status = "archived"))
      BY <2>2, <2>6, <2>10 DEF NeuronRow, SameOrigin
    <3>2. neurons' = [neurons EXCEPT ![i] = row]
      BY <2>10 DEF SetImportance
    <3> HIDE DEF row
    <3> QED BY <1>10, <2>3, <2>4, <3>1, <3>2
  <2> QED BY <2>1, <2>7, <2>9, <2>10
<1>13. CASE StartLoop
  BY <1>0, <1>5, <1>13, TasksStay DEF StartLoop
<1>14. CASE Cycle
  <2>1. UNCHANGED <<tasks, onDisk, touches, ingests, edits, kernelCrashes>>
    BY <1>14 DEF Cycle
  <2>2. CASE loop' = "dead" /\ UNCHANGED <<neurons, vectors>>
    BY <1>0, <1>5, <2>1, <2>2, TasksStay
  <2>3. CASE neurons' = Transition(Batch) /\ vectors' = IndexAfter(Batch) /\ UNCHANGED loop
    <3>0. Batch \in SUBSET Due
      BY DEF Batch
    <3>1. RowsKept /\ ChainInv' /\ IndexInv' /\ vectors' \subseteq vectors
      BY <2>1, <2>3, <3>0, CycleKeeps
    <3> QED BY <1>0, <1>1, <2>1, <2>3, <3>1, NeuronTypesKept DEF NInv
  <2> QED BY <1>14, <2>2, <2>3 DEF Cycle
<1>15. CASE UNCHANGED neuronVars
  BY <1>0, <1>1, <1>5, <1>15, TasksStay DEF neuronVars
<1>16. CASE DistillNext
  BY <1>16, IndexDistilled DEF DistillNext
<1> QED BY <1>2, <1>3, <1>4, <1>6, <1>7, <1>8, <1>9, <1>11, <1>12, <1>13, <1>14, <1>15, <1>16
     DEF NeuronNext, ChainNext, IngestNext

LEMMA NeuronStart == NeuronInit => NInv
<1> SUFFICES ASSUME NeuronInit PROVE NInv
  OBVIOUS
<1>1. /\ neurons = <<>> /\ vectors = {} /\ ingests = 0 /\ kernelCrashes = 0
      /\ touches = 0 /\ edits = 0
      /\ tasks = [t \in Tasks |-> NoTask] /\ loop = "off" /\ onDisk \in BOOLEAN
  BY NeuronAssumption DEF NeuronInit
<1>2. tasks \in [Tasks -> TaskRecord] /\ \A t \in Tasks : tasks[t].phase = "idle"
  BY <1>1 DEF TaskRecord, NoTask
<1>3. neurons \in Seq(NeuronRow) /\ Len(neurons) = 0 /\ Ids = {}
  BY <1>1 DEF Ids
<1>4. NeuronTypeOK
  BY <1>1, <1>2, <1>3, NeuronAssumption DEF NeuronTypeOK
<1>5. Flying = {} /\ Lost = {} /\ Cardinality({}) = 0
  BY <1>2, <1>3, FS_EmptySet DEF Flying, Lost
<1>6. /\ \A p, h : After(p, h) = {} /\ Followers(p, h) = {} /\ Chasing(p, h) = {}
      /\ \A p, x : Copies(p, x) = {} /\ Passed(p, x) = {}
  BY <1>1, <1>2, <1>3, <1>5 DEF After, Followers, Chasing, Copies, Passed
<1>7. Cardinality(Tasks) \in Nat
  BY NeuronAssumption, FS_CardinalityType
<1>8. Room /\ Rooted
  BY <1>1, <1>3, <1>5 DEF Room, Rooted
<1>9. Forks /\ Twins /\ Repeats
  BY <1>5, <1>6, <1>7 DEF Forks, Twins, Repeats
<1>10. PinnedActive /\ Indexed
  BY <1>1, <1>3, <1>5 DEF PinnedActive, Indexed
<1> QED BY <1>2, <1>4, <1>8, <1>9, <1>10 DEF NInv, ChainInv, IndexInv

LEMMA NeuronInvariant == NeuronSpec => []NInv
BY NeuronStart, NeuronStep, PTL DEF NeuronSpec

\* The rows, the index, the ingestions and the loop keep their types; no row
\* names a predecessor beyond the rows there can be.
THEOREM NeuronTypes == NeuronSpec => []NeuronTypeOK
<1>1. NInv => NeuronTypeOK
  BY DEF NInv
<1> QED BY <1>1, NeuronInvariant, PTL

\* For any number of projects, texts, concurrent ingestions and crashes, the
\* vector index holds no deleted or archived row and misses of the others only
\* those written without a vector, those a host took out of the archive by
\* pinning them, and one a crash: metabolism, orphan cleaner, topic board,
\* principle decay and forgetUser keep rows and index together.
THEOREM RowsFindable == NeuronSpec => []Findable
<1>1. NInv => Findable
  <2> SUFFICES ASSUME NInv PROVE Findable
    OBVIOUS
  <2>1. Lost = {i \in Ids \ vectors : /\ Undeleted(i)
                                      /\ neurons[i].status # "archived"
                                      /\ ~ neurons[i].bare
                                      /\ ~ neurons[i].revived}
    BY DEF Lost, Listed
  <2>2. Cardinality(Lost) <= kernelCrashes
        /\ \A i \in vectors : Undeleted(i) /\ neurons[i].status # "archived"
    BY DEF NInv, IndexInv, Indexed
  <2> QED BY <2>1, <2>2 DEF Findable
<1> QED BY <1>1, NeuronInvariant, PTL

\* A text has at most as many findable copies in a project as ingestions run
\* together, however often it is ingested.
THEOREM CopiesStayBounded == NeuronSpec => []CopiesBounded
<1>1. NInv => CopiesBounded
  <2> SUFFICES ASSUME NInv, NEW p \in NeuronProjects, NEW x \in Texts
               PROVE  Cardinality(Copies(p, x)) <= Cardinality(Tasks)
    BY DEF CopiesBounded, Copies
  <2>1. /\ Cardinality(Copies(p, x)) \in Nat /\ Cardinality(Passed(p, x)) \in Nat
        /\ Cardinality(Tasks) \in Nat
    BY CountedSets DEF NInv
  <2>2. Cardinality(Copies(p, x)) + Cardinality(Passed(p, x)) <= Cardinality(Tasks)
    BY DEF NInv, IndexInv, Repeats
  <2> QED BY <2>1, <2>2
<1> QED BY <1>1, NeuronInvariant, PTL

\* A neuron is followed by at most as many later ingestions of its project as
\* run together, and by one later row written by the consolidation or the topic
\* board: deletions, crashes, rows without a project and rows dated back, before
\* or between, notwithstanding.
THEOREM ForksStayBounded == NeuronSpec => []ForkBounded
<1>1. NInv => ForkBounded
  <2> SUFFICES ASSUME NInv, NEW p \in NeuronProjects, NEW h \in Nodes
               PROVE  /\ Cardinality(Followers(p, h)) <= Cardinality(Tasks)
                      /\ \A i, j \in After(p, h) : neurons[i].bare /\ neurons[j].bare => i = j
    BY DEF ForkBounded, Followers, Nodes
  <2>1. /\ Cardinality(Followers(p, h)) \in Nat /\ Cardinality(Chasing(p, h)) \in Nat
        /\ Cardinality(Tasks) \in Nat
    BY CountedSets DEF NInv
  <2>2. /\ Cardinality(Followers(p, h)) + Cardinality(Chasing(p, h)) <= Cardinality(Tasks)
        /\ \A i, j \in After(p, h) : neurons[i].bare /\ neurons[j].bare => i = j
    BY DEF NInv, ChainInv, Forks, Twins
  <2>3. Cardinality(Followers(p, h)) <= Cardinality(Tasks)
    BY <2>1, <2>2
  <2> QED BY <2>2, <2>3
<1> QED BY <1>1, NeuronInvariant, PTL

=============================================================================
