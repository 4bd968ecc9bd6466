---- MODULE NeuronMemory ----
(***************************************************************************)
(* Neurons and their vectors: ingestion (src/src/factory.ts ingest and     *)
(* src/src/engine/IngestionEngine.ts), the rows of MemoryGraph, the vector *)
(* rows of SqliteVecStore, the metabolism that cools and archives neurons  *)
(* (src/src/core/Metabolism.ts), the orphan cleaner and forgetUser.        *)
(*                                                                         *)
(* An ingestion awaits an embedding and a summary; everything after the    *)
(* second await runs without a pause and can only be cut by a crash.       *)
(* The consolidation's distillers and the topic board write rows of their  *)
(* own, without a vector.  A row is dated as its host says (createdAt), or *)
(* by the clock: any date may be given to any row.                         *)
(* Distinct texts are assumed to have dissimilar vectors (under the 0.98   *)
(* of the duplicate check); the ten best of a search hold every match.     *)
(***************************************************************************)
EXTENDS Naturals, Sequences, FiniteSets

CONSTANTS NeuronProjects, NoProject, Texts,
          Tasks,         \* ingestions that may be in flight together
          Dates,         \* dates of creation
          Deployments,   \* subset of BOOLEAN: is the database a file
          BatchSize,     \* neurons a metabolism cycle looks at
          MaxIngests,    \* ingestions and rows written without one
          MaxEdits,      \* rewritings of a row by hand or by the consolidation
          MaxKernelCrashes

ASSUME NeuronAssumption ==
  /\ NoProject \notin NeuronProjects
  /\ IsFiniteSet(Tasks)
  /\ Dates \subseteq Nat
  /\ Deployments \subseteq BOOLEAN
  /\ BatchSize \in Nat \ {0}
  /\ MaxIngests \in Nat
  /\ MaxEdits \in Nat
  /\ MaxKernelCrashes \in Nat

VARIABLES neurons,   \* rows of the table, in insertion order
          vectors,   \* neurons with a row in vector_index
          tasks,     \* the ingestion each task is in
          loop,      \* the metabolism loop: "off", "on", "dead"
          onDisk,    \* stores share a file, each through its own connection
          touches,   \* clock of the activations
          ingests, edits, kernelCrashes

neuronVars == <<neurons, vectors, tasks, loop, onDisk, touches, ingests, edits, kernelCrashes>>

Genesis == 0
Ids == DOMAIN neurons
NoTask == [phase |-> "idle"]
NeuronStatuses == {"active", "cold", "suspect", "archived"}

\* Energy of the SM-2 curve by the thresholds of the transition: over 0.8 (or
\* activated a hundred times), at least 0.3, below.
Energies == {2, 1, 0}

Undeleted(i) == ~ neurons[i].deleted

Foremost(mine) ==
  IF mine = {} THEN {Genesis}
  ELSE {i \in mine : \A j \in mine : neurons[j].created <= neurons[i].created}

\* A mutant: deleted rows are left out.
LatestUndeleted(p) ==
  Foremost({i \in Ids : Undeleted(i) /\ (p = NoProject \/ neurons[i].project = p)})

\* getLatestNeuronSelfHash: by creation date, deleted rows included.  Rows of
\* one date are told apart by their random ids: any of them may come first.
Latest(p) == Foremost({i \in Ids : p = NoProject \/ neurons[i].project = p})

\* ingest up to its first await: the predecessor is read here, and the date is
\* the host's or the clock's.
StartIngest(t, p, x, d) ==
  /\ tasks[t].phase = "idle"
  /\ ingests < MaxIngests
  /\ ingests' = ingests + 1
  /\ \E h \in Latest(p) :
       tasks' = [tasks EXCEPT ![t] = [phase |-> "embedding", project |-> p, text |-> x,
                                      prev |-> h, created |-> d]]
  /\ UNCHANGED <<neurons, vectors, loop, onDisk, touches, edits, kernelCrashes>>

\* A mutant: no duplicate is ever found.
NeverSame(p, x) == {}

\* checkDuplicate: a live neuron found through its vector.
SameText(p, x) ==
  {i \in vectors : /\ Undeleted(i)
                   /\ neurons[i].text = x
                   /\ (p = NoProject \/ neurons[i].project = p)}

\* The embedding arrives and a duplicate is found: it is activated instead.
Activate(t) ==
  /\ tasks[t].phase = "embedding"
  /\ \E i \in SameText(tasks[t].project, tasks[t].text) :
       neurons' = [neurons EXCEPT ![i].energy = 2, ![i].touched = touches + 1]
  /\ touches' = touches + 1
  /\ tasks' = [tasks EXCEPT ![t] = NoTask]
  /\ UNCHANGED <<vectors, loop, onDisk, ingests, edits, kernelCrashes>>

\* The embedding arrives and is new: the summary is awaited next.
PassCheck(t) ==
  /\ tasks[t].phase = "embedding"
  /\ SameText(tasks[t].project, tasks[t].text) = {}
  /\ tasks' = [tasks EXCEPT ![t].phase = "summary"]
  /\ UNCHANGED <<neurons, vectors, loop, onDisk, touches, ingests, edits, kernelCrashes>>

\* The embedder rejects: the ingestion fails with nothing written.
EmbedderFails(t) ==
  /\ tasks[t].phase = "embedding"
  /\ tasks' = [tasks EXCEPT ![t] = NoTask]
  /\ UNCHANGED <<neurons, vectors, loop, onDisk, touches, ingests, edits, kernelCrashes>>

NewNeuron(task, pinned, touched) ==
  [project |-> task.project, text |-> task.text, prev |-> task.prev,
   created |-> task.created, touched |-> touched, status |-> "active", energy |-> 2,
   pinned |-> pinned, bare |-> FALSE, revived |-> FALSE, deleted |-> FALSE]

\* The rest of ingest: the neuron's row, then its vector, then its activation.
Store(t, pinned) ==
  /\ tasks[t].phase = "summary"
  /\ neurons' = Append(neurons, NewNeuron(tasks[t], pinned, touches + 1))
  /\ vectors' = vectors \cup {Len(neurons) + 1}
  /\ touches' = touches + 1
  /\ tasks' = [tasks EXCEPT ![t] = NoTask]
  /\ UNCHANGED <<loop, onDisk, ingests, edits, kernelCrashes>>

\* The process ends between awaits, or between the first two writes of a Store:
\* the row was never activated and counts as inactive since its date.
KernelCrash ==
  /\ onDisk
  /\ kernelCrashes < MaxKernelCrashes
  /\ kernelCrashes' = kernelCrashes + 1
  /\ \/ UNCHANGED neurons
     \/ \E t \in Tasks, since \in 0..touches :
          /\ tasks[t].phase = "summary"
          /\ neurons' = Append(neurons, NewNeuron(tasks[t], FALSE, since))
  /\ tasks' = [t \in Tasks |-> NoTask]
  /\ loop' = "off"
  /\ UNCHANGED <<vectors, onDisk, touches, ingests, edits>>

BareNeuron(p, x, h, d, pinned) ==
  [project |-> p, text |-> x, prev |-> h, created |-> d, touched |-> touches + 1,
   status |-> "active", energy |-> 2,
   pinned |-> pinned, bare |-> TRUE, revived |-> FALSE, deleted |-> FALSE]

\* A row with an empty vector, which the index is not told of: the principle of
\* a distiller or the observation of the evolution verifier (pinned), or the
\* summary of a topic (not).
Distill(p, x, d, pinned) ==
  /\ ingests < MaxIngests
  /\ ingests' = ingests + 1
  /\ \E h \in Latest(p) : neurons' = Append(neurons, BareNeuron(p, x, h, d, pinned))
  /\ touches' = touches + 1
  /\ UNCHANGED <<vectors, tasks, loop, onDisk, edits, kernelCrashes>>

Edit == edits < MaxEdits /\ edits' = edits + 1

\* The topic board writes a summary anew, or archives one whose sources are gone.
RefreshSummary(i) ==
  /\ Edit
  /\ Undeleted(i) /\ neurons[i].bare
  /\ neurons' = [neurons EXCEPT ![i].status = "active", ![i].pinned = FALSE]
  /\ UNCHANGED <<vectors, tasks, loop, onDisk, touches, ingests, kernelCrashes>>

ArchiveSummary(i) ==
  /\ Edit
  /\ Undeleted(i) /\ neurons[i].bare
  /\ neurons' = [neurons EXCEPT ![i].status = "archived"]
  /\ UNCHANGED <<vectors, tasks, loop, onDisk, touches, ingests, kernelCrashes>>

\* updateNeuronImportance, of the host or, unpinning, of the topic decay:
\* pinning makes the row active, whatever it was and without its vector.
SetImportance(i, pinned) ==
  /\ Edit
  /\ neurons' = [neurons EXCEPT
       ![i].pinned = pinned,
       ![i].status = IF pinned THEN "active" ELSE @,
       ![i].revived = @ \/ (pinned /\ neurons[i].status = "archived")]
  /\ UNCHANGED <<vectors, tasks, loop, onDisk, touches, ingests, kernelCrashes>>

\* The principle decay doubts a principle whose sources went cold, pinned or not.
DoubtPrinciple(i) ==
  /\ Edit
  /\ Undeleted(i) /\ neurons[i].bare
  /\ neurons' = [neurons EXCEPT ![i].status = "suspect"]
  /\ UNCHANGED <<vectors, tasks, loop, onDisk, touches, ingests, kernelCrashes>>

\* forgetUser: one transaction over the rows of the project's live neurons.
\* On an in-memory kernel the stores are separate databases; not modelled.
\* The energy of a deleted row is read by nobody.
ForgetProject(p) ==
  LET mine == {i \in Ids : neurons[i].project = p /\ Undeleted(i)}
  IN  /\ onDisk
      /\ mine # {}
      /\ neurons' = [i \in Ids |-> IF i \in mine
                                   THEN [neurons[i] EXCEPT !.deleted = TRUE, !.status = "archived",
                                                      !.energy = 0]
                                   ELSE neurons[i]]
      /\ vectors' = vectors \ mine
      /\ UNCHANGED <<tasks, loop, onDisk, touches, ingests, edits, kernelCrashes>>

\* A neuron nobody activates loses energy.
Cool(i) ==
  /\ Undeleted(i)
  /\ neurons[i].energy > 0
  /\ neurons' = [neurons EXCEPT ![i].energy = @ - 1]
  /\ UNCHANGED <<vectors, tasks, loop, onDisk, touches, ingests, edits, kernelCrashes>>

\* The orphan cleaner doubts old unpinned neurons nothing is linked to;
\* their age is counted from the date they were given.
MarkOrphan(i) ==
  /\ Undeleted(i)
  /\ neurons[i].status = "active"
  /\ ~ neurons[i].pinned
  /\ neurons' = [neurons EXCEPT ![i].status = "suspect"]
  /\ UNCHANGED <<vectors, tasks, loop, onDisk, touches, ingests, edits, kernelCrashes>>

StartLoop ==
  /\ loop = "off"
  /\ loop' = "on"
  /\ UNCHANGED <<neurons, vectors, tasks, onDisk, touches, ingests, edits, kernelCrashes>>

\* A mutant: cold neurons are not looked at again.
DueUnlessCold == {i \in Ids : /\ Undeleted(i)
                              /\ neurons[i].status = "active" \/ neurons[i].pinned}

\* getNeuronIdsForTransition without its limit.
Due == {i \in Ids : /\ Undeleted(i)
                    /\ neurons[i].status \in {"active", "cold"} \/ neurons[i].pinned}

Before(j, i) ==
  \/ neurons[j].touched < neurons[i].touched
  \/ neurons[j].touched = neurons[i].touched /\ j < i

\* getNeuronIdsForTransition: the longest inactive, up to the limit.
Batch == {i \in Due : Cardinality({j \in Due : Before(j, i)}) < BatchSize}

NextStatus(i) ==
  CASE neurons[i].pinned \/ neurons[i].energy = 2      -> "active"
    [] ~ neurons[i].pinned /\ neurons[i].energy = 1    -> "cold"
    [] ~ neurons[i].pinned /\ neurons[i].energy = 0    -> "archived"

Transition(S) ==
  [i \in Ids |-> IF i \in S THEN [neurons[i] EXCEPT !.status = NextStatus(i)] ELSE neurons[i]]

\* A mutant: an archived neuron keeps its vector.
IndexAsBefore(S) == vectors

IndexAfter(S) ==
  (vectors \cup {i \in S : /\ NextStatus(i) # "archived"
                         /\ neurons[i].status = "archived"
                         /\ ~ neurons[i].bare})
    \ {i \in S : NextStatus(i) = "archived"}

\* NeuronStatuses whose change is recorded by an ARCHIVED or RESTORED event.
Announced(S) ==
  {i \in S : /\ NextStatus(i) # neurons[i].status
             /\ "archived" \in {NextStatus(i), neurons[i].status}}

\* A metabolism cycle inside MemoryGraph.transaction.  On disk the event goes
\* through the event store's own connection while this transaction holds the
\* write lock: the append fails, the transaction is rolled back, and the loop,
\* which does not catch the error, ends.
Cycle ==
  /\ loop = "on"
  /\ IF onDisk /\ Announced(Batch) # {}
     THEN /\ loop' = "dead"
          /\ UNCHANGED <<neurons, vectors>>
     ELSE /\ neurons' = Transition(Batch)
          /\ vectors' = IndexAfter(Batch)
          /\ UNCHANGED loop
  /\ UNCHANGED <<tasks, onDisk, touches, ingests, edits, kernelCrashes>>

NeuronInit ==
  /\ neurons = <<>>
  /\ vectors = {}
  /\ tasks = [t \in Tasks |-> NoTask]
  /\ loop = "off"
  /\ onDisk \in Deployments
  /\ touches = 0
  /\ ingests = 0
  /\ edits = 0
  /\ kernelCrashes = 0

IngestNext ==
  \E t \in Tasks :
    \/ \E p \in NeuronProjects \cup {NoProject}, x \in Texts, d \in Dates : StartIngest(t, p, x, d)
    \/ Activate(t)
    \/ PassCheck(t)
    \/ EmbedderFails(t)
    \/ \E pinned \in BOOLEAN : Store(t, pinned)

DistillNext ==
  \E p \in NeuronProjects, x \in Texts, d \in Dates, pinned \in BOOLEAN :
    Distill(p, x, d, pinned)

\* The steps the hash chain knows of.
ChainNext ==
  \/ IngestNext
  \/ DistillNext
  \/ KernelCrash
  \/ \E p \in NeuronProjects : ForgetProject(p)

EditNext ==
  \E i \in Ids :
    \/ RefreshSummary(i)
    \/ ArchiveSummary(i)
    \/ DoubtPrinciple(i)
    \/ \E pinned \in BOOLEAN : SetImportance(i, pinned)

NeuronNext ==
  \/ ChainNext
  \/ EditNext
  \/ \E i \in Ids : Cool(i) \/ MarkOrphan(i)
  \/ StartLoop
  \/ Cycle

NeuronSpec == NeuronInit /\ [][NeuronNext]_neuronVars

\* The host starts the loop, and the loop finds a quiet moment again and again.
NeuronFairness == WF_neuronVars(StartLoop) /\ WF_neuronVars(Cycle)

NeuronFairSpec == NeuronSpec /\ NeuronFairness

----------------------------------------------------------------------------

NeuronRow == [project : NeuronProjects \cup {NoProject}, text : Texts, prev : 0..MaxIngests,
              created : Dates, touched : Nat, status : NeuronStatuses, energy : Energies,
              pinned : BOOLEAN, bare : BOOLEAN, revived : BOOLEAN, deleted : BOOLEAN]

\* The variables have their types.
NeuronTypeOK ==
  /\ neurons \in Seq(NeuronRow)
  /\ vectors \subseteq Ids
  /\ \A t \in Tasks : tasks[t].phase \in {"idle", "embedding", "summary"}
  /\ loop \in {"off", "on", "dead"}
  /\ onDisk \in BOOLEAN
  /\ touches \in Nat
  /\ ingests \in 0..MaxIngests
  /\ edits \in 0..MaxEdits
  /\ kernelCrashes \in 0..MaxKernelCrashes

\* The vector index holds no neuron that is deleted or archived.  Of the others
\* it misses those written without a vector, those a host made active again out
\* of the archive, and at most one for each crash, which caught it between its
\* two writes: metabolism, cleaner, topic board and forgetUser lose none.  What
\* is not indexed is neither recalled by vector nor recognised as a duplicate.
Findable ==
  /\ \A i \in vectors : Undeleted(i) /\ neurons[i].status # "archived"
  /\ Cardinality({i \in Ids \ vectors : /\ Undeleted(i)
                                        /\ neurons[i].status # "archived"
                                        /\ ~ neurons[i].bare
                                        /\ ~ neurons[i].revived}) <= kernelCrashes

\* Ingesting one text again and again leaves at most as many findable copies in
\* a project as ingestions ran together: only those pass the check unseen.
CopiesBounded ==
  \A p \in NeuronProjects, x \in Texts :
    Cardinality({i \in vectors : neurons[i].project = p /\ neurons[i].text = x})
      <= Cardinality(Tasks)

\* The rows of a project that name h as their predecessor and are dated after
\* it, as a chain in time is.
After(p, h) ==
  {i \in Ids : /\ neurons[i].project = p
               /\ neurons[i].prev = h
               /\ h # Genesis => neurons[h].created < neurons[i].created}

\* A chain forks in time only among what ran together: a neuron is followed by
\* at most as many later ingestions of its project as ran together, and by one
\* distilled row.  Rows dated no later than the neuron they follow (an import
\* of old records) are not bounded: each of them takes the same newest neuron.
ForkBounded ==
  \A p \in NeuronProjects : \A h \in Ids \cup {Genesis} :
    /\ Cardinality({i \in After(p, h) : ~ neurons[i].bare}) <= Cardinality(Tasks)
    /\ \A i, j \in After(p, h) : neurons[i].bare /\ neurons[j].bare => i = j

Faded(i) == Undeleted(i) /\ neurons[i].energy = 0 /\ ~ neurons[i].pinned

\* Neurons before i in every batch for as long as they are pinned or have energy.
Holding(i) == {j \in Due : Before(j, i) /\ (neurons[j].pinned \/ neurons[j].energy > 0)}

\* A neuron that lost its energy for good leaves the active memory, for good,
\* unless a whole batch of neurons that stay is inactive for longer than it:
\* the batch is cut before the transitions are decided, and such neurons are at
\* its head again in every cycle.
FadesAway(i) ==
  <>[](i \in Ids /\ Faded(i) /\ Cardinality(Holding(i)) < BatchSize)
    => <>[](i \in Ids /\ neurons[i].status \in {"archived", "suspect"})

Fades == \A i \in 1..MaxIngests : FadesAway(i)

\* On an in-memory kernel, whose stores cannot lock each other out, the
\* metabolism archives every faded neuron no such batch stands before.
FadesInMemory == onDisk \/ Fades
====
