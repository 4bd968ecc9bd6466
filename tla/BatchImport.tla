---- MODULE BatchImport ----
(***************************************************************************)
(* Import of a source file (src/src/batch/InstalledBatchProcessor.ts and   *)
(* src/src/bin/import-support.ts): the records of the file in a window of  *)
(* time that are not marked for this window are recorded as raw evidence,  *)
(* ingested one by one, marked, and consolidated.  A record has one mark,  *)
(* which names the window it was processed in                              *)
(* (src/src/batch/IngestionCursorStore.ts).                                *)
(*                                                                         *)
(* Everything but the ingestions and the consolidation is synchronous, one *)
(* commit per row: an import can be cut there by a crash and at an await   *)
(* by a failing ingestion as well, which ends the command.  Imports of one *)
(* database do not overlap (CONCURRENT_ACCESS.md:8); sources are           *)
(* independent, one is modelled.  Records are numbered by their place in   *)
(* the file, which only grows.                                             *)
(***************************************************************************)
EXTENDS Naturals, FiniteSets, FiniteSetsExt

CONSTANTS RecordCount,
          ImportTexts,
          TextOf,       \* of a record
          ThreadOf,     \* of a record: of a Hermes source, its session
          Redact,       \* what a text is stored as (PiiRedactor)
          ImportWindows,      \* sets of records
          MaxCuts, MaxSwitches

ASSUME ImportAssumption ==
  /\ RecordCount \in Nat \ {0}
  /\ ImportWindows \subseteq (SUBSET (1..RecordCount)) \ {{}}
  /\ TextOf \in [1..RecordCount -> ImportTexts]
  /\ DOMAIN ThreadOf = 1..RecordCount
  /\ Redact \in [ImportTexts -> ImportTexts]
  /\ \A x \in ImportTexts : Redact[Redact[x]] = Redact[x]
  /\ MaxCuts \in Nat
  /\ MaxSwitches \in Nat

VARIABLES fileLength,
          evidence,     \* raw events written for a record
          ingestedAs,   \* number of times a record was ingested
          marks,        \* window in ingestion_processed_records; {}: no row
          import,       \* the import in progress
          lastWindow,   \* of the latest import
          done,         \* history: <<window, record>> of finished imports
          cuts, switches

importVars == <<fileLength, evidence, ingestedAs, marks, import, lastWindow, done, cuts, switches>>

RecordIds == 1..RecordCount
NoImport == [phase |-> "idle"]
Unmarked == {}

\* The adapter: the records of the file in the window.
Adapted(w) == w \cap 1..fileLength

\* A mutant: a source with a mark for the window is taken as imported.
PendingUnlessSeen(w) == IF \E r \in RecordIds : marks[r] = w THEN {} ELSE Adapted(w)

\* A mutant: marks are not asked.
PendingAlways(w) == Adapted(w)

\* listProcessedRecordHashes: marks of exactly this window.
Pending(w) == {r \in Adapted(w) : marks[r] # w}

Evident == {r \in RecordIds : evidence[r] > 0}

\* A mutant: only texts are compared.
TakenForText(s, r) == ThreadOf[s] = ThreadOf[r] /\ Redact[TextOf[s]] = TextOf[r]

\* findImportedRawAnchor takes the event of s for that of r if it is in r's
\* thread and has its anchor, which no other record has, or its hash: the hash
\* of an event is that of the redacted text, the one looked for that of the raw.
TakenFor(s, r) ==
  \/ s = r
  \/ ThreadOf[s] = ThreadOf[r] /\ Redact[TextOf[s]] = TextOf[r]

\* recordRawImportedEvidence, in order: a record is recorded unless an event is
\* taken for its own.  (If that is of a record that was itself not recorded, the
\* event taken for that one's is taken for this one's, since Redact changes
\* nothing twice.)
RecordedFor(S) ==
  LET new == {r \in S : \A s \in Evident \cup {q \in S : q < r} : ~ TakenFor(s, r)}
  IN  [r \in RecordIds |-> IF r \in new THEN evidence[r] + 1 ELSE evidence[r]]

GrowFile ==
  /\ fileLength < RecordCount
  /\ fileLength' = fileLength + 1
  /\ UNCHANGED <<evidence, ingestedAs, marks, import, lastWindow, done, cuts, switches>>

\* The window of the next import.
Chosen(w) ==
  /\ import = NoImport
  /\ \/ w = lastWindow \/ lastWindow = Unmarked
     \/ switches < MaxSwitches
  /\ switches' = IF w = lastWindow \/ lastWindow = Unmarked THEN switches ELSE switches + 1
  /\ lastWindow' = w

\* runOnce up to its first await.
StartImport(w) ==
  /\ Chosen(w)
  /\ evidence' = RecordedFor(Pending(w))
  /\ import' = [phase |-> IF Pending(w) = {} THEN "offline" ELSE "ingesting",
                window |-> w, pending |-> Pending(w), left |-> Pending(w), read |-> Adapted(w)]
  /\ UNCHANGED <<fileLength, ingestedAs, marks, done, cuts>>

\* The same, cut while the evidence is recorded.
StartCut(w) ==
  /\ Chosen(w)
  /\ cuts < MaxCuts
  /\ \E n \in Pending(w) : evidence' = RecordedFor({r \in Pending(w) : r < n})
  /\ cuts' = cuts + 1
  /\ UNCHANGED <<fileLength, ingestedAs, marks, import, done>>

\* The import's ingestBatch: one record after the other.
IngestRecord ==
  /\ import.phase = "ingesting"
  /\ ingestedAs' = [ingestedAs EXCEPT ![Min(import.left)] = @ + 1]
  /\ LET left == import.left \ {Min(import.left)}
     IN  import' = [import EXCEPT !.left = left,
                                  !.phase = IF left = {} THEN "marking" ELSE @]
  /\ UNCHANGED <<fileLength, evidence, marks, lastWindow, done, cuts, switches>>

\* markRecordProcessed replaces a mark of another window.
MarkedUpTo(S) == [r \in RecordIds |-> IF r \in S THEN import.window ELSE marks[r]]

MarkRecords ==
  /\ import.phase = "marking"
  /\ marks' = MarkedUpTo(import.pending)
  /\ import' = [import EXCEPT !.phase = "offline"]
  /\ UNCHANGED <<fileLength, evidence, ingestedAs, lastWindow, done, cuts, switches>>

\* updateCursor and the offline window; its failure leaves nothing to redo.
EndImport ==
  /\ import.phase = "offline"
  /\ import' = NoImport
  /\ done' = done \cup ({import.window} \X import.read)
  /\ UNCHANGED <<fileLength, evidence, ingestedAs, marks, lastWindow, cuts, switches>>

\* A mutant: a failing import marks the whole batch.
MarkedByCutAll == {MarkedUpTo(import.pending)}

\* Marks written when the import is cut: none before all is ingested.
MarkedByCut ==
  IF import.phase = "marking"
  THEN {MarkedUpTo({r \in import.pending : r < n}) : n \in 1..(RecordCount + 1)}
  ELSE {marks}

\* An ingestion fails, or the process ends.
CutImport ==
  /\ import # NoImport
  /\ cuts < MaxCuts
  /\ marks' \in MarkedByCut
  /\ import' = NoImport
  /\ cuts' = cuts + 1
  /\ UNCHANGED <<fileLength, evidence, ingestedAs, lastWindow, done, switches>>

ImportInit ==
  /\ fileLength = 0
  /\ evidence = [r \in RecordIds |-> 0]
  /\ ingestedAs = [r \in RecordIds |-> 0]
  /\ marks = [r \in RecordIds |-> Unmarked]
  /\ import = NoImport
  /\ lastWindow = Unmarked
  /\ done = {}
  /\ cuts = 0
  /\ switches = 0

ImportStep == IngestRecord \/ MarkRecords \/ EndImport

ImportNext ==
  \/ GrowFile
  \/ \E w \in ImportWindows : StartImport(w) \/ StartCut(w)
  \/ ImportStep
  \/ CutImport

ImportSpec == ImportInit /\ [][ImportNext]_importVars

\* The command is run again for as long as the user has the same window in mind.
ImportFairness ==
  /\ WF_importVars(ImportStep)
  /\ WF_importVars(lastWindow # Unmarked /\ StartImport(lastWindow))

----------------------------------------------------------------------------

\* The variables have their types.
ImportTypeOK ==
  /\ fileLength \in 0..RecordCount
  /\ evidence \in [RecordIds -> Nat] /\ Evident \subseteq 1..fileLength
  /\ ingestedAs \in [RecordIds -> 0..(1 + MaxCuts + MaxSwitches)]
  /\ marks \in [RecordIds -> ImportWindows \cup {Unmarked}]
  /\ import = NoImport \/ import.phase \in {"ingesting", "marking", "offline"}
  /\ lastWindow \in ImportWindows \cup {Unmarked}
  /\ cuts \in 0..MaxCuts
  /\ switches \in 0..MaxSwitches

\* Whatever was cut and repeated, an ingested record rests on a raw event of
\* its thread with its text, as far as redaction leaves it.  It has one such
\* event of its own at most, and two records of a thread with one text share
\* it, unless redaction changes that text: then no text is found again and each
\* record has its own.
EvidencedOnce ==
  \A r \in RecordIds :
    /\ ingestedAs[r] > 0 =>
         \E s \in Evident : /\ ThreadOf[s] = ThreadOf[r]
                           /\ Redact[TextOf[s]] = Redact[TextOf[r]]
    /\ evidence[r] <= 1
    /\ r \in Evident /\ Redact[TextOf[r]] = TextOf[r] =>
         \A s \in Evident : ThreadOf[s] = ThreadOf[r] /\ TextOf[s] = TextOf[r] => s = r

\* A record is ingested again only because an import was cut or because the
\* window changed.
ReingestBound == \A r \in RecordIds : ingestedAs[r] <= 1 + cuts + switches

\* An import repeated with one window marks every record of the file in it.
EventuallyImported ==
  \A w \in ImportWindows :
    <>[](lastWindow = w) => <>[](\A r \in Adapted(w) : marks[r] = w)

ImportQueue == INSTANCE AtLeastOnce WITH
  Events <- RecordIds,
  arrived <- 1..fileLength,
  delivered <- {r \in RecordIds : ingestedAs[r] > 0},
  acked <- {r \in RecordIds : marks[r] # Unmarked}

\* For windows with one start: the records of the file are ingested in order
\* and marked in order, each only after it was ingested.
ImportQueued == ImportQueue!Spec

\* "Imports are idempotent. Re-running the same import skips records already
\* processed by the cursor store." (README.md:224)
ImportIdempotent ==
  [][\A r \in RecordIds :
       ingestedAs'[r] # ingestedAs[r] => <<import.window, r>> \notin done]_importVars
====
