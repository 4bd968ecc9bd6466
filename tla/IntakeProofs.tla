---------------------------- MODULE IntakeProofs ----------------------------
(***************************************************************************)
(* Theorems about BatchImport, RememberQueue and Maintenance, the ways in  *)
(* which work that was left undone is taken up again, for every value of   *)
(* their constants.                                                        *)
(*                                                                         *)
(* BatchImport.  The bound on repeated ingestions is not inductive as it   *)
(* stands.  What is: a record that the next import of the same window      *)
(* would ingest, or that the present one still has to, was ingested at     *)
(* most once for every cut and every change of the window so far (Spent).  *)
(* The evidence of a record is there from the start of its import on       *)
(* (Grounds), and the refinement of AtLeastOnce needs that what an import  *)
(* skips is marked and what is marked was ingested (InOrder).              *)
(*                                                                         *)
(* RememberQueue.  Every job holds a ticket for each attempt left to it.   *)
(* An attempt gives one up and records the turn at most once, so the       *)
(* records and the tickets of a turn never exceed those its jobs came with *)
(* (Owing), wherever the jobs are moved to.                                *)
(***************************************************************************)
EXTENDS BatchImport, RememberQueue, Maintenance, SetLemmas

-----------------------------------------------------------------------------
(* Import: the inductive invariant. *)

ImportRecord ==
  {NoImport} \cup [phase : {"ingesting", "marking", "offline"}, window : ImportWindows,
                   pending : SUBSET RecordIds, left : SUBSET RecordIds, read : SUBSET RecordIds]

ImportTypes ==
  /\ fileLength \in 0..RecordCount
  /\ evidence \in [RecordIds -> Nat] /\ Evident \subseteq 1..fileLength
  /\ ingestedAs \in [RecordIds -> Nat]
  /\ marks \in [RecordIds -> ImportWindows \cup {Unmarked}]
  /\ import \in ImportRecord
  /\ lastWindow \in ImportWindows \cup {Unmarked}
  /\ cuts \in 0..MaxCuts
  /\ switches \in 0..MaxSwitches

Working == import.phase \in {"ingesting", "marking"}

\* An import has read the records of its window up to a length of the file; it
\* works on those not marked for the window.
ImportShape ==
  import # NoImport =>
    /\ import.window = lastWindow
    /\ \E m \in 0..fileLength : import.read = import.window \cap 1..m
    /\ import.pending \subseteq import.read
    /\ import.left \subseteq import.pending
    /\ import.phase = "ingesting" <=> import.left # {}
    /\ Working => import.pending = {r \in import.read : marks[r] # import.window}

HasEvidence(r) == \E s \in Evident : TakenFor(s, r)

\* No record has two events, nor have two of a thread with one plain text.
Single ==
  /\ \A r \in RecordIds : evidence[r] <= 1
  /\ \A s, t \in Evident :
       ThreadOf[s] = ThreadOf[t] /\ TextOf[s] = TextOf[t] /\ Redact[TextOf[s]] = TextOf[s] => s = t

Grounds ==
  /\ Single
  /\ \A r \in RecordIds : ingestedAs[r] > 0 => HasEvidence(r)
  /\ import # NoImport => \A r \in import.pending : HasEvidence(r)

\* Still to be ingested without another cut or change of the window.
ToDo(r) == IF Working /\ r \in import.pending THEN r \in import.left ELSE marks[r] # lastWindow

Spent ==
  /\ \A r \in RecordIds : /\ ingestedAs[r] <= 1 + cuts + switches
                          /\ ToDo(r) => ingestedAs[r] <= cuts + switches
  /\ lastWindow = Unmarked => /\ import = NoImport
                              /\ \A r \in RecordIds : ingestedAs[r] = 0

\* What is marked was ingested, what was ingested is in the file.
Ingested(r) == ingestedAs[r] > 0

Acknowledged ==
  /\ \A r \in RecordIds : marks[r] # Unmarked => Ingested(r)
  /\ \A r \in RecordIds : Ingested(r) => r <= fileLength
  /\ import # NoImport => \A r \in import.pending \ import.left : Ingested(r)

ImInv == ImportTypes /\ ImportShape /\ Grounds /\ Spent /\ Acknowledged

-----------------------------------------------------------------------------
(* Import: the state. *)

LEMMA RecordNumbers ==
  /\ RecordCount \in Nat \ {0} /\ MaxCuts \in Nat /\ MaxSwitches \in Nat
  /\ RecordIds \subseteq Nat \ {0}
  /\ \A w \in ImportWindows : w \subseteq RecordIds /\ w # Unmarked
<1>1. RecordCount \in Nat \ {0} /\ MaxCuts \in Nat /\ MaxSwitches \in Nat
  BY ImportAssumption
<1>2. ImportWindows \subseteq (SUBSET (1..RecordCount)) \ {{}}
  BY ImportAssumption
<1>3. \A w \in ImportWindows : w \subseteq RecordIds /\ w # Unmarked
  BY <1>2 DEF RecordIds, Unmarked
<1>4. RecordIds \subseteq Nat \ {0}
  BY <1>1 DEF RecordIds
<1> QED BY <1>1, <1>3, <1>4

\* If an event is taken for the second record's, and one for the first's is
\* taken for the second's, then the one is as good as the other.
LEMMA TakenThrough ==
  ASSUME NEW s \in RecordIds, NEW q \in RecordIds, NEW r \in RecordIds,
         TakenFor(s, q), TakenFor(q, r)
  PROVE  TakenFor(s, r)
<1>1. CASE s = q \/ q = r
  BY <1>1
<1>2. CASE s # q /\ q # r
  <2>1. /\ ThreadOf[s] = ThreadOf[q] /\ Redact[TextOf[s]] = TextOf[q]
        /\ ThreadOf[q] = ThreadOf[r] /\ Redact[TextOf[q]] = TextOf[r]
    BY <1>2 DEF TakenFor
  <2>2. TextOf[s] \in ImportTexts
    BY ImportAssumption DEF RecordIds
  <2>3. Redact[Redact[TextOf[s]]] = Redact[TextOf[s]]
    BY <2>2, ImportAssumption
  <2> QED BY <2>1, <2>3 DEF TakenFor
<1> QED BY <1>1, <1>2

\* What is recorded for a set of records: no record and no plain text of a
\* thread twice, none of the set left without evidence, nothing outside the set.
LEMMA EvidenceRecorded ==
  ASSUME NEW S \in SUBSET RecordIds, evidence \in [RecordIds -> Nat], Single,
         evidence' = RecordedFor(S)
  PROVE  /\ evidence' \in [RecordIds -> Nat] /\ Single'
         /\ Evident \subseteq Evident' /\ Evident' \subseteq Evident \cup S
         /\ \A r \in S : HasEvidence(r)'
<1> DEFINE new == {r \in S : \A s \in Evident \cup {q \in S : q < r} : ~ TakenFor(s, r)}
<1>1. /\ evidence' = [r \in RecordIds |-> IF r \in new THEN evidence[r] + 1 ELSE evidence[r]]
      /\ S \subseteq Nat /\ Evident \subseteq RecordIds /\ RecordIds \subseteq Nat
  BY RecordNumbers DEF RecordedFor, Evident
<1>2. /\ new \subseteq S
      /\ \A r \in new : /\ \A s \in Evident : ~ TakenFor(s, r)
                        /\ \A q \in S : q < r => ~ TakenFor(q, r)
      /\ \A r \in S \ new : \E s \in Evident \cup {q \in S : q < r} : TakenFor(s, r)
  OBVIOUS
<1> HIDE DEF new
<1>3. evidence' \in [RecordIds -> Nat]
  BY <1>1
<1>4. \A r \in new : r \in RecordIds /\ r \notin Evident /\ evidence[r] = 0
  <2> SUFFICES ASSUME NEW r \in new PROVE r \in RecordIds /\ r \notin Evident /\ evidence[r] = 0
    OBVIOUS
  <2>1. r \in RecordIds /\ TakenFor(r, r)
    BY <1>2 DEF TakenFor
  <2>2. r \notin Evident
    BY <1>2, <2>1
  <2> QED BY <2>1, <2>2 DEF Evident
<1>5. Evident' = Evident \cup new
  BY <1>1, <1>4 DEF Evident
<1>6. Single'
  <2>1. \A r \in RecordIds : evidence'[r] <= 1
    BY <1>1, <1>4 DEF Single
  <2>2. ASSUME NEW s \in Evident', NEW t \in Evident', ThreadOf[s] = ThreadOf[t],
               TextOf[s] = TextOf[t], Redact[TextOf[s]] = TextOf[s], s # t
        PROVE  FALSE
    <3>1. TakenFor(s, t) /\ TakenFor(t, s)
      BY <2>2 DEF TakenFor
    <3>2. CASE s \in Evident
      BY <1>2, <1>5, <2>2, <3>1, <3>2 DEF Single
    <3>3. CASE t \in Evident
      BY <1>2, <1>5, <2>2, <3>1, <3>3 DEF Single
    <3>4. CASE s \in new /\ t \in new
      <4>1. s \in Nat /\ t \in Nat /\ s \in S /\ t \in S
        BY <1>1, <1>2, <3>4
      <4>2. s < t \/ t < s
        BY <2>2, <4>1
      <4> QED BY <1>2, <3>1, <3>4, <4>1, <4>2
    <3> QED BY <1>5, <3>2, <3>3, <3>4
  <2> QED BY <2>1, <2>2 DEF Single
<1>7. ASSUME NEW r \in S PROVE \E s \in Evident' : TakenFor(s, r)
  <2> DEFINE same == {q \in S : TakenFor(q, r)}
             q == Min(same)
  <2>1. same \in SUBSET Nat /\ r \in same
    BY <1>1, <1>7 DEF TakenFor
  <2> HIDE DEF same
  <2>2. q \in same /\ \A p \in same : q <= p
    BY <2>1, MinOfNaturals
  <2> HIDE DEF q
  <2>3. q \in S /\ TakenFor(q, r) /\ q \in RecordIds /\ r \in RecordIds
    BY <2>2 DEF same
  <2>4. CASE q \in new
    BY <1>5, <2>3, <2>4
  <2>5. CASE q \notin new
    <3>1. PICK s \in Evident \cup {p \in S : p < q} : TakenFor(s, q)
      BY <1>2, <2>3, <2>5
    <3>2. s \in RecordIds /\ TakenFor(s, r)
      BY <1>1, <2>3, <3>1, TakenThrough
    <3>3. s \in Evident
      <4>1. ASSUME s \in S, s < q PROVE FALSE
        <5>1. s \in same /\ s \in Nat /\ q \in Nat
          BY <1>1, <2>3, <3>2, <4>1 DEF same
        <5>2. q <= s
          BY <2>2, <5>1
        <5> QED BY <4>1, <5>1, <5>2
      <4> QED BY <3>1, <4>1
    <3> QED BY <1>5, <3>2, <3>3
  <2> QED BY <2>4, <2>5
<1>8. \A r \in S : HasEvidence(r)'
  BY <1>7 DEF HasEvidence, TakenFor
<1> QED BY <1>2, <1>3, <1>5, <1>6, <1>8

\* The evidence after the records of a set are recorded, whole or in part.
LEMMA GroundsKept ==
  ASSUME ImportTypes, Grounds, NEW S, S \subseteq 1..fileLength,
         evidence' = RecordedFor(S), UNCHANGED <<ingestedAs, fileLength>>
  PROVE  /\ evidence' \in [RecordIds -> Nat] /\ Evident' \subseteq 1..fileLength'
         /\ Single'
         /\ \A r \in RecordIds : HasEvidence(r) => HasEvidence(r)'
         /\ \A r \in S : HasEvidence(r)'
<1>1. 1..fileLength \subseteq RecordIds
  BY RecordNumbers DEF ImportTypes, RecordIds
<1>2. S \in SUBSET RecordIds
  BY <1>1
<1>3. /\ evidence' \in [RecordIds -> Nat] /\ Single'
      /\ Evident \subseteq Evident' /\ Evident' \subseteq Evident \cup S
      /\ \A r \in S : HasEvidence(r)'
  BY <1>2, EvidenceRecorded DEF Grounds, ImportTypes
<1> QED BY <1>3 DEF ImportTypes, HasEvidence, TakenFor

\* The window an import begins with, after a change or not.
LEMMA WindowChosen ==
  ASSUME ImportTypes, Spent, NEW w \in ImportWindows, Chosen(w)
  PROVE  /\ import = NoImport /\ lastWindow' = w /\ w # Unmarked
         /\ switches' \in 0..MaxSwitches
         /\ switches <= switches'
         /\ \A r \in RecordIds : marks[r] # w => ingestedAs[r] <= cuts + switches'
<1>1. /\ import = NoImport /\ lastWindow' = w /\ w # Unmarked
      /\ switches \in 0..MaxSwitches /\ cuts \in Nat /\ MaxSwitches \in Nat
  BY RecordNumbers DEF Chosen, ImportTypes
<1>2. ~ Working
  BY <1>1 DEF Working, NoImport
<1>3. \A r \in RecordIds : /\ ingestedAs[r] \in Nat
                           /\ ingestedAs[r] <= 1 + cuts + switches
                           /\ marks[r] # lastWindow => ingestedAs[r] <= cuts + switches
  BY <1>2 DEF Spent, ToDo, ImportTypes
<1>4. CASE w = lastWindow
  BY <1>1, <1>3, <1>4 DEF Chosen
<1>5. CASE lastWindow = Unmarked
  BY <1>1, <1>5 DEF Chosen, Spent
<1>6. CASE w # lastWindow /\ lastWindow # Unmarked
  <2>1. switches < MaxSwitches /\ switches' = switches + 1
    BY <1>6 DEF Chosen
  <2> QED BY <1>1, <1>3, <2>1
<1> QED BY <1>1, <1>4, <1>5, <1>6

-----------------------------------------------------------------------------
(* Import: steps. *)

\* What an import in progress holds.
LEMMA ImportFields ==
  ASSUME ImInv, import # NoImport
  PROVE  /\ import = [phase |-> import.phase, window |-> import.window,
                      pending |-> import.pending, left |-> import.left, read |-> import.read]
         /\ import.phase \in {"ingesting", "marking", "offline"}
         /\ import.window \in ImportWindows /\ import.window = lastWindow
         /\ import.window # Unmarked
         /\ import.pending \subseteq RecordIds /\ import.left \subseteq RecordIds
         /\ import.read \subseteq 1..fileLength /\ import.read \subseteq RecordIds
         /\ import.left \subseteq import.pending /\ import.pending \subseteq import.read
BY RecordNumbers DEF ImInv, ImportTypes, ImportShape, ImportRecord

\* An import begins.
LEMMA ImportStarted ==
  ASSUME ImInv, NEW w \in ImportWindows, StartImport(w)
  PROVE  ImInv'
<1> DEFINE todo == Pending(w)
<1>1. /\ Chosen(w) /\ evidence' = RecordedFor(todo)
      /\ import' = [phase |-> IF todo = {} THEN "offline" ELSE "ingesting",
                    window |-> w, pending |-> todo, left |-> todo, read |-> Adapted(w)]
      /\ UNCHANGED <<fileLength, ingestedAs, marks, done, cuts>>
  BY DEF StartImport
<1>2. /\ import = NoImport /\ lastWindow' = w /\ w # Unmarked
      /\ switches' \in 0..MaxSwitches /\ switches <= switches'
      /\ \A r \in RecordIds : marks[r] # w => ingestedAs[r] <= cuts + switches'
  BY <1>1, WindowChosen DEF ImInv
<1>3. /\ todo = {r \in Adapted(w) : marks[r] # w}
      /\ Adapted(w) = w \cap 1..fileLength
      /\ w \subseteq RecordIds
  BY RecordNumbers DEF Pending, Adapted
<1>4. todo \subseteq Adapted(w) /\ todo \subseteq RecordIds /\ Adapted(w) \subseteq RecordIds
      /\ todo \subseteq 1..fileLength
  BY <1>3
<1>5. /\ import' # NoImport /\ import'.window = w /\ import'.pending = todo
      /\ import'.left = todo /\ import'.read = Adapted(w)
      /\ import'.phase = IF todo = {} THEN "offline" ELSE "ingesting"
  BY <1>1 DEF NoImport
<1> HIDE DEF todo
<1>6. /\ evidence' \in [RecordIds -> Nat] /\ Evident' \subseteq 1..fileLength'
      /\ Single'
      /\ \A r \in RecordIds : HasEvidence(r) => HasEvidence(r)'
      /\ \A r \in todo : HasEvidence(r)'
  BY <1>1, <1>4, GroundsKept DEF ImInv
<1>7. ImportTypes'
  BY <1>1, <1>2, <1>4, <1>6 DEF ImInv, ImportTypes, ImportRecord
<1>8. ImportShape'
  <2>1. fileLength \in 0..fileLength
    BY RecordNumbers DEF ImInv, ImportTypes
  <2>2. todo = {r \in Adapted(w) : marks'[r] # w}
    BY <1>1, <1>3
  <2>3. \E m \in 0..fileLength' : import'.read = import'.window \cap 1..m
    BY <1>1, <1>3, <1>5, <2>1
  <2> QED BY <1>1, <1>2, <1>4, <1>5, <2>2, <2>3 DEF ImportShape
<1>9. Grounds'
  BY <1>1, <1>5, <1>6 DEF ImInv, Grounds
<1>10. Spent'
  <2>1. \A r \in RecordIds : /\ ingestedAs[r] \in Nat
                             /\ ingestedAs[r] <= 1 + cuts + switches
    BY DEF ImInv, Spent, ImportTypes
  <2>2. cuts \in Nat /\ switches \in Nat /\ switches' \in Nat
    BY <1>2 DEF ImInv, ImportTypes
  <2>3. \A r \in RecordIds : ToDo(r)' => marks[r] # w
    BY <1>1, <1>2, <1>3, <1>5 DEF ToDo, Working
  <2> QED BY <1>1, <1>2, <2>1, <2>2, <2>3 DEF Spent
<1>11. Acknowledged'
  BY <1>1, <1>5 DEF ImInv, Acknowledged, Ingested
<1> QED BY <1>7, <1>8, <1>9, <1>10, <1>11 DEF ImInv

\* It is cut while the evidence is recorded.
LEMMA ImportStartCut ==
  ASSUME ImInv, NEW w \in ImportWindows, StartCut(w)
  PROVE  ImInv'
<1>1. /\ Chosen(w) /\ cuts < MaxCuts /\ cuts' = cuts + 1
      /\ UNCHANGED <<fileLength, ingestedAs, marks, import, done>>
  BY DEF StartCut
<1>2. PICK n \in Pending(w) : evidence' = RecordedFor({r \in Pending(w) : r < n})
  BY DEF StartCut
<1> DEFINE S == {r \in Pending(w) : r < n}
<1>3. S \subseteq 1..fileLength
  BY DEF Pending, Adapted
<1> HIDE DEF S
<1>4. /\ evidence' \in [RecordIds -> Nat] /\ Evident' \subseteq 1..fileLength'
      /\ Single'
      /\ \A r \in RecordIds : HasEvidence(r) => HasEvidence(r)'
  BY <1>1, <1>2, <1>3, GroundsKept DEF ImInv, S
<1>5. /\ import = NoImport /\ lastWindow' = w /\ w # Unmarked
      /\ switches' \in 0..MaxSwitches /\ switches <= switches'
  BY <1>1, WindowChosen DEF ImInv
<1>6. cuts \in Nat /\ cuts' \in 0..MaxCuts /\ cuts' \in Nat /\ switches \in Nat /\ switches' \in Nat
  BY <1>1, <1>5, RecordNumbers DEF ImInv, ImportTypes
<1>7. ImportTypes'
  BY <1>1, <1>4, <1>5, <1>6 DEF ImInv, ImportTypes
<1>8. ImportShape' /\ Grounds' /\ Acknowledged'
  BY <1>1, <1>4, <1>5 DEF ImInv, ImportShape, Grounds, Acknowledged, Ingested
<1>9. Spent'
  <2>1. \A r \in RecordIds : ingestedAs[r] \in Nat /\ ingestedAs[r] <= 1 + cuts + switches
    BY DEF ImInv, Spent, ImportTypes
  <2>2. cuts' = cuts + 1 /\ switches <= switches'
    BY <1>1, <1>5
  <2>3. \A r \in RecordIds : ingestedAs[r] <= cuts' + switches'
    BY <1>6, <2>1, <2>2
  <2> QED BY <1>1, <1>5, <1>6, <2>1, <2>3 DEF Spent
<1> QED BY <1>7, <1>8, <1>9 DEF ImInv

\* Nothing that is said of the evidence changes while none is recorded.
LEMMA EvidenceStill ==
  ASSUME UNCHANGED evidence
  PROVE  /\ Evident' = Evident /\ Single' = Single
         /\ \A r : HasEvidence(r)' = HasEvidence(r)
<1>1. Evident' = Evident
  BY DEF Evident
<1> QED BY <1>1 DEF Single, HasEvidence

\* One record is ingested: the first of those left.
LEMMA RecordIngested ==
  ASSUME ImInv, IngestRecord
  PROVE  /\ ImInv'
         /\ \E n \in import.left :
              /\ \A r \in import.left : n <= r
              /\ \A r \in RecordIds : Ingested(r)' <=> Ingested(r) \/ r = n
<1> DEFINE n == Min(import.left)
           left == import.left \ {n}
<1>1. /\ import.phase = "ingesting" /\ import # NoImport
      /\ ingestedAs' = [ingestedAs EXCEPT ![n] = @ + 1]
      /\ import' = [import EXCEPT !.left = left, !.phase = IF left = {} THEN "marking" ELSE @]
      /\ UNCHANGED <<fileLength, evidence, marks, lastWindow, done, cuts, switches>>
  BY DEF IngestRecord, NoImport
<1>2. /\ import = [phase |-> import.phase, window |-> import.window,
                   pending |-> import.pending, left |-> import.left, read |-> import.read]
      /\ import.window \in ImportWindows /\ import.window = lastWindow
      /\ import.window # Unmarked
      /\ import.pending \subseteq RecordIds /\ import.left \subseteq RecordIds
      /\ import.read \subseteq 1..fileLength /\ import.read \subseteq RecordIds
      /\ import.left \subseteq import.pending /\ import.pending \subseteq import.read
  BY <1>1, ImportFields
<1>3. /\ import.left # {} /\ import.left \in SUBSET Nat
      /\ import.pending = {r \in import.read : marks[r] # import.window}
  BY <1>1, <1>2, RecordNumbers DEF ImInv, ImportShape, Working
<1>4. n \in import.left /\ \A r \in import.left : n <= r
  BY <1>3, MinOfNaturals
<1> HIDE DEF n
<1>5. /\ import' # NoImport /\ import'.window = import.window
      /\ import'.pending = import.pending /\ import'.left = left /\ import'.read = import.read
      /\ import'.phase = IF left = {} THEN "marking" ELSE "ingesting"
      /\ import' \in ImportRecord
  BY <1>1, <1>2 DEF NoImport, ImportRecord
<1>6. ingestedAs \in [RecordIds -> Nat] /\ n \in RecordIds
  BY <1>2, <1>4 DEF ImInv, ImportTypes
<1>7. /\ ingestedAs' \in [RecordIds -> Nat]
      /\ \A r \in RecordIds : ingestedAs'[r] = IF r = n THEN ingestedAs[r] + 1 ELSE ingestedAs[r]
  BY <1>1, <1>6
<1>8. \A r \in RecordIds : Ingested(r)' <=> Ingested(r) \/ r = n
  BY <1>6, <1>7 DEF Ingested
<1> HIDE DEF left
<1>9. ImportTypes'
  BY <1>1, <1>5, <1>7, EvidenceStill DEF ImInv, ImportTypes
<1>10. left \subseteq import.left /\ left = import.left \ {n}
  BY DEF left
<1>11. ImportShape'
  <2>1. \E m \in 0..fileLength' : import'.read = import'.window \cap 1..m
    BY <1>1, <1>5 DEF ImInv, ImportShape
  <2> QED BY <1>1, <1>2, <1>3, <1>5, <1>10, <2>1 DEF ImportShape
<1>12. Grounds'
  <2>1. HasEvidence(n)
    BY <1>1, <1>2, <1>4 DEF ImInv, Grounds
  <2>2. Single' = Single /\ \A r : HasEvidence(r)' = HasEvidence(r)
    BY <1>1, EvidenceStill
  <2>3. \A r \in RecordIds : ingestedAs'[r] > 0 => HasEvidence(r)
    BY <1>8, <2>1 DEF ImInv, Grounds, Ingested
  <2> QED BY <1>1, <1>5, <2>2, <2>3 DEF ImInv, Grounds
<1>13. Spent'
  <2>1. cuts \in Nat /\ switches \in Nat
    BY DEF ImInv, ImportTypes
  <2>2. \A r \in RecordIds : ToDo(r)' => ToDo(r) /\ r # n
    <3>1. \A r \in import.pending : r \in import.left => ToDo(r)
      BY <1>1 DEF ToDo, Working
    <3> QED BY <1>1, <1>2, <1>4, <1>5, <1>10, <3>1 DEF ToDo, Working
  <2>3. ToDo(n)
    BY <1>1, <1>2, <1>4 DEF ToDo, Working
  <2>4. \A r \in RecordIds : /\ ingestedAs[r] <= 1 + cuts + switches
                             /\ ToDo(r) => ingestedAs[r] <= cuts + switches
    BY DEF ImInv, Spent
  <2>5. lastWindow # Unmarked
    BY <1>2
  <2>6. \A r \in RecordIds : /\ ingestedAs'[r] <= 1 + cuts + switches
                             /\ ToDo(r)' => ingestedAs'[r] <= cuts + switches
    BY <1>6, <1>7, <2>1, <2>2, <2>3, <2>4
  <2> QED BY <1>1, <2>5, <2>6 DEF Spent
<1>14. Acknowledged'
  <2>1. \A r \in RecordIds : Ingested(r) => Ingested(r)'
    BY <1>8
  <2>2. n \in 1..fileLength /\ \A r \in RecordIds : r = n => Ingested(r)'
    BY <1>2, <1>4, <1>8
  <2>3. n <= fileLength
    BY <2>2 DEF ImInv, ImportTypes
  <2> QED BY <1>1, <1>2, <1>5, <1>8, <1>10, <2>1, <2>2, <2>3 DEF ImInv, Acknowledged
<1>15. ImInv'
  BY <1>9, <1>11, <1>12, <1>13, <1>14 DEF ImInv
<1> QED BY <1>4, <1>8, <1>15

\* Marks of the import's window on some of its records.
LEMMA RecordsMarked ==
  ASSUME ImInv, import # NoImport, import.phase = "marking",
         NEW S, S \subseteq import.pending, marks' = MarkedUpTo(S)
  PROVE  /\ marks' \in [RecordIds -> ImportWindows \cup {Unmarked}]
         /\ \A r \in RecordIds : marks'[r] = IF r \in S THEN lastWindow ELSE marks[r]
         /\ \A r \in S : Ingested(r)
         /\ lastWindow # Unmarked
<1>1. /\ import.window \in ImportWindows /\ import.window = lastWindow
      /\ import.window # Unmarked
      /\ import.pending \subseteq RecordIds
  BY ImportFields
<1>2. import.left = {}
  BY DEF ImInv, ImportShape
<1>3. \A r \in S : Ingested(r)
  BY <1>2 DEF ImInv, Acknowledged
<1> QED BY <1>1, <1>3 DEF MarkedUpTo, ImInv, ImportTypes

LEMMA ImportMarked ==
  ASSUME ImInv, MarkRecords
  PROVE  ImInv'
<1>1. /\ import.phase = "marking" /\ import # NoImport
      /\ marks' = MarkedUpTo(import.pending)
      /\ import' = [import EXCEPT !.phase = "offline"]
      /\ UNCHANGED <<fileLength, evidence, ingestedAs, lastWindow, done, cuts, switches>>
  BY DEF MarkRecords, NoImport
<1>2. /\ marks' \in [RecordIds -> ImportWindows \cup {Unmarked}]
      /\ \A r \in RecordIds : marks'[r] = IF r \in import.pending THEN lastWindow ELSE marks[r]
      /\ \A r \in import.pending : Ingested(r)
      /\ lastWindow # Unmarked
  BY <1>1, RecordsMarked
<1>3. /\ import = [phase |-> import.phase, window |-> import.window,
                   pending |-> import.pending, left |-> import.left, read |-> import.read]
      /\ import.window \in ImportWindows /\ import.window = lastWindow
      /\ import.pending \subseteq RecordIds /\ import.left \subseteq RecordIds
      /\ import.read \subseteq RecordIds
      /\ import.left \subseteq import.pending /\ import.pending \subseteq import.read
  BY <1>1, ImportFields
<1>4. /\ import' # NoImport /\ import'.phase = "offline" /\ import'.window = import.window
      /\ import'.pending = import.pending /\ import'.left = import.left
      /\ import'.read = import.read
      /\ import' \in ImportRecord
  BY <1>1, <1>3 DEF NoImport, ImportRecord
<1>5. import.left = {}
  BY <1>1 DEF ImInv, ImportShape
<1>6. ImportTypes'
  BY <1>1, <1>2, <1>4, EvidenceStill DEF ImInv, ImportTypes
<1>7. ImportShape'
  <2>1. \E m \in 0..fileLength' : import'.read = import'.window \cap 1..m
    BY <1>1, <1>4 DEF ImInv, ImportShape
  <2> QED BY <1>1, <1>3, <1>4, <1>5, <2>1 DEF ImportShape, Working
<1>8. Grounds'
  BY <1>1, <1>4, EvidenceStill DEF ImInv, Grounds
<1>9. Spent'
  <2>1. \A r \in RecordIds : ToDo(r)' => ToDo(r)
    BY <1>1, <1>2, <1>4 DEF ToDo, Working
  <2> QED BY <1>1, <1>2, <2>1 DEF ImInv, Spent
<1>10. Acknowledged'
  BY <1>1, <1>2, <1>4 DEF ImInv, Acknowledged, Ingested
<1> QED BY <1>6, <1>7, <1>8, <1>9, <1>10 DEF ImInv

\* An import ends, finished or cut.
LEMMA ImportOver ==
  ASSUME ImInv, import # NoImport, import' = NoImport,
         NEW S, S \subseteq import.pending,
         \/ import.phase = "marking" /\ marks' = MarkedUpTo(S)
         \/ marks' = marks,
         \/ import.phase = "offline" /\ cuts' = cuts
         \/ cuts < MaxCuts /\ cuts' = cuts + 1,
         UNCHANGED <<fileLength, evidence, ingestedAs, lastWindow, switches>>
  PROVE  ImInv'
<1>1. lastWindow # Unmarked
  BY ImportFields
<1>2. /\ marks' \in [RecordIds -> ImportWindows \cup {Unmarked}]
      /\ \A r \in RecordIds : marks'[r] # Unmarked => Ingested(r)
      /\ \A r \in RecordIds : marks'[r] # lastWindow => marks[r] # lastWindow
  <2>1. CASE marks' = marks
    BY <2>1 DEF ImInv, ImportTypes, Acknowledged
  <2>2. CASE import.phase = "marking" /\ marks' = MarkedUpTo(S)
    <3>1. /\ marks' \in [RecordIds -> ImportWindows \cup {Unmarked}]
          /\ \A r \in RecordIds : marks'[r] = IF r \in S THEN lastWindow ELSE marks[r]
          /\ \A r \in S : Ingested(r)
      BY <2>2, RecordsMarked
    <3> QED BY <3>1 DEF ImInv, Acknowledged
  <2> QED BY <2>1, <2>2
<1>3. cuts \in Nat /\ cuts' \in 0..MaxCuts /\ switches \in Nat /\ cuts <= cuts'
  BY RecordNumbers DEF ImInv, ImportTypes
<1>4. ImportTypes'
  BY <1>2, <1>3, EvidenceStill DEF ImInv, ImportTypes, ImportRecord
<1>5. ImportShape' /\ Grounds'
  BY EvidenceStill DEF ImInv, ImportShape, Grounds
<1>6. Acknowledged'
  BY <1>2 DEF ImInv, Acknowledged, Ingested
<1>7. Spent'
  <2>1. \A r \in RecordIds : /\ ingestedAs[r] \in Nat
                             /\ ingestedAs[r] <= 1 + cuts + switches
                             /\ ToDo(r) => ingestedAs[r] <= cuts + switches
    BY DEF ImInv, Spent, ImportTypes
  <2>2. \A r \in RecordIds : ToDo(r)' => marks'[r] # lastWindow
    BY DEF ToDo, Working, NoImport
  <2>3. \A r \in RecordIds : ToDo(r)' => ingestedAs[r] <= cuts' + switches
    <3>1. CASE import.phase = "offline" /\ cuts' = cuts
      <4>1. \A r \in RecordIds : ToDo(r)' => ToDo(r)
        BY <1>2, <2>2, <3>1 DEF ToDo, Working
      <4> QED BY <2>1, <3>1, <4>1
    <3>2. CASE cuts' = cuts + 1
      BY <1>3, <2>1, <3>2
    <3> QED BY <3>1, <3>2
  <2>4. \A r \in RecordIds : ingestedAs[r] <= 1 + cuts' + switches
    BY <1>3, <2>1
  <2> QED BY <1>1, <2>3, <2>4 DEF Spent
<1> QED BY <1>4, <1>5, <1>6, <1>7 DEF ImInv

LEMMA ImportStepKeeps ==
  ASSUME ImInv, [ImportNext]_importVars
  PROVE  ImInv'
<1>1. CASE GrowFile
  <2>1. /\ fileLength < RecordCount /\ fileLength' = fileLength + 1
        /\ UNCHANGED <<evidence, ingestedAs, marks, import, lastWindow, done, cuts, switches>>
    BY <1>1 DEF GrowFile
  <2>2. fileLength \in Nat /\ fileLength' \in 0..RecordCount /\ 1..fileLength \subseteq 1..fileLength'
        /\ 0..fileLength \subseteq 0..fileLength'
    BY <2>1, RecordNumbers DEF ImInv, ImportTypes
  <2>3. ImportTypes'
    BY <2>1, <2>2, EvidenceStill DEF ImInv, ImportTypes
  <2>4. ImportShape'
    BY <2>1, <2>2 DEF ImInv, ImportShape, Working
  <2>5. Grounds' /\ Spent'
    BY <2>1, EvidenceStill DEF ImInv, Grounds, Spent, ToDo, Working
  <2>6. \A r \in RecordIds : r <= fileLength => r <= fileLength'
    BY <2>1, <2>2, RecordNumbers
  <2>7. Acknowledged'
    BY <2>1, <2>6 DEF ImInv, Acknowledged, Ingested
  <2> QED BY <2>3, <2>4, <2>5, <2>7 DEF ImInv
<1>2. ASSUME NEW w \in ImportWindows, StartImport(w) PROVE ImInv'
  BY <1>2, ImportStarted
<1>3. ASSUME NEW w \in ImportWindows, StartCut(w) PROVE ImInv'
  BY <1>3, ImportStartCut
<1>4. CASE IngestRecord
  BY <1>4, RecordIngested
<1>5. CASE MarkRecords
  BY <1>5, ImportMarked
<1>6. CASE EndImport
  <2>1. /\ import # NoImport /\ import' = NoImport /\ marks' = marks
        /\ import.phase = "offline" /\ cuts' = cuts
        /\ UNCHANGED <<fileLength, evidence, ingestedAs, lastWindow, switches>>
    BY <1>6 DEF EndImport, NoImport
  <2> QED BY <2>1, ImportOver
<1>7. CASE CutImport
  <2>1. /\ import # NoImport /\ import' = NoImport
        /\ cuts < MaxCuts /\ cuts' = cuts + 1 /\ marks' \in MarkedByCut
        /\ UNCHANGED <<fileLength, evidence, ingestedAs, lastWindow, switches>>
    BY <1>7 DEF CutImport
  <2>2. CASE marks' = marks
    BY <2>1, <2>2, ImportOver
  <2>3. ASSUME NEW n, import.phase = "marking",
               marks' = MarkedUpTo({r \in import.pending : r < n})
        PROVE  ImInv'
    <3> DEFINE S == {r \in import.pending : r < n}
    <3>1. S \subseteq import.pending /\ marks' = MarkedUpTo(S)
      BY <2>3
    <3> HIDE DEF S
    <3> QED BY <2>1, <2>3, <3>1, ImportOver
  <2> QED BY <2>1, <2>2, <2>3 DEF MarkedByCut
<1>8. CASE UNCHANGED importVars
  BY <1>8, EvidenceStill DEF importVars, ImInv, ImportTypes, ImportShape, Grounds, Spent, ToDo,
                             Working, Acknowledged, Ingested
<1> QED BY <1>1, <1>2, <1>3, <1>4, <1>5, <1>6, <1>7, <1>8 DEF ImportNext, ImportStep

LEMMA ImportBegins == ImportInit => ImInv
<1> SUFFICES ASSUME ImportInit PROVE ImInv
  OBVIOUS
<1>0. Evident = {} /\ evidence \in [RecordIds -> Nat]
  BY DEF ImportInit, Evident
<1>1. ImportTypes
  BY <1>0, RecordNumbers DEF ImportInit, ImportTypes, ImportRecord
<1>2. ImportShape /\ Grounds /\ Acknowledged
  BY <1>0 DEF ImportInit, ImportShape, Grounds, Single, HasEvidence, Acknowledged, Ingested
<1>3. \A r \in RecordIds : ingestedAs[r] = 0 /\ ~ ToDo(r)
  BY DEF ImportInit, ToDo, Working, NoImport
<1>4. Spent
  BY <1>3 DEF ImportInit, Spent
<1> QED BY <1>1, <1>2, <1>4 DEF ImInv

LEMMA ImportInvariant == ImportSpec => []ImInv
BY ImportBegins, ImportStepKeeps, PTL DEF ImportSpec

\* The file, the evidence, the marks and the import keep their types; in
\* particular the ingestions of a record stay within the bounds of the model.
THEOREM ImportTypesHold == ImportSpec => []ImportTypeOK
<1>1. ImInv => ImportTypeOK
  <2> SUFFICES ASSUME ImInv PROVE ImportTypeOK
    OBVIOUS
  <2>1. cuts \in 0..MaxCuts /\ switches \in 0..MaxSwitches
    BY DEF ImInv, ImportTypes
  <2>2. \A r \in RecordIds : ingestedAs[r] \in Nat /\ ingestedAs[r] <= 1 + cuts + switches
    BY DEF ImInv, ImportTypes, Spent
  <2>3. \A r \in RecordIds : ingestedAs[r] \in 0..(1 + MaxCuts + MaxSwitches)
    BY <2>1, <2>2, RecordNumbers
  <2>4. ingestedAs \in [RecordIds -> 0..(1 + MaxCuts + MaxSwitches)]
    BY <2>3 DEF ImInv, ImportTypes
  <2>5. import = NoImport \/ import.phase \in {"ingesting", "marking", "offline"}
    BY DEF ImInv, ImportTypes, ImportRecord
  <2> QED BY <2>4, <2>5 DEF ImInv, ImportTypes, ImportTypeOK
<1> QED BY <1>1, ImportInvariant, PTL

\* For every file, every threads and texts, every set of windows and every
\* pattern of cuts: what was ingested rests on a raw event of its thread with its
\* text, there is one at most of a record, and one of a text that redaction
\* leaves alone (findImportedRawAnchor).
THEOREM EvidenceOnce == ImportSpec => []EvidencedOnce
<1>1. ImInv => EvidencedOnce
  <2> SUFFICES ASSUME ImInv, NEW r \in RecordIds
               PROVE  /\ ingestedAs[r] > 0 =>
                           \E s \in Evident : /\ ThreadOf[s] = ThreadOf[r]
                                             /\ Redact[TextOf[s]] = Redact[TextOf[r]]
                      /\ evidence[r] <= 1
                      /\ r \in Evident /\ Redact[TextOf[r]] = TextOf[r] =>
                           \A s \in Evident :
                             ThreadOf[s] = ThreadOf[r] /\ TextOf[s] = TextOf[r] => s = r
    BY DEF EvidencedOnce
  <2>1. ASSUME ingestedAs[r] > 0
        PROVE  \E s \in Evident : /\ ThreadOf[s] = ThreadOf[r]
                                 /\ Redact[TextOf[s]] = Redact[TextOf[r]]
    <3>1. PICK s \in Evident : TakenFor(s, r)
      BY <2>1 DEF ImInv, Grounds, HasEvidence
    <3>2. TextOf[s] \in ImportTexts
      BY ImportAssumption DEF Evident, RecordIds
    <3>3. Redact[Redact[TextOf[s]]] = Redact[TextOf[s]]
      BY <3>2, ImportAssumption
    <3> QED BY <3>1, <3>3 DEF TakenFor
  <2> QED BY <2>1 DEF ImInv, Grounds, Single
<1> QED BY <1>1, ImportInvariant, PTL

\* However often an import is repeated, a record is ingested once, and once more
\* for each cut and each change of the window.
THEOREM ReingestStaysBounded == ImportSpec => []ReingestBound
<1>1. ImInv => ReingestBound
  BY DEF ImInv, Spent, ReingestBound
<1> QED BY <1>1, ImportInvariant, PTL

-----------------------------------------------------------------------------
(* Import: the queue it implements, for windows with one start. *)

OneStart == \A w \in ImportWindows : \E n \in RecordIds : w = 1..n

Marked(r) == marks[r] # Unmarked

\* No record is marked, none is ingested, before those ahead of it.
InOrder ==
  \A x, y \in RecordIds : y < x => /\ Marked(x) => Marked(y)
                                   /\ Ingested(x) => Ingested(y)

\* What is ahead of a record an import works on is its work too, or marked.
LEMMA NoneSkipped ==
  ASSUME ImInv, OneStart, Working,
         NEW x \in import.pending, NEW y \in RecordIds, y < x
  PROVE  y \in import.pending \/ Marked(y)
<1>1. import # NoImport
  BY DEF Working, NoImport
<1>2. import.window \in ImportWindows /\ import.window # Unmarked /\ import.pending \subseteq import.read
  BY <1>1, ImportFields
<1>3. PICK m \in 0..fileLength : import.read = import.window \cap 1..m
  BY <1>1 DEF ImInv, ImportShape
<1>4. PICK n \in RecordIds : import.window = 1..n
  BY <1>2 DEF OneStart
<1>5. x \in 1..n /\ x \in 1..m /\ m \in Nat /\ n \in Nat
  BY <1>2, <1>3, <1>4, RecordNumbers DEF ImInv, ImportTypes
<1>6. y \in 1..n /\ y \in 1..m
  BY <1>5, RecordNumbers
<1>7. y \in import.read
  BY <1>3, <1>4, <1>6
<1>8. import.pending = {r \in import.read : marks[r] # import.window}
  BY <1>1 DEF ImInv, ImportShape
<1> QED BY <1>2, <1>7, <1>8 DEF Marked

\* The marks of an import are added in order, even when it is cut.
LEMMA MarkedInOrder ==
  ASSUME ImInv, OneStart, InOrder, import.phase = "marking",
         NEW S, S \subseteq import.pending,
         \A x \in S, y \in import.pending : y < x => y \in S,
         marks' = MarkedUpTo(S), UNCHANGED ingestedAs
  PROVE  InOrder' /\ \A r \in RecordIds : Marked(r)' <=> Marked(r) \/ r \in S
<1>1. Working /\ import # NoImport
  BY DEF Working, NoImport
<1>2. /\ \A r \in RecordIds : marks'[r] = IF r \in S THEN lastWindow ELSE marks[r]
      /\ lastWindow # Unmarked
  BY <1>1, RecordsMarked
<1>3. \A r \in RecordIds : Marked(r)' <=> Marked(r) \/ r \in S
  BY <1>2 DEF Marked
<1>4. \A x \in S, y \in RecordIds : y < x => Marked(y) \/ y \in S
  BY <1>1, NoneSkipped
<1> QED BY <1>3, <1>4 DEF InOrder, Ingested

LEMMA OrderKept ==
  ASSUME ImInv, OneStart, InOrder, [ImportNext]_importVars
  PROVE  InOrder'
<1>1. CASE IngestRecord
  <2>1. PICK n \in import.left :
          /\ \A r \in import.left : n <= r
          /\ \A r \in RecordIds : Ingested(r)' <=> Ingested(r) \/ r = n
    BY <1>1, RecordIngested
  <2>2. import # NoImport /\ Working /\ marks' = marks
    BY <1>1 DEF IngestRecord, Working, NoImport
  <2>3. n \in import.pending /\ n \in RecordIds /\ import.left \subseteq RecordIds
    BY <2>2, ImportFields
  <2>4. ASSUME NEW y \in RecordIds, y < n PROVE Ingested(y)
    <3>1. y \notin import.left
      <4>1. n \in Nat /\ y \in Nat
        BY <2>3, RecordNumbers
      <4>2. y \in import.left => n <= y
        BY <2>1
      <4> QED BY <2>4, <4>1, <4>2
    <3>2. y \in import.pending \/ Marked(y)
      BY <2>2, <2>3, <2>4, NoneSkipped
    <3> QED BY <2>2, <3>1, <3>2 DEF ImInv, Acknowledged, Marked
  <2> QED BY <2>1, <2>2, <2>4 DEF InOrder, Marked
<1>2. CASE MarkRecords
  <2>1. /\ import.phase = "marking" /\ marks' = MarkedUpTo(import.pending)
        /\ UNCHANGED ingestedAs
    BY <1>2 DEF MarkRecords
  <2> QED BY <2>1, MarkedInOrder
<1>3. CASE CutImport /\ marks' # marks
  <2>1. PICK n \in 1..(RecordCount + 1) :
          /\ import.phase = "marking" /\ UNCHANGED ingestedAs
          /\ marks' = MarkedUpTo({r \in import.pending : r < n})
    BY <1>3 DEF CutImport, MarkedByCut
  <2> DEFINE S == {r \in import.pending : r < n}
  <2>2. import.pending \subseteq Nat /\ n \in Nat
    BY <2>1, ImportFields, RecordNumbers DEF NoImport
  <2>3. S \subseteq import.pending /\ \A x \in S, y \in import.pending : y < x => y \in S
    BY <2>2
  <2> HIDE DEF S
  <2> QED BY <2>1, <2>3, MarkedInOrder DEF S
<1>4. CASE UNCHANGED <<marks, ingestedAs>>
  BY <1>4 DEF InOrder, Marked, Ingested
<1> QED BY <1>1, <1>2, <1>3, <1>4
     DEF ImportNext, ImportStep, GrowFile, StartImport, StartCut, EndImport, CutImport, importVars

\* Each step arrives, delivers, acknowledges, or is not seen.
LEMMA QueueStep ==
  ASSUME ImInv, OneStart, InOrder, [ImportNext]_importVars
  PROVE  [ImportQueue!Next]_(ImportQueue!vars)
<1> DEFINE delivered == {r \in RecordIds : ingestedAs[r] > 0}
           acked == {r \in RecordIds : marks[r] # Unmarked}
<1>1. ImInv' /\ InOrder'
  BY ImportStepKeeps, OrderKept
<1>2. /\ delivered = {r \in RecordIds : Ingested(r)} /\ delivered' = {r \in RecordIds : Ingested(r)'}
      /\ acked = {r \in RecordIds : Marked(r)} /\ acked' = {r \in RecordIds : Marked(r)'}
  BY DEF Ingested, Marked
<1>3. RecordIds = 1..RecordCount /\ RecordCount \in Nat /\ fileLength \in 0..RecordCount
  BY RecordNumbers DEF RecordIds, ImInv, ImportTypes
<1>4. 1..fileLength \subseteq RecordIds /\ \A r \in RecordIds : r \in Nat
  BY <1>3
<1>5. CASE GrowFile
  <2>1. /\ fileLength < RecordCount /\ fileLength' = fileLength + 1
        /\ UNCHANGED <<ingestedAs, marks>>
    BY <1>5 DEF GrowFile
  <2>2. fileLength + 1 \in RecordIds /\ \A x \in 1..fileLength : x < fileLength + 1
    BY <1>3, <2>1
  <2>3. 1..fileLength' = (1..fileLength) \cup {fileLength + 1}
    BY <1>3, <2>1
  <2>4. ImportQueue!Arrive
    BY <2>1, <2>2, <2>3 DEF ImportQueue!Arrive
  <2> QED BY <2>4 DEF ImportQueue!Next
<1>6. CASE IngestRecord
  <2>1. PICK n \in import.left : \A r \in RecordIds : Ingested(r)' <=> Ingested(r) \/ r = n
    BY <1>6, RecordIngested
  <2>2. import # NoImport /\ UNCHANGED <<fileLength, marks>>
    BY <1>6 DEF IngestRecord, NoImport
  <2>3. n \in 1..fileLength /\ n \in RecordIds
    BY <1>4, <2>2, ImportFields
  <2>4. delivered' = delivered \cup {n}
    BY <1>2, <2>1, <2>3
  <2>5. \A x \in delivered', y \in 1..fileLength : y < x => y \in delivered'
    BY <1>1, <1>2, <1>4 DEF InOrder
  <2> HIDE DEF delivered, acked
  <2>6. {n} \in SUBSET (1..fileLength)
    BY <2>3
  <2>7. ImportQueue!Deliver
    BY <2>2, <2>4, <2>5, <2>6 DEF ImportQueue!Deliver, ImportQueue!Prefix, delivered
  <2> QED BY <2>7 DEF ImportQueue!Next
<1>7. CASE UNCHANGED <<fileLength, ingestedAs>> /\ marks' # marks
  <2>1. acked' \in SUBSET delivered
    BY <1>1, <1>2, <1>7 DEF ImInv, Acknowledged, Marked, Ingested
  <2>2. acked \subseteq acked'
    <3>1. import.phase = "marking" /\ \E S \in SUBSET import.pending : marks' = MarkedUpTo(S)
      BY <1>7 DEF ImportNext, ImportStep, GrowFile, StartImport, StartCut, IngestRecord,
                  MarkRecords, EndImport, CutImport, MarkedByCut, importVars
    <3>2. PICK S \in SUBSET import.pending : marks' = MarkedUpTo(S)
      BY <3>1
    <3>3. /\ \A r \in RecordIds : marks'[r] = IF r \in S THEN lastWindow ELSE marks[r]
          /\ lastWindow # Unmarked
      BY <3>1, <3>2, RecordsMarked DEF NoImport
    <3> QED BY <3>3
  <2>3. \A x \in acked', y \in 1..fileLength : y < x => y \in acked'
    BY <1>1, <1>2, <1>4 DEF InOrder
  <2> HIDE DEF delivered, acked
  <2>4. ImportQueue!Acknowledge
    BY <1>7, <2>1, <2>2, <2>3 DEF ImportQueue!Acknowledge, ImportQueue!Prefix, acked, delivered
  <2> QED BY <2>4 DEF ImportQueue!Next
<1>8. CASE UNCHANGED <<fileLength, ingestedAs, marks>>
  BY <1>8 DEF ImportQueue!vars
<1> QED BY <1>5, <1>6, <1>7, <1>8
     DEF ImportNext, ImportStep, StartImport, StartCut, MarkRecords, EndImport, CutImport, importVars

\* When the windows of a source begin with its first record, an import is an
\* at-least-once queue: records are ingested in the order of the file without
\* gaps, and marked in that order only after they were ingested.
THEOREM ImportIsQueue ==
  ASSUME OneStart
  PROVE  ImportSpec => ImportQueued
<1>1. ImportInit => ImportQueue!Init
  <2> SUFFICES ASSUME ImportInit PROVE ImportQueue!Init
    OBVIOUS
  <2>1. 1..fileLength = {}
    BY DEF ImportInit
  <2>2. \A r \in RecordIds : ingestedAs[r] = 0 /\ marks[r] = Unmarked
    BY DEF ImportInit
  <2> QED BY <2>1, <2>2 DEF ImportQueue!Init
<1>2. ImportInit => InOrder
  BY DEF ImportInit, InOrder, Marked, Ingested
<1>3. ImInv /\ InOrder /\ [ImportNext]_importVars => InOrder'
  BY OrderKept
<1>4. ImInv /\ InOrder /\ [ImportNext]_importVars => [ImportQueue!Next]_(ImportQueue!vars)
  BY QueueStep
<1> QED BY <1>1, <1>2, <1>3, <1>4, ImportInvariant, PTL
     DEF ImportSpec, ImportQueued, ImportQueue!Spec

-----------------------------------------------------------------------------
(* Remember queue: the inductive invariant. *)

Attempts == 0..(MaxAttempts - 1)

\* The job at place i of a queue is one of the turn's and has attempt a left.
Owed(q, i, a, turn) == i \in DOMAIN q /\ q[i].turn = turn /\ q[i].attempts <= a

\* The attempts left to the jobs of a turn.  Those in the queue file are told
\* apart by their place from its beginning, where nothing is taken away; those
\* of a process from the end of its own file, where nothing is added.
FileTickets(turn) == {k \in Nat \X Attempts : Owed(file, k[1], k[2], turn)}

DrainTickets(turn) ==
  {k \in Drainers \X Nat \X Attempts :
     Owed(drain[k[1]].jobs, Len(drain[k[1]].jobs) - k[2], k[3], turn)}

Owing ==
  \A turn \in Turns :
    /\ IsFiniteSet(DrainTickets(turn))
    /\ recordings[turn] + Cardinality(FileTickets(turn)) + Cardinality(DrainTickets(turn))
         <= MaxAttempts * enqueued[turn]

\* Only a process that drains has jobs.
JobsWhenDraining == \A d \in Drainers : drain[d].at # "drains" => drain[d].jobs = <<>>

\* The session's last key, and the turns that have not ended yet.
Session == /\ seenTurn \in {0, ended}
           /\ \A turn \in Turns : turn > ended => enqueued[turn] = 0

Kept(turn) ==
  \/ InHand(turn)
  \/ turn \in stranded /\ kills > 0
  \/ enqueued[turn] = 0 /\ turn > 1 /\ KeyOf[turn] = KeyOf[turn - 1]

RInv == RememberTypeOK /\ JobsWhenDraining /\ Session /\ Owing /\ \A turn \in 1..ended : Kept(turn)

-----------------------------------------------------------------------------
(* Remember queue: tickets. *)

LEMMA RememberNumbers ==
  /\ TurnCount \in Nat /\ MaxAttempts \in Nat \ {0} /\ MaxKills \in Nat /\ MaxHostRestarts \in Nat
  /\ MaxAttempts - 1 \in Attempts /\ Attempts \subseteq Nat
  /\ \A turn \in Turns : turn \in Nat \ {0}
BY RememberAssumption DEF Attempts, Turns

\* The tickets of the queue file are finitely many.
LEMMA FileTicketsFinite ==
  ASSUME RememberTypeOK, NEW turn
  PROVE  IsFiniteSet(FileTickets(turn)) /\ Cardinality(FileTickets(turn)) \in Nat
<1>1. file \in Seq(Jobs) /\ IsFiniteSet(DOMAIN file)
  BY FinitePlaces DEF RememberTypeOK
<1>2. IsFiniteSet(Attempts)
  BY RememberNumbers, FS_Interval DEF Attempts
<1>3. IsFiniteSet((DOMAIN file) \X Attempts)
  BY <1>1, <1>2, FS_Product
<1>4. FileTickets(turn) \in SUBSET ((DOMAIN file) \X Attempts)
  BY DEF FileTickets, Owed
<1> QED BY <1>3, <1>4, FS_Subset, FS_CardinalityType

\* A job appended to the queue file brings the attempts left to it.
LEMMA JobAppended ==
  ASSUME RememberTypeOK, NEW job \in Jobs, NEW turn, file' = Append(file, job)
  PROVE  FileTickets(turn)' = FileTickets(turn)
           \cup {k \in {Len(file) + 1} \X Attempts : job.turn = turn /\ job.attempts <= k[2]}
<1>1. file \in Seq(Jobs) /\ Len(file) \in Nat /\ DOMAIN file = 1..Len(file)
  BY FinitePlaces DEF RememberTypeOK
<1>2. /\ file' \in Seq(Jobs) /\ Len(file') = Len(file) + 1
      /\ \A i \in 1..Len(file) : file'[i] = file[i]
      /\ file'[Len(file) + 1] = job
  BY <1>1, AppendProperties
<1>3. DOMAIN file' = 1..(Len(file) + 1)
  BY <1>2, LenProperties
<1>4. \A i \in Nat, a \in Attempts :
        Owed(file, i, a, turn)' <=> \/ Owed(file, i, a, turn)
                                    \/ i = Len(file) + 1 /\ job.turn = turn /\ job.attempts <= a
  BY <1>1, <1>2, <1>3 DEF Owed
<1>5. Len(file) + 1 \in Nat
  BY <1>1
<1> QED BY <1>4, <1>5 DEF FileTickets

\* A process takes the first of its jobs: its tickets are gone, no other is.
LEMMA HeadTaken ==
  ASSUME RememberTypeOK, NEW d \in Drainers, drain[d].jobs # <<>>, NEW turn,
         drain' = [drain EXCEPT ![d].jobs = Tail(@)]
  PROVE  DrainTickets(turn)' \in SUBSET
           (DrainTickets(turn) \ {k \in DrainTickets(turn) :
                                    k[1] = d /\ k[2] = Len(drain[d].jobs) - 1})
<1> DEFINE q == drain[d].jobs
<1>1. q \in Seq(Jobs) /\ Len(q) \in Nat /\ DOMAIN q = 1..Len(q)
  BY FinitePlaces DEF RememberTypeOK
<1>2. /\ Tail(q) \in Seq(Jobs) /\ Len(Tail(q)) = Len(q) - 1
      /\ \A i \in 1..Len(Tail(q)) : Tail(q)[i] = q[i + 1]
  BY <1>1, HeadTailProperties
<1>3. DOMAIN Tail(q) = 1..(Len(q) - 1)
  BY <1>2, LenProperties
<1>4. drain'[d].jobs = Tail(q) /\ \A e \in Drainers \ {d} : drain'[e] = drain[e]
  BY DEF RememberTypeOK
<1> HIDE DEF q
<1>5. ASSUME NEW n \in Nat, NEW a \in Attempts, Owed(Tail(q), Len(Tail(q)) - n, a, turn)
      PROVE  Owed(q, Len(q) - n, a, turn) /\ n # Len(q) - 1
  <2>1. (Len(q) - 1) - n \in 1..(Len(q) - 1) /\ Tail(q)[(Len(q) - 1) - n] = q[Len(q) - n]
    <3>1. (Len(q) - 1) - n \in 1..(Len(q) - 1)
      BY <1>2, <1>3, <1>5 DEF Owed
    <3>2. Tail(q)[(Len(q) - 1) - n] = q[(Len(q) - 1) - n + 1]
      BY <1>2, <3>1
    <3>3. (Len(q) - 1) - n + 1 = Len(q) - n
      BY <1>1
    <3> QED BY <3>1, <3>2, <3>3
  <2>2. Len(q) - n \in 1..Len(q) /\ n # Len(q) - 1
    BY <1>1, <2>1
  <2> QED BY <1>1, <1>2, <1>5, <2>1, <2>2 DEF Owed
<1> QED
  <2> SUFFICES ASSUME NEW k \in DrainTickets(turn)'
               PROVE  k \in DrainTickets(turn) /\ ~ (k[1] = d /\ k[2] = Len(q) - 1)
    BY DEF q
  <2>1. /\ k \in Drainers \X Nat \X Attempts
        /\ Owed(drain'[k[1]].jobs, Len(drain'[k[1]].jobs) - k[2], k[3], turn)
    BY DEF DrainTickets, Owed
  <2>2. CASE k[1] = d
    <3>1. Owed(q, Len(q) - k[2], k[3], turn) /\ k[2] # Len(q) - 1
      BY <1>4, <1>5, <2>1, <2>2
    <3> QED BY <2>1, <2>2, <3>1 DEF DrainTickets, q
  <2>3. CASE k[1] # d
    BY <1>4, <2>1, <2>3 DEF DrainTickets
  <2> QED BY <2>2, <2>3

\* The tickets of the job a process takes are one more than those it would have
\* at its next attempt, and at least one.
LEMMA HeadTickets ==
  ASSUME RememberTypeOK, NEW d \in Drainers, drain[d].jobs # <<>>,
         NEW turn, turn = Head(drain[d].jobs).turn,
         IsFiniteSet(DrainTickets(turn))
  PROVE  LET head == {k \in DrainTickets(turn) : k[1] = d /\ k[2] = Len(drain[d].jobs) - 1}
             next == {k \in {Len(file) + 1} \X Attempts : Head(drain[d].jobs).attempts + 1 <= k[2]}
         IN  /\ IsFiniteSet(head) /\ Cardinality(head) \in Nat /\ Cardinality(head) >= 1
             /\ IsFiniteSet(next) /\ Cardinality(next) \in Nat
             /\ Cardinality(next) + 1 <= Cardinality(head)
<1> DEFINE q == drain[d].jobs
           job == Head(q)
           n == Len(q) - 1
           head == {k \in DrainTickets(turn) : k[1] = d /\ k[2] = n}
           next == {k \in {Len(file) + 1} \X Attempts : job.attempts + 1 <= k[2]}
           first == <<d, n, job.attempts>>
           f == [k \in next |-> <<d, n, k[2]>>]
<1>1. q \in Seq(Jobs) /\ Len(q) \in Nat \ {0} /\ DOMAIN q = 1..Len(q) /\ job = q[1] /\ job \in Jobs
  <2>1. q \in Seq(Jobs) /\ Len(q) \in Nat \ {0}
    BY EmptySeq DEF RememberTypeOK
  <2> QED BY <2>1, LenProperties
<1>2. n \in Nat /\ Len(q) - n = 1 /\ job.attempts \in Attempts
  BY <1>1 DEF Jobs, Attempts
<1>3. \A a \in Attempts : job.attempts <= a => <<d, n, a>> \in head
  <2> HIDE DEF n
  <2>1. \A a \in Attempts : job.attempts <= a => Owed(q, Len(q) - n, a, turn)
    BY <1>1, <1>2 DEF Owed
  <2> QED BY <1>2, <2>1 DEF DrainTickets
<1>4. first \in head
  BY <1>2, <1>3 DEF Attempts
<1>5. IsFiniteSet(head)
  <2>1. head \in SUBSET DrainTickets(turn)
    OBVIOUS
  <2> HIDE DEF head
  <2> QED BY <2>1, FS_Subset
<1>6. IsFiniteSet(head \ {first}) /\ Cardinality(head \ {first}) = Cardinality(head) - 1
      /\ Cardinality(head) \in Nat /\ Cardinality(head \ {first}) \in Nat
  <2> HIDE DEF head, first
  <2> QED BY <1>4, <1>5, FS_RemoveElement, FS_CardinalityType
<1>7. f \in Injection(next, head \ {first})
  <2>1. \A k \in next : /\ k[2] \in Attempts /\ job.attempts + 1 <= k[2]
                        /\ k = <<Len(file) + 1, k[2]>>
    OBVIOUS
  <2>2. \A a, b \in Nat : a + 1 <= b => a <= b /\ b # a
    OBVIOUS
  <2>3. Attempts \subseteq Nat
    BY RememberNumbers
  <2>4. \A k \in next : job.attempts <= k[2] /\ k[2] # job.attempts
    <3> HIDE DEF job, next
    <3> QED BY <1>2, <2>1, <2>2, <2>3
  <2>5. \A k \in next : f[k] \in head \ {first}
    BY <1>3, <2>1, <2>4
  <2>6. \A k, l \in next : f[k] = f[l] => k = l
    BY <2>1
  <2> HIDE DEF head, first, next
  <2> QED BY <2>5, <2>6 DEF Injection, IsInjective
<1>8. IsFiniteSet(next) /\ Cardinality(next) <= Cardinality(head \ {first})
  <2> HIDE DEF head, first, next, f
  <2> QED BY <1>6, <1>7, FS_Injection
<1>9. Cardinality(next) \in Nat
  <2> HIDE DEF next
  <2> QED BY <1>8, FS_CardinalityType
<1>10. Cardinality(next) + 1 <= Cardinality(head) /\ Cardinality(head) >= 1
  <2> HIDE DEF head, first, next
  <2> QED BY <1>6, <1>8, <1>9
<1> HIDE DEF head, next
<1>11. /\ IsFiniteSet(head) /\ Cardinality(head) \in Nat /\ Cardinality(head) >= 1
       /\ IsFiniteSet(next) /\ Cardinality(next) \in Nat
       /\ Cardinality(next) + 1 <= Cardinality(head)
  BY <1>5, <1>6, <1>8, <1>9, <1>10
<1> QED BY <1>11 DEF head, next

\* Emptying files takes tickets away, and moving no job adds none.
LEMMA TicketsKept ==
  ASSUME NEW turn,
         \A d \in Drainers : drain'[d].jobs = drain[d].jobs \/ drain'[d].jobs = <<>>
  PROVE  DrainTickets(turn)' \in SUBSET DrainTickets(turn)
BY DEF DrainTickets, Owed

LEMMA OwingKept ==
  ASSUME RememberTypeOK, Owing, UNCHANGED <<recordings, enqueued, file>>,
         \A d \in Drainers : drain'[d].jobs = drain[d].jobs \/ drain'[d].jobs = <<>>
  PROVE  Owing'
<1> SUFFICES ASSUME NEW turn \in Turns
             PROVE  /\ IsFiniteSet(DrainTickets(turn)')
                    /\ recordings[turn] + Cardinality(FileTickets(turn)')
                         + Cardinality(DrainTickets(turn)') <= MaxAttempts * enqueued[turn]
  BY DEF Owing
<1> DEFINE bound == MaxAttempts * enqueued[turn]
<1>1. FileTickets(turn)' = FileTickets(turn)
  BY DEF FileTickets, Owed
<1>2. DrainTickets(turn)' \in SUBSET DrainTickets(turn) /\ IsFiniteSet(DrainTickets(turn))
  BY TicketsKept DEF Owing
<1>3. /\ IsFiniteSet(DrainTickets(turn)')
      /\ Cardinality(DrainTickets(turn)') <= Cardinality(DrainTickets(turn))
      /\ Cardinality(DrainTickets(turn)') \in Nat /\ Cardinality(DrainTickets(turn)) \in Nat
  BY <1>2, FS_Subset, FS_CardinalityType
<1>4. Cardinality(FileTickets(turn)) \in Nat /\ recordings[turn] \in Nat /\ bound \in Nat
  BY FileTicketsFinite, RememberNumbers DEF RememberTypeOK
<1>5. recordings[turn] + Cardinality(FileTickets(turn)) + Cardinality(DrainTickets(turn)) <= bound
  BY DEF Owing
<1> HIDE DEF bound
<1>6. recordings[turn] + Cardinality(FileTickets(turn)') + Cardinality(DrainTickets(turn)') <= bound
  BY <1>1, <1>3, <1>4, <1>5
<1> QED BY <1>3, <1>6 DEF bound

\* A turn that is handed over brings as many tickets as its job has attempts.
LEMMA OwingEnqueued ==
  ASSUME RememberTypeOK, Owing, NEW new \in Turns,
         file' = Append(file, [turn |-> new, attempts |-> 0]),
         enqueued' = [enqueued EXCEPT ![new] = @ + 1], recordings' = recordings,
         \A d \in Drainers : drain'[d].jobs = drain[d].jobs
  PROVE  Owing'
<1> SUFFICES ASSUME NEW turn \in Turns
             PROVE  /\ IsFiniteSet(DrainTickets(turn)')
                    /\ recordings[turn] + Cardinality(FileTickets(turn)')
                         + Cardinality(DrainTickets(turn)') <= MaxAttempts * enqueued'[turn]
  BY DEF Owing
<1> DEFINE job == [turn |-> new, attempts |-> 0]
           added == {k \in {Len(file) + 1} \X Attempts : job.turn = turn /\ job.attempts <= k[2]}
           bound == MaxAttempts * enqueued[turn]
<1>1. job \in Jobs /\ job.turn = new
  BY RememberNumbers DEF Jobs, Attempts
<1>2. FileTickets(turn)' = FileTickets(turn) \cup added
  BY <1>1, JobAppended
<1>3. DrainTickets(turn)' = DrainTickets(turn) /\ IsFiniteSet(DrainTickets(turn))
  BY DEF DrainTickets, Owed, Owing
<1>4. /\ IsFiniteSet(Attempts) /\ Cardinality(Attempts) = MaxAttempts
      /\ MaxAttempts \in Nat
  <2>1. Cardinality(Attempts) = IF 0 > MaxAttempts - 1 THEN 0 ELSE (MaxAttempts - 1) - 0 + 1
    BY RememberNumbers, FS_Interval DEF Attempts
  <2> QED BY <2>1, RememberNumbers, FS_Interval DEF Attempts
<1>5. IsFiniteSet(added) /\ Cardinality(added) <= MaxAttempts /\ Cardinality(added) \in Nat
  <2> DEFINE g == [k \in added |-> k[2]]
  <2>1. \A k \in added : k[2] \in Attempts /\ k = <<Len(file) + 1, k[2]>>
    OBVIOUS
  <2>2. g \in Injection(added, Attempts)
    <3>1. \A k \in added : g[k] \in Attempts
      BY <2>1
    <3>2. \A k, l \in added : g[k] = g[l] => k = l
      BY <2>1
    <3> HIDE DEF added
    <3> QED BY <3>1, <3>2 DEF Injection, IsInjective
  <2>3. IsFiniteSet(added) /\ Cardinality(added) <= Cardinality(Attempts)
    <3> HIDE DEF added, g
    <3> QED BY <1>4, <2>2, FS_Injection
  <2> HIDE DEF added
  <2> QED BY <1>4, <2>3, FS_CardinalityType
<1>6. turn # new => added = {}
  BY <1>1
<1>7. IsFiniteSet(FileTickets(turn)) /\ Cardinality(FileTickets(turn)) \in Nat
  BY FileTicketsFinite
<1>8. recordings[turn] \in Nat /\ bound \in Nat /\ Cardinality(DrainTickets(turn)) \in Nat
  BY <1>3, RememberNumbers, FS_CardinalityType DEF RememberTypeOK
<1>9. recordings[turn] + Cardinality(FileTickets(turn)) + Cardinality(DrainTickets(turn)) <= bound
  BY DEF Owing
<1>10. MaxAttempts * enqueued'[turn] = IF turn = new THEN bound + MaxAttempts ELSE bound
  <2>1. enqueued[turn] \in Nat
        /\ enqueued'[turn] = IF turn = new THEN enqueued[turn] + 1 ELSE enqueued[turn]
    BY DEF RememberTypeOK
  <2>2. MaxAttempts * (enqueued[turn] + 1) = MaxAttempts * enqueued[turn] + MaxAttempts
    BY <1>4, <2>1
  <2> QED BY <2>1, <2>2
<1> HIDE DEF bound, added, job
<1>11. CASE turn = new
  <2>1. /\ Cardinality(FileTickets(turn) \cup added)
             <= Cardinality(FileTickets(turn)) + Cardinality(added)
        /\ Cardinality(FileTickets(turn) \cup added) \in Nat
    <3>1. /\ IsFiniteSet(FileTickets(turn) \cup added)
          /\ Cardinality(FileTickets(turn) \cup added)
               = Cardinality(FileTickets(turn)) + Cardinality(added)
                   - Cardinality(FileTickets(turn) \cap added)
      BY <1>5, <1>7, FS_Union
    <3>2. Cardinality(FileTickets(turn) \cap added) \in Nat
      BY <1>7, FS_Intersection, FS_CardinalityType
    <3> QED BY <1>5, <1>7, <3>1, <3>2, FS_CardinalityType
  <2> QED BY <1>2, <1>3, <1>4, <1>5, <1>7, <1>8, <1>9, <1>10, <1>11, <2>1
<1>12. CASE turn # new
  <2>1. FileTickets(turn)' = FileTickets(turn)
    BY <1>2, <1>6, <1>12
  <2> QED BY <1>3, <1>9, <1>10, <1>12, <2>1
<1> QED BY <1>11, <1>12

\* An attempt: the head of a process's file is taken, recorded once or not at
\* all, and put back with one attempt less, or not at all.
LEMMA OwingAttempted ==
  ASSUME RememberTypeOK, Owing, NEW d \in Drainers, drain[d].jobs # <<>>,
         drain' = [drain EXCEPT ![d].jobs = Tail(@)], enqueued' = enqueued,
         NEW n \in {0, 1},
         recordings' = [recordings EXCEPT ![Head(drain[d].jobs).turn] = @ + n],
         \/ file' = file
         \/ /\ Tried(Head(drain[d].jobs)).attempts < MaxAttempts
            /\ file' = Append(file, Tried(Head(drain[d].jobs)))
  PROVE  Owing'
<1> SUFFICES ASSUME NEW turn \in Turns
             PROVE  /\ IsFiniteSet(DrainTickets(turn)')
                    /\ recordings'[turn] + Cardinality(FileTickets(turn)')
                         + Cardinality(DrainTickets(turn)') <= MaxAttempts * enqueued[turn]
  BY DEF Owing
<1> DEFINE job == Head(drain[d].jobs)
           head == {k \in DrainTickets(turn) : k[1] = d /\ k[2] = Len(drain[d].jobs) - 1}
           next == {k \in {Len(file) + 1} \X Attempts : job.attempts + 1 <= k[2]}
           bound == MaxAttempts * enqueued[turn]
           F == Cardinality(FileTickets(turn))
           D == Cardinality(DrainTickets(turn))
<1>1. job \in Jobs
  <2>1. drain[d].jobs \in Seq(Jobs)
    BY DEF RememberTypeOK
  <2> QED BY <2>1, HeadTailProperties
<1>2. DrainTickets(turn)' \in SUBSET (DrainTickets(turn) \ head)
  BY HeadTaken
<1>3. IsFiniteSet(DrainTickets(turn)) /\ D \in Nat
  BY FS_CardinalityType DEF Owing
<1>4. IsFiniteSet(FileTickets(turn)) /\ F \in Nat
  BY FileTicketsFinite
<1>5. recordings[turn] \in Nat /\ bound \in Nat /\ recordings[turn] + F + D <= bound
  BY RememberNumbers DEF RememberTypeOK, Owing
<1>6. head \in SUBSET DrainTickets(turn)
  OBVIOUS
<1>7. recordings'[turn] = IF turn = job.turn THEN recordings[turn] + n ELSE recordings[turn]
  BY <1>1 DEF RememberTypeOK
<1> HIDE DEF head, next, bound, job
<1>8. /\ IsFiniteSet(DrainTickets(turn) \ head) /\ IsFiniteSet(head) /\ Cardinality(head) \in Nat
      /\ Cardinality(DrainTickets(turn) \ head) = D - Cardinality(head)
  <2>1. head = DrainTickets(turn) \cap head
    BY <1>6
  <2>2. /\ IsFiniteSet(DrainTickets(turn) \ head)
        /\ Cardinality(DrainTickets(turn) \ head) = D - Cardinality(DrainTickets(turn) \cap head)
    BY <1>3, FS_Difference
  <2> QED BY <1>3, <1>6, <2>1, <2>2, FS_Subset, FS_CardinalityType
<1>9. /\ IsFiniteSet(DrainTickets(turn)') /\ Cardinality(DrainTickets(turn)') \in Nat
      /\ Cardinality(DrainTickets(turn)') <= D - Cardinality(head)
  BY <1>2, <1>8, FS_Subset, FS_CardinalityType
<1>10. CASE turn = job.turn
  <2>1. /\ Cardinality(head) >= 1
        /\ IsFiniteSet(next) /\ Cardinality(next) \in Nat
        /\ Cardinality(next) + 1 <= Cardinality(head)
    BY <1>3, <1>10, HeadTickets DEF head, next, job
  <2>2. Cardinality(FileTickets(turn)') \in Nat
        /\ Cardinality(FileTickets(turn)') <= F + Cardinality(next)
    <3>1. CASE file' = file
      <4>1. FileTickets(turn)' = FileTickets(turn)
        BY <3>1 DEF FileTickets, Owed
      <4> QED BY <1>4, <2>1, <4>1
    <3>2. CASE /\ Tried(job).attempts < MaxAttempts
               /\ file' = Append(file, Tried(job))
      <4>1. Tried(job) \in Jobs /\ Tried(job).turn = turn
            /\ Tried(job).attempts = job.attempts + 1
        BY <1>1, <1>10, <3>2, RememberNumbers DEF Tried, Jobs
      <4>2. FileTickets(turn)' = FileTickets(turn)
              \cup {k \in {Len(file) + 1} \X Attempts :
                      Tried(job).turn = turn /\ Tried(job).attempts <= k[2]}
        BY <3>2, <4>1, JobAppended
      <4>3. FileTickets(turn)' = FileTickets(turn) \cup next
        BY <4>1, <4>2 DEF next
      <4>4. /\ IsFiniteSet(FileTickets(turn) \cup next)
            /\ Cardinality(FileTickets(turn) \cup next)
                 = F + Cardinality(next) - Cardinality(FileTickets(turn) \cap next)
        BY <1>4, <2>1, FS_Union
      <4>5. Cardinality(FileTickets(turn) \cap next) \in Nat
            /\ Cardinality(FileTickets(turn) \cup next) \in Nat
        BY <1>4, <4>4, FS_Intersection, FS_CardinalityType
      <4> QED BY <1>4, <2>1, <4>3, <4>4, <4>5
    <3> QED BY <3>1, <3>2 DEF job
  <2>3. recordings'[turn] <= recordings[turn] + 1 /\ recordings'[turn] \in Nat
    BY <1>5, <1>7, <1>10
  <2> HIDE DEF F, D
  <2>4. \A before, after, r, r1, f1, d1 \in Nat :
           /\ after + 1 <= before /\ r1 <= r + 1 /\ r + F + D <= bound
           /\ f1 <= F + after /\ d1 <= D - before
           => r1 + f1 + d1 <= bound
    BY <1>3, <1>4, <1>5
  <2>5. recordings'[turn] + Cardinality(FileTickets(turn)') + Cardinality(DrainTickets(turn)') <= bound
    BY <1>5, <1>8, <1>9, <2>1, <2>2, <2>3, <2>4
  <2> QED BY <1>9, <2>5 DEF bound
<1>11. CASE turn # job.turn
  <2>1. FileTickets(turn)' = FileTickets(turn)
    <3>1. CASE file' = file
      BY <3>1 DEF FileTickets, Owed
    <3>2. CASE /\ Tried(job).attempts < MaxAttempts
               /\ file' = Append(file, Tried(job))
      <4>1. Tried(job) \in Jobs /\ Tried(job).turn # turn
        BY <1>1, <1>11, <3>2, RememberNumbers DEF Tried, Jobs
      <4>2. FileTickets(turn)' = FileTickets(turn)
              \cup {k \in {Len(file) + 1} \X Attempts :
                      Tried(job).turn = turn /\ Tried(job).attempts <= k[2]}
        BY <3>2, <4>1, JobAppended
      <4> QED BY <4>1, <4>2
    <3> QED BY <3>1, <3>2 DEF job
  <2> HIDE DEF D
  <2>2. recordings'[turn] + Cardinality(FileTickets(turn)') + Cardinality(DrainTickets(turn)') <= bound
    BY <1>3, <1>4, <1>5, <1>7, <1>8, <1>9, <1>11, <2>1
  <2> QED BY <1>9, <2>2 DEF bound
<1> QED BY <1>10, <1>11

\* A process takes the whole queue file.
LEMMA OwingTaken ==
  ASSUME RememberTypeOK, Owing, NEW d \in Drainers, drain[d].jobs = <<>>,
         drain' = [drain EXCEPT ![d] = [at |-> "drains", jobs |-> file]],
         file' = <<>>, UNCHANGED <<recordings, enqueued>>
  PROVE  Owing'
<1> SUFFICES ASSUME NEW turn \in Turns
             PROVE  /\ IsFiniteSet(DrainTickets(turn)')
                    /\ recordings[turn] + Cardinality(FileTickets(turn)')
                         + Cardinality(DrainTickets(turn)') <= MaxAttempts * enqueued[turn]
  BY DEF Owing
<1> DEFINE taken == {k \in DrainTickets(turn)' : k[1] = d}
           f == [k \in taken |-> <<Len(file) - k[2], k[3]>>]
           bound == MaxAttempts * enqueued[turn]
           F == Cardinality(FileTickets(turn))
           D == Cardinality(DrainTickets(turn))
<1>1. file \in Seq(Jobs) /\ Len(file) \in Nat /\ DOMAIN file = 1..Len(file)
  BY FinitePlaces DEF RememberTypeOK
<1>2. drain'[d].jobs = file /\ \A e \in Drainers \ {d} : drain'[e] = drain[e]
  BY DEF RememberTypeOK
<1>3. \A k \in taken : /\ k[2] \in Nat /\ k[3] \in Attempts /\ k = <<d, k[2], k[3]>>
                       /\ Owed(file, Len(file) - k[2], k[3], turn)
  BY <1>2 DEF DrainTickets, Owed
<1>4. f \in Injection(taken, FileTickets(turn))
  <2>1. \A k \in taken : f[k] \in FileTickets(turn)
    <3> SUFFICES ASSUME NEW k \in taken PROVE <<Len(file) - k[2], k[3]>> \in FileTickets(turn)
      OBVIOUS
    <3>1. Owed(file, Len(file) - k[2], k[3], turn) /\ k[3] \in Attempts
      BY <1>3
    <3>2. Len(file) - k[2] \in Nat
      BY <1>1, <3>1 DEF Owed
    <3> HIDE DEF taken
    <3> QED BY <3>1, <3>2 DEF FileTickets
  <2>2. \A k, l \in taken : f[k] = f[l] => k = l
    <3> SUFFICES ASSUME NEW k \in taken, NEW l \in taken, f[k] = f[l] PROVE k = l
      OBVIOUS
    <3>1. Len(file) - k[2] = Len(file) - l[2] /\ k[3] = l[3]
      OBVIOUS
    <3>2. k[2] \in Nat /\ l[2] \in Nat
      BY <1>3
    <3>3. k[2] = l[2]
      BY <1>1, <3>1, <3>2
    <3> QED BY <1>3, <3>1, <3>3
  <2> HIDE DEF taken
  <2> QED BY <2>1, <2>2 DEF Injection, IsInjective
<1>5. IsFiniteSet(FileTickets(turn)) /\ F \in Nat
  BY FileTicketsFinite
<1>6. IsFiniteSet(taken) /\ Cardinality(taken) <= F
  <2> HIDE DEF taken, f
  <2> QED BY <1>4, <1>5, FS_Injection
<1>7. IsFiniteSet(DrainTickets(turn)) /\ D \in Nat
  BY FS_CardinalityType DEF Owing
<1>8. DrainTickets(turn)' \in SUBSET (DrainTickets(turn) \cup taken)
  BY <1>2 DEF DrainTickets, Owed
<1>9. FileTickets(turn)' = {}
  <2>1. DOMAIN file' = {}
    OBVIOUS
  <2> QED BY <2>1 DEF FileTickets, Owed
<1>10. recordings[turn] \in Nat /\ bound \in Nat /\ recordings[turn] + F + D <= bound
  BY RememberNumbers DEF RememberTypeOK, Owing
<1> HIDE DEF taken, bound
<1>11. /\ IsFiniteSet(DrainTickets(turn) \cup taken)
       /\ Cardinality(DrainTickets(turn) \cup taken)
            = D + Cardinality(taken) - Cardinality(DrainTickets(turn) \cap taken)
  BY <1>6, <1>7, FS_Union
<1>12. /\ Cardinality(DrainTickets(turn) \cap taken) \in Nat /\ Cardinality(taken) \in Nat
       /\ Cardinality(DrainTickets(turn) \cup taken) \in Nat
  BY <1>6, <1>7, <1>11, FS_Intersection, FS_CardinalityType
<1>13. /\ IsFiniteSet(DrainTickets(turn)') /\ Cardinality(DrainTickets(turn)') \in Nat
       /\ Cardinality(DrainTickets(turn)') <= Cardinality(DrainTickets(turn) \cup taken)
  BY <1>8, <1>11, FS_Subset, FS_CardinalityType
<1>14. Cardinality(FileTickets(turn)') = 0
  BY <1>9, FS_EmptySet
<1> HIDE DEF F, D
<1>15. recordings[turn] + Cardinality(FileTickets(turn)') + Cardinality(DrainTickets(turn)') <= bound
  BY <1>5, <1>6, <1>7, <1>10, <1>11, <1>12, <1>13, <1>14
<1> QED BY <1>13, <1>15 DEF bound

-----------------------------------------------------------------------------
(* Remember queue: the steps. *)

LEMMA JobsOfFiles ==
  ASSUME NEW q \in Seq(Jobs)
  PROVE  /\ JobsOf(<<>>) = {} /\ JobsOf(q) \subseteq Turns
         /\ \A job \in Jobs : JobsOf(Append(q, job)) = JobsOf(q) \cup {job.turn}
         /\ q # <<>> => /\ Head(q) \in Jobs /\ Tail(q) \in Seq(Jobs)
                        /\ JobsOf(q) = {Head(q).turn} \cup JobsOf(Tail(q))
<1>1. JobsOf(<<>>) = {}
  BY DEF JobsOf
<1>2. Len(q) \in Nat /\ DOMAIN q = 1..Len(q) /\ \A i \in 1..Len(q) : q[i] \in Jobs
  BY LenProperties, ElementOfSeq
<1>3. JobsOf(q) \subseteq Turns
  BY <1>2 DEF JobsOf, Jobs
<1>4. ASSUME NEW job \in Jobs
      PROVE  JobsOf(Append(q, job)) = JobsOf(q) \cup {job.turn}
  <2>1. /\ DOMAIN Append(q, job) = 1..(Len(q) + 1)
        /\ \A i \in 1..Len(q) : Append(q, job)[i] = q[i]
        /\ Append(q, job)[Len(q) + 1] = job
    <3>1. /\ Append(q, job) \in Seq(Jobs) /\ Len(Append(q, job)) = Len(q) + 1
          /\ \A i \in 1..Len(q) : Append(q, job)[i] = q[i]
          /\ Append(q, job)[Len(q) + 1] = job
      BY AppendProperties
    <3> QED BY <3>1, LenProperties
  <2>2. 1..(Len(q) + 1) = (1..Len(q)) \cup {Len(q) + 1}
    BY <1>2
  <2> QED BY <1>2, <2>1, <2>2 DEF JobsOf
<1>5. ASSUME q # <<>>
      PROVE  /\ Head(q) \in Jobs /\ Tail(q) \in Seq(Jobs)
             /\ JobsOf(q) = {Head(q).turn} \cup JobsOf(Tail(q))
  <2>1. /\ Head(q) = q[1] /\ Tail(q) \in Seq(Jobs) /\ Len(Tail(q)) = Len(q) - 1
        /\ \A i \in 1..Len(Tail(q)) : Tail(q)[i] = q[i + 1]
    BY <1>5, HeadTailProperties
  <2>2. DOMAIN Tail(q) = 1..(Len(q) - 1)
    BY <2>1, LenProperties
  <2>3. Len(q) \in Nat \ {0} /\ 1 \in 1..Len(q)
    BY <1>2, <1>5, EmptySeq
  <2>4. \A i \in 1..Len(q) : i = 1 \/ i - 1 \in 1..(Len(q) - 1)
    BY <2>3
  <2>5. \A i \in 1..(Len(q) - 1) : i + 1 \in 1..Len(q)
    BY <2>3
  <2>6. JobsOf(q) \subseteq {Head(q).turn} \cup JobsOf(Tail(q))
    <3> SUFFICES ASSUME NEW i \in 1..Len(q)
                 PROVE  q[i].turn \in {Head(q).turn} \cup JobsOf(Tail(q))
      BY <1>2 DEF JobsOf
    <3>1. CASE i = 1
      BY <2>1, <3>1
    <3>2. CASE i # 1
      <4>1. i - 1 \in 1..(Len(q) - 1) /\ (i - 1) + 1 = i
        BY <2>4, <3>2
      <4>2. Tail(q)[i - 1] = q[i]
        BY <2>1, <4>1
      <4> QED BY <2>2, <4>1, <4>2 DEF JobsOf
    <3> QED BY <3>1, <3>2
  <2>7. {Head(q).turn} \cup JobsOf(Tail(q)) \subseteq JobsOf(q)
    <3>1. Head(q).turn \in JobsOf(q)
      BY <1>2, <2>1, <2>3 DEF JobsOf
    <3>2. JobsOf(Tail(q)) \subseteq JobsOf(q)
      BY <1>2, <2>1, <2>2, <2>5 DEF JobsOf
    <3> QED BY <3>1, <3>2
  <2> QED BY <1>2, <2>1, <2>3, <2>6, <2>7
<1> QED BY <1>1, <1>3, <1>4, <1>5

\* A turn stays kept when what holds it moves on to where it is still seen, or
\* strands with a killed process.
LEMMA KeptMoves ==
  ASSUME NEW turn, Kept(turn), enqueued' = enqueued,
         stranded \subseteq stranded', kills > 0 => kills' > 0,
         InHand(turn) => InHand(turn)' \/ (turn \in stranded' /\ kills' > 0)
  PROVE  Kept(turn)'
BY DEF Kept

LEMMA TurnEndsKeeps ==
  ASSUME RInv, NEW turn \in Turns, TurnEnds(turn)
  PROVE  RInv'
<1> DEFINE new == [turn |-> turn, attempts |-> 0]
<1> USE DEF RInv
<1>1. /\ ended' = turn /\ seenTurn' = turn /\ turn \in Nat \ {0} /\ ended \in Nat
      /\ turn = ended \/ turn = ended + 1
      /\ UNCHANGED <<locked, deadLetters, stranded, recordings, kills, hostRestarts>>
  BY RememberNumbers DEF TurnEnds, RememberTypeOK
<1>2. \A u \in 1..turn : u # turn => u \in 1..ended
  BY <1>1
<1>3. \A u \in Turns : u > turn => u > ended /\ u # turn
  BY <1>1 DEF Turns
<1>4. turn \in 0..TurnCount
  BY DEF Turns
<1>5. CASE DuplicateTurn(turn) /\ UNCHANGED <<enqueued, file, drain>>
  <2>1. RememberTypeOK'
    BY <1>1, <1>4, <1>5 DEF RememberTypeOK
  <2>2. JobsWhenDraining' /\ Session'
    <3>1. JobsWhenDraining'
      BY <1>5 DEF JobsWhenDraining
    <3>2. Session'
      BY <1>1, <1>3, <1>5 DEF Session
    <3> QED BY <3>1, <3>2
  <2>3. Owing'
    BY <1>1, <1>5, OwingKept
  <2>4. ASSUME NEW u \in 1..turn
        PROVE  Kept(u)'
    <3>1. CASE u \in 1..ended
      <4>1. InHand(u) => InHand(u)'
        BY <1>1, <1>5 DEF InHand
      <4> QED BY <1>1, <1>5, <3>1, <4>1, KeptMoves
    <3>2. CASE u \notin 1..ended
      <4>1. u = turn /\ turn = ended + 1
        BY <1>1, <1>2, <3>2
      <4>2. seenTurn = ended /\ ended # 0 /\ KeyOf[turn] = KeyOf[ended]
        BY <1>5 DEF DuplicateTurn, Session
      <4>3. enqueued[turn] = 0 /\ turn > 1 /\ ended = turn - 1
        BY <1>1, <4>1, <4>2 DEF Session
      <4> QED BY <1>5, <4>1, <4>2, <4>3 DEF Kept
    <3> QED BY <3>1, <3>2
  <2> QED BY <1>1, <2>1, <2>2, <2>3, <2>4
<1>6. ASSUME enqueued' = [enqueued EXCEPT ![turn] = @ + 1], file' = Append(file, new),
             NEW d \in Drainers, drain[d] = Gone, drain' = [drain EXCEPT ![d].at = "spawned"]
      PROVE  RInv'
  <2>1. file \in Seq(Jobs) /\ new \in Jobs /\ new.turn = turn
    BY RememberNumbers DEF RememberTypeOK, Jobs, Attempts
  <2>2. file' \in Seq(Jobs) /\ JobsOf(file') = JobsOf(file) \cup {turn}
    BY <1>6, <2>1, AppendProperties, JobsOfFiles
  <2>3. /\ drain' \in [Drainers -> [at : {"gone", "spawned", "found", "holds", "drains"},
                                    jobs : Seq(Jobs)]]
        /\ \A e \in Drainers : drain'[e].jobs = drain[e].jobs
        /\ \A e \in Drainers : drain'[e].at = IF e = d THEN "spawned" ELSE drain[e].at
    BY <1>6 DEF RememberTypeOK
  <2>4. /\ enqueued' \in [Turns -> Nat]
        /\ \A u \in Turns : u # turn => enqueued'[u] = enqueued[u]
    BY <1>6 DEF RememberTypeOK
  <2>5. RememberTypeOK'
    BY <1>1, <1>4, <2>2, <2>3, <2>4 DEF RememberTypeOK
  <2>6. JobsWhenDraining'
    <3>1. drain[d].jobs = <<>>
      BY <1>6 DEF Gone
    <3> QED BY <2>3, <3>1 DEF JobsWhenDraining
  <2>7. Session'
    BY <1>1, <1>3, <2>4 DEF Session
  <2>8. Owing'
    BY <1>1, <1>6, <2>3, OwingEnqueued
  <2>9. ASSUME NEW u \in 1..turn
        PROVE  Kept(u)'
    <3>1. CASE u = turn
      <4>1. InHand(u)'
        BY <2>2, <3>1 DEF InHand
      <4> QED BY <4>1 DEF Kept
    <3>2. CASE u # turn
      <4>1. Kept(u) /\ u \in Turns
        <5>1. u \in Turns
          BY <1>1, RememberNumbers DEF Turns
        <5> QED BY <1>2, <3>2, <5>1
      <4>2. InHand(u) => InHand(u)'
        BY <1>1, <2>2, <2>3 DEF InHand
      <4> QED BY <1>1, <2>4, <3>2, <4>1, <4>2 DEF Kept
    <3> QED BY <3>1, <3>2
  <2> QED BY <1>1, <2>5, <2>6, <2>7, <2>8, <2>9
<1> QED BY <1>5, <1>6 DEF TurnEnds

\* The steps that move no job: a host that restarts, a process that looks for
\* the queue, for the lock, or finds the queue drained, one that ends.
LEMMA IdleKeeps ==
  ASSUME RInv, RememberTypeOK', seenTurn' \in {0, seenTurn},
         UNCHANGED <<ended, enqueued, file, deadLetters, stranded, recordings, kills>>,
         \A d \in Drainers : /\ drain'[d].jobs = drain[d].jobs
                             /\ drain'[d].at # "drains" => drain[d].at # "drains" \/ drain[d].jobs = <<>>
  PROVE  RInv'
<1>1. JobsWhenDraining'
  BY DEF RInv, JobsWhenDraining
<1>2. Session'
  BY DEF RInv, Session
<1>3. Owing'
  BY OwingKept DEF RInv
<1>4. ASSUME NEW u \in 1..ended PROVE Kept(u)'
  <2>1. InHand(u) => InHand(u)'
    BY DEF InHand
  <2> QED BY <2>1, KeptMoves DEF RInv
<1> QED BY <1>1, <1>2, <1>3, <1>4 DEF RInv

\* A process takes the queue file, and the jobs with it.
LEMMA TakenKeeps ==
  ASSUME RInv, NEW d \in Drainers, TakeQueue(d), file # <<>>
  PROVE  RInv'
<1> USE DEF RInv
<1>1. /\ drain[d].jobs = <<>> /\ file' = <<>>
      /\ drain' = [drain EXCEPT ![d] = [at |-> "drains", jobs |-> file]]
      /\ UNCHANGED <<ended, seenTurn, enqueued, kills, hostRestarts, locked, deadLetters,
                     stranded, recordings>>
  BY DEF TakeQueue, drainUnchanged, JobsWhenDraining
<1>2. /\ drain'[d] = [at |-> "drains", jobs |-> file]
      /\ \A e \in Drainers \ {d} : drain'[e] = drain[e]
  BY <1>1 DEF RememberTypeOK
<1>3. RememberTypeOK'
  <2>1. file \in Seq(Jobs) /\ file' \in Seq(Jobs)
    BY <1>1, EmptySeq DEF RememberTypeOK
  <2>2. drain' \in [Drainers -> [at : {"gone", "spawned", "found", "holds", "drains"},
                                 jobs : Seq(Jobs)]]
    BY <1>1, <2>1 DEF RememberTypeOK
  <2> QED BY <1>1, <2>1, <2>2 DEF RememberTypeOK
<1>4. JobsWhenDraining'
  BY <1>2 DEF JobsWhenDraining
<1>5. Session'
  BY <1>1 DEF Session
<1>6. Owing'
  BY <1>1, OwingTaken
<1>7. ASSUME NEW u \in 1..ended PROVE Kept(u)'
  <2>1. JobsOf(drain[d].jobs) = {}
    BY <1>1 DEF JobsOf
  <2>2. u \in JobsOf(file) => u \in JobsOf(drain'[d].jobs)
    BY <1>2
  <2>3. \A e \in Drainers : u \in JobsOf(drain[e].jobs) => u \in JobsOf(drain'[e].jobs)
    BY <1>2, <2>1
  <2>4. InHand(u) => InHand(u)'
    BY <1>1, <2>2, <2>3 DEF InHand
  <2> QED BY <1>1, <2>4, KeptMoves
<1> QED BY <1>1, <1>3, <1>4, <1>5, <1>6, <1>7

LEMMA JobTried ==
  ASSUME NEW job \in Jobs, Tried(job).attempts < MaxAttempts
  PROVE  Tried(job) \in Jobs /\ Tried(job).turn = job.turn
<1>1. /\ job.turn \in Turns /\ job.attempts \in Nat
      /\ Tried(job) = [turn |-> job.turn, attempts |-> job.attempts + 1]
  BY RememberNumbers DEF Tried, Jobs
<1> QED BY <1>1, RememberNumbers DEF Jobs

\* A process handles its first job: the turn is recorded, or the job goes back
\* to the queue file, or to the dead letters.
LEMMA AttemptKeeps ==
  ASSUME RInv, NEW d \in Drainers, drain[d].at = "drains", drain[d].jobs # <<>>,
         drain' = [drain EXCEPT ![d].jobs = Tail(@)],
         UNCHANGED <<ended, seenTurn, enqueued, locked, stranded, kills, hostRestarts>>,
         NEW n \in {0, 1},
         recordings' = [recordings EXCEPT ![Head(drain[d].jobs).turn] = @ + n],
         \/ file' = file
         \/ /\ Tried(Head(drain[d].jobs)).attempts < MaxAttempts
            /\ file' = Append(file, Tried(Head(drain[d].jobs))),
         deadLetters' \in {deadLetters, deadLetters \cup {Head(drain[d].jobs).turn}},
         \/ n = 1
         \/ /\ Tried(Head(drain[d].jobs)).attempts < MaxAttempts
            /\ file' = Append(file, Tried(Head(drain[d].jobs)))
         \/ deadLetters' = deadLetters \cup {Head(drain[d].jobs).turn}
  PROVE  RInv'
<1> DEFINE job == Head(drain[d].jobs)
           rest == Tail(drain[d].jobs)
<1> USE DEF RInv
<1>1. /\ drain[d].jobs \in Seq(Jobs) /\ job \in Jobs /\ rest \in Seq(Jobs)
      /\ JobsOf(drain[d].jobs) = {job.turn} \cup JobsOf(rest)
  <2>1. drain[d].jobs \in Seq(Jobs)
    BY DEF RememberTypeOK
  <2> QED BY <2>1, JobsOfFiles
<1>2. /\ drain'[d].jobs = rest /\ drain'[d].at = "drains"
      /\ \A e \in Drainers \ {d} : drain'[e] = drain[e]
      /\ drain' \in [Drainers -> [at : {"gone", "spawned", "found", "holds", "drains"},
                                  jobs : Seq(Jobs)]]
  BY <1>1 DEF RememberTypeOK
<1>3. job.turn \in Turns
  BY <1>1 DEF Jobs
<1>4. /\ recordings' \in [Turns -> Nat]
      /\ \A u \in Turns : recordings'[u] = IF u = job.turn THEN recordings[u] + n ELSE recordings[u]
  BY <1>3 DEF RememberTypeOK
<1>5. ASSUME Tried(job).attempts < MaxAttempts, file' = Append(file, Tried(job))
      PROVE  file' \in Seq(Jobs) /\ JobsOf(file') = JobsOf(file) \cup {job.turn}
  <2>1. Tried(job) \in Jobs /\ Tried(job).turn = job.turn
    <3> HIDE DEF job
    <3> QED BY <1>1, <1>5, JobTried
  <2>2. file \in Seq(Jobs)
    BY DEF RememberTypeOK
  <2> QED BY <1>5, <2>1, <2>2, AppendProperties, JobsOfFiles
<1>6. file' \in Seq(Jobs) /\ JobsOf(file) \subseteq JobsOf(file')
  BY <1>5 DEF RememberTypeOK
<1>7. RememberTypeOK'
  BY <1>2, <1>3, <1>4, <1>6 DEF RememberTypeOK
<1>8. JobsWhenDraining'
  BY <1>2 DEF JobsWhenDraining
<1>9. Session'
  BY DEF Session
<1>10. Owing'
  BY OwingAttempted
<1>11. ASSUME NEW u \in 1..ended PROVE Kept(u)'
  <2>1. u \in Turns
    BY RememberNumbers DEF Turns, RememberTypeOK
  <2>2. u \in JobsOf(drain[d].jobs) => u = job.turn \/ u \in JobsOf(drain'[d].jobs)
    BY <1>1, <1>2
  <2>3. u = job.turn => InHand(u)'
    <3>1. CASE n = 1 /\ u = job.turn
      <4>1. recordings'[u] = recordings[u] + 1 /\ recordings[u] \in Nat
        BY <1>4, <2>1, <3>1 DEF RememberTypeOK
      <4>2. recordings'[u] > 0
        BY <4>1
      <4> QED BY <4>2 DEF InHand
    <3>2. CASE Tried(job).attempts < MaxAttempts /\ file' = Append(file, Tried(job))
      BY <1>5, <3>2 DEF InHand
    <3>3. CASE deadLetters' = deadLetters \cup {job.turn}
      BY <3>3 DEF InHand
    <3> QED BY <3>1, <3>2, <3>3
  <2>4. \A e \in Drainers : u \in JobsOf(drain[e].jobs) => u = job.turn \/ u \in JobsOf(drain'[e].jobs)
    BY <1>2, <2>2
  <2>5. recordings[u] > 0 => recordings'[u] > 0
    <3>1. recordings[u] \in Nat
      BY <2>1 DEF RememberTypeOK
    <3>2. recordings'[u] = recordings[u] \/ recordings'[u] = recordings[u] + n
      BY <1>4, <2>1
    <3> QED BY <3>1, <3>2
  <2>6. deadLetters \subseteq deadLetters'
    OBVIOUS
  <2>7. InHand(u) => InHand(u)'
    BY <1>6, <2>3, <2>4, <2>5, <2>6 DEF InHand
  <2> QED BY <2>7, KeptMoves
<1> QED BY <1>7, <1>8, <1>9, <1>10, <1>11

LEMMA KillKeeps ==
  ASSUME RInv, NEW d \in Drainers, Kill(d)
  PROVE  RInv'
<1> USE DEF RInv
<1>1. /\ drain' = [drain EXCEPT ![d] = Gone] /\ stranded' = stranded \cup JobsOf(drain[d].jobs)
      /\ kills < MaxKills /\ kills' = kills + 1
      /\ UNCHANGED <<ended, seenTurn, enqueued, file, locked, deadLetters, recordings, hostRestarts>>
  BY DEF Kill
<1>2. drain'[d] = Gone /\ \A e \in Drainers \ {d} : drain'[e] = drain[e]
  BY <1>1 DEF RememberTypeOK
<1>3. kills' \in 0..MaxKills /\ kills' > 0
  BY <1>1, RememberNumbers DEF RememberTypeOK
<1>4. RememberTypeOK'
  <2>1. JobsOf(drain[d].jobs) \subseteq Turns
    <3>1. drain[d].jobs \in Seq(Jobs)
      BY DEF RememberTypeOK
    <3> QED BY <3>1, JobsOfFiles
  <2>2. drain' \in [Drainers -> [at : {"gone", "spawned", "found", "holds", "drains"},
                                 jobs : Seq(Jobs)]]
    <3>1. Gone \in [at : {"gone", "spawned", "found", "holds", "drains"}, jobs : Seq(Jobs)]
      BY EmptySeq DEF Gone
    <3> QED BY <1>1, <3>1 DEF RememberTypeOK
  <2> QED BY <1>1, <1>3, <2>1, <2>2 DEF RememberTypeOK
<1>5. JobsWhenDraining'
  BY <1>2 DEF JobsWhenDraining, Gone
<1>6. Session'
  BY <1>1 DEF Session
<1>7. Owing'
  <2>1. \A e \in Drainers : drain'[e].jobs = drain[e].jobs \/ drain'[e].jobs = <<>>
    BY <1>2 DEF Gone
  <2> QED BY <1>1, <2>1, OwingKept
<1>8. ASSUME NEW u \in 1..ended PROVE Kept(u)'
  <2>1. \A e \in Drainers : u \in JobsOf(drain[e].jobs) => u \in stranded' \/ u \in JobsOf(drain'[e].jobs)
    BY <1>1, <1>2
  <2>2. InHand(u) => InHand(u)' \/ (u \in stranded' /\ kills' > 0)
    BY <1>1, <1>3, <2>1 DEF InHand
  <2>3. stranded \subseteq stranded'
    BY <1>1
  <2> QED BY <1>1, <1>3, <2>2, <2>3, KeptMoves
<1> QED BY <1>1, <1>4, <1>5, <1>6, <1>7, <1>8

-----------------------------------------------------------------------------
(* Remember queue: the theorems. *)

LEMMA DrainStepKeeps ==
  ASSUME RInv, NEW d \in Drainers, DrainStep(d)
  PROVE  RInv'
<1> DEFINE places == [at : {"gone", "spawned", "found", "holds", "drains"}, jobs : Seq(Jobs)]
<1>1. /\ RememberTypeOK /\ drain[d] \in places /\ Gone \in places
      /\ drain[d].at # "drains" => drain[d].jobs = <<>>
  BY EmptySeq DEF RInv, RememberTypeOK, JobsWhenDraining, Gone
<1>2. ASSUME NEW place \in places, drain' = [drain EXCEPT ![d] = place], drain[d].jobs = <<>>,
             place.jobs = <<>>, locked' \in BOOLEAN,
             UNCHANGED <<file, deadLetters, stranded, recordings>>, drainUnchanged
      PROVE  RInv'
  <2>1. /\ drain'[d] = place /\ \A e \in Drainers \ {d} : drain'[e] = drain[e]
        /\ drain' \in [Drainers -> places]
    BY <1>1, <1>2 DEF RememberTypeOK
  <2>2. RememberTypeOK'
    <3> HIDE DEF places
    <3> QED BY <1>1, <1>2, <2>1 DEF RememberTypeOK, drainUnchanged, places
  <2>3. \A e \in Drainers : /\ drain'[e].jobs = drain[e].jobs
                            /\ drain'[e].at # "drains" =>
                                 drain[e].at # "drains" \/ drain[e].jobs = <<>>
    BY <1>2, <2>1
  <2> QED BY <1>2, <2>2, <2>3, IdleKeeps DEF drainUnchanged
<1>3. CASE FindQueue(d)
  <2>1. drain[d].jobs = <<>> /\ [drain[d] EXCEPT !.at = "found"] \in places
    BY <1>1, <1>3 DEF FindQueue
  <2>2. \E place \in places : drain' = [drain EXCEPT ![d] = place] /\ place.jobs = <<>>
    BY <1>1, <1>3, <2>1 DEF FindQueue, Gone
  <2>3. /\ locked' \in BOOLEAN /\ drainUnchanged
        /\ UNCHANGED <<file, deadLetters, stranded, recordings>>
    BY <1>1, <1>3 DEF FindQueue, RememberTypeOK
  <2> HIDE DEF places
  <2> QED BY <1>2, <2>1, <2>2, <2>3
<1>4. CASE TakeLock(d)
  <2>1. drain[d].jobs = <<>> /\ [drain[d] EXCEPT !.at = "holds"] \in places
    BY <1>1, <1>4 DEF TakeLock
  <2>2. \E place \in places : drain' = [drain EXCEPT ![d] = place] /\ place.jobs = <<>>
    BY <1>1, <1>4, <2>1 DEF TakeLock, Gone
  <2>3. /\ locked' \in BOOLEAN /\ drainUnchanged
        /\ UNCHANGED <<file, deadLetters, stranded, recordings>>
    BY <1>1, <1>4 DEF TakeLock
  <2> HIDE DEF places
  <2> QED BY <1>2, <2>1, <2>2, <2>3
<1>5. CASE TakeQueue(d)
  <2>1. CASE file # <<>>
    BY <1>5, <2>1, TakenKeeps
  <2>2. CASE file = <<>>
    <3>1. /\ drain[d].jobs = <<>> /\ Gone.jobs = <<>>
          /\ drain' = [drain EXCEPT ![d] = Gone] /\ locked' \in BOOLEAN /\ drainUnchanged
          /\ UNCHANGED <<file, deadLetters, stranded, recordings>>
      BY <1>1, <1>5, <2>2 DEF TakeQueue, LockWhenDrained, Gone
    <3> HIDE DEF places
    <3> QED BY <1>1, <1>2, <3>1
  <2> QED BY <2>1, <2>2
<1>6. CASE EndDrain(d)
  <2>1. /\ drain[d].jobs = <<>> /\ Gone.jobs = <<>>
        /\ drain' = [drain EXCEPT ![d] = Gone] /\ locked' \in BOOLEAN /\ drainUnchanged
        /\ UNCHANGED <<file, deadLetters, stranded, recordings>>
    BY <1>6 DEF EndDrain, Gone
  <2> HIDE DEF places
  <2> QED BY <1>1, <1>2, <2>1
<1>7. CASE Remember(d)
  <2>1. /\ drain[d].at = "drains" /\ drain[d].jobs # <<>>
        /\ drain' = [drain EXCEPT ![d].jobs = Tail(@)] /\ file' = file /\ deadLetters' = deadLetters
        /\ recordings' = [recordings EXCEPT ![Head(drain[d].jobs).turn] = @ + 1]
        /\ UNCHANGED <<ended, seenTurn, enqueued, locked, stranded, kills, hostRestarts>>
    BY <1>7 DEF Remember, drainUnchanged
  <2> QED BY <2>1, AttemptKeeps
<1>8. ASSUME NEW recorded \in BOOLEAN, FailToRemember(d, recorded)
      PROVE  RInv'
  <2> DEFINE job == Head(drain[d].jobs)
             n == IF recorded THEN 1 ELSE 0
  <2>1. /\ drain[d].at = "drains" /\ drain[d].jobs # <<>>
        /\ drain' = [drain EXCEPT ![d].jobs = Tail(@)]
        /\ recordings' = [recordings EXCEPT ![job.turn] = @ + n]
        /\ UNCHANGED <<ended, seenTurn, enqueued, locked, stranded, kills, hostRestarts>>
        /\ file' = IF Tried(job).attempts < MaxAttempts THEN Append(file, Tried(job)) ELSE file
        /\ deadLetters' = IF Tried(job).attempts >= MaxAttempts
                          THEN deadLetters \cup {job.turn} ELSE deadLetters
    BY <1>8 DEF FailToRemember, drainUnchanged, Buried
  <2>2. Tried(job).attempts \in Nat /\ MaxAttempts \in Nat
    <3>1. drain[d].jobs \in Seq(Jobs)
      BY <1>1
    <3>2. job \in Jobs
      BY <2>1, <3>1, JobsOfFiles
    <3> HIDE DEF job
    <3> QED BY <3>2, RememberNumbers DEF Tried, Jobs
  <2>3. Tried(job).attempts < MaxAttempts \/ Tried(job).attempts >= MaxAttempts
    <3> HIDE DEF job
    <3> QED BY <2>2
  <2>4. n \in {0, 1}
    OBVIOUS
  <2> HIDE DEF n
  <2> QED BY <2>1, <2>3, <2>4, AttemptKeeps
<1> QED BY <1>3, <1>4, <1>5, <1>6, <1>7, <1>8 DEF DrainStep

LEMMA RememberStep == RInv /\ [RememberNext]_rememberVars => RInv'
<1> SUFFICES ASSUME RInv, [RememberNext]_rememberVars PROVE RInv'
  OBVIOUS
<1>1. ASSUME NEW turn \in Turns, TurnEnds(turn) PROVE RInv'
  BY <1>1, TurnEndsKeeps
<1>2. CASE HostRestarts
  <2>1. RememberTypeOK'
    BY <1>2, RememberNumbers DEF HostRestarts, RInv, RememberTypeOK
  <2> QED BY <1>2, <2>1, IdleKeeps DEF HostRestarts
<1>3. ASSUME NEW d \in Drainers, DrainStep(d) PROVE RInv'
  BY <1>3, DrainStepKeeps
<1>4. ASSUME NEW d \in Drainers, Kill(d) PROVE RInv'
  BY <1>4, KillKeeps
<1>5. CASE UNCHANGED rememberVars
  <2>1. RememberTypeOK'
    BY <1>5 DEF RInv, RememberTypeOK, rememberVars
  <2> QED BY <1>5, <2>1, IdleKeeps DEF rememberVars
<1> QED BY <1>1, <1>2, <1>3, <1>4, <1>5 DEF RememberNext

LEMMA RememberBegins == RememberInit => RInv
<1> SUFFICES ASSUME RememberInit PROVE RInv
  OBVIOUS
<1>1. RememberTypeOK
  <2>1. drain \in [Drainers -> [at : {"gone", "spawned", "found", "holds", "drains"}, jobs : Seq(Jobs)]]
    BY EmptySeq DEF RememberInit, Gone
  <2>2. file \in Seq(Jobs) /\ 0 \in 0..TurnCount /\ 0 \in 0..MaxKills /\ 0 \in 0..MaxHostRestarts
    BY RememberNumbers, EmptySeq DEF RememberInit
  <2> QED BY <2>1, <2>2 DEF RememberInit, RememberTypeOK
<1>2. JobsWhenDraining /\ Session
  BY DEF RememberInit, JobsWhenDraining, Session, Gone
<1>3. Owing
  <2> SUFFICES ASSUME NEW turn \in Turns
               PROVE  /\ IsFiniteSet(DrainTickets(turn))
                      /\ recordings[turn] + Cardinality(FileTickets(turn))
                           + Cardinality(DrainTickets(turn)) <= MaxAttempts * enqueued[turn]
    BY DEF Owing
  <2>1. FileTickets(turn) = {} /\ DrainTickets(turn) = {}
    BY DEF RememberInit, Gone, FileTickets, DrainTickets, Owed
  <2>2. recordings[turn] = 0 /\ enqueued[turn] = 0 /\ MaxAttempts * 0 = 0
    BY RememberNumbers DEF RememberInit
  <2>3. Cardinality(FileTickets(turn)) = 0 /\ Cardinality(DrainTickets(turn)) = 0
        /\ IsFiniteSet(DrainTickets(turn))
    BY <2>1, FS_EmptySet
  <2> QED BY <2>2, <2>3
<1>4. 1..ended = {}
  BY DEF RememberInit
<1> QED BY <1>1, <1>2, <1>3, <1>4 DEF RInv

LEMMA RememberInvariant == RememberSpec => []RInv
BY RememberBegins, RememberStep, PTL DEF RememberSpec

\* The variables have their types: no process's file holds what is not a job
\* with an attempt left.
THEOREM RememberTypes == RememberSpec => []RememberTypeOK
<1>1. RInv => RememberTypeOK
  BY DEF RInv
<1> QED BY <1>1, RememberInvariant, PTL

\* However many processes drain at once, fail or are killed, a turn that was
\* handed over is recorded, waiting, buried or stranded, and was recorded at
\* most as often as its jobs had attempts.
THEOREM HandedOverIsKept == RememberSpec => []KeptUnlessKilled
<1>1. RInv => KeptUnlessKilled
  <2> SUFFICES ASSUME RInv, NEW turn \in 1..ended
               PROVE  Kept(turn) /\ recordings[turn] <= MaxAttempts * enqueued[turn]
    BY DEF KeptUnlessKilled, Kept
  <2> DEFINE bound == MaxAttempts * enqueued[turn]
  <2>1. turn \in Turns
    BY RememberNumbers DEF RInv, RememberTypeOK, Turns
  <2>2. /\ recordings[turn] \in Nat /\ bound \in Nat
        /\ IsFiniteSet(DrainTickets(turn))
        /\ recordings[turn] + Cardinality(FileTickets(turn)) + Cardinality(DrainTickets(turn)) <= bound
    BY <2>1, RememberNumbers DEF RInv, RememberTypeOK, Owing
  <2>3. Cardinality(FileTickets(turn)) \in Nat /\ Cardinality(DrainTickets(turn)) \in Nat
    BY <2>2, FileTicketsFinite, FS_CardinalityType DEF RInv
  <2> HIDE DEF bound
  <2>4. recordings[turn] <= bound
    BY <2>2, <2>3
  <2> QED BY <2>4 DEF RInv, bound
<1> QED BY <1>1, RememberInvariant, PTL

-----------------------------------------------------------------------------
(* The maintenance. *)

\* The checkpoint is a step, or none: what the next consolidation begins with
\* is a step that there is (OfflineConsolidationPipeline.readCheckpointIndex).
THEOREM MaintenanceTypes ==
  MaintenanceInit /\ [][MaintenanceNext]_maintenanceVars => []MaintenanceTypeOK
<1> DEFINE Numbers == /\ checkpoint \in 0..StepCount
                      /\ current \in 0..StepCount
                      /\ completed \in 0..StepCount
                      /\ expiries \in 0..MaxExpiries
                      /\ throws \in 0..MaxThrows
<1>1. MaintenanceInit => MaintenanceTypeOK
  <2> SUFFICES ASSUME MaintenanceInit PROVE MaintenanceTypeOK
    OBVIOUS
  <2>1. Numbers
    BY MaintenanceAssumption DEF MaintenanceInit
  <2>2. expired \in BOOLEAN
    BY DEF MaintenanceInit
  <2> QED BY <2>1, <2>2 DEF MaintenanceTypeOK
<1>2. MaintenanceTypeOK /\ [MaintenanceNext]_maintenanceVars => MaintenanceTypeOK'
  <2> SUFFICES ASSUME MaintenanceTypeOK, [MaintenanceNext]_maintenanceVars
               PROVE  MaintenanceTypeOK'
    OBVIOUS
  <2>1. Numbers /\ expired \in BOOLEAN
    BY DEF MaintenanceTypeOK
  <2>2. Numbers'
    <3>1. CASE StartMaintenance
      BY <2>1, <3>1, MaintenanceAssumption DEF StartMaintenance
    <3>2. CASE StepCompletes
      BY <2>1, <3>2, MaintenanceAssumption DEF StepCompletes
    <3>3. CASE StepAborts
      BY <2>1, <3>3, MaintenanceAssumption DEF StepAborts, Saved
    <3>4. CASE StepThrows
      BY <2>1, <3>4, MaintenanceAssumption DEF StepThrows
    <3>5. CASE Expire
      BY <2>1, <3>5, MaintenanceAssumption DEF Expire
    <3>6. CASE UNCHANGED maintenanceVars
      BY <2>1, <3>6 DEF maintenanceVars
    <3> QED BY <3>1, <3>2, <3>3, <3>4, <3>5, <3>6 DEF MaintenanceNext
  <2>3. expired' \in BOOLEAN
    BY <2>1 DEF MaintenanceNext, StartMaintenance, StepCompletes, StepAborts, StepThrows,
                Expire, maintenanceVars
  <2> QED BY <2>2, <2>3 DEF MaintenanceTypeOK
<1> QED BY <1>1, <1>2, PTL

=============================================================================
