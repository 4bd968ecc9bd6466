-------------------------- MODULE DreamCuratorProofs --------------------------
(***************************************************************************)
(* Theorems about DreamCurator for every value of its constants, above all *)
(* that coverage means recorded: CoverageRecorded.                         *)
(*                                                                         *)
(* The watermark is written from a number that was read before the await,  *)
(* after two other commits, so the invariant has to follow that number:    *)
(* Covers(s, top, ev) says that setting the watermark of s to top would be *)
(* justified once the events of ev are recorded.  It holds of every        *)
(* watermark (ev empty), of every run in progress (ev its batch) and of    *)
(* every call that still has to execute its statements, and it is stable   *)
(* under everything others may do meanwhile (CoversStable), because a new  *)
(* row is either beyond every number given before or counted as recycled.  *)
(*                                                                         *)
(* With one run at a time more holds.  An event beyond the watermark was   *)
(* in at most one batch for every crash (Settled), a run holds only such   *)
(* events (Fresh), and Stage follows this through the three commits: from  *)
(* it come the bounds on repetition and on warnings, the watermark that    *)
(* never moves back, and the refinement of AtLeastOnce.                    *)
(***************************************************************************)
EXTENDS DreamQueue, RawLedgerProofs

\* The statements of a run as records.
RunRec(s, ev)  == [do |-> "run", scope |-> s, events |-> ev]
CandRec(s, f)  == [do |-> "candidates", scope |-> s, fault |-> f]
MarkRec(s, n)  == [do |-> "mark", scope |-> s, top |-> n]
SupRec(s)      == [do |-> "supersede", scope |-> s]
Faults         == Fault \cup {"none"}

\* Every live row has a number between 1 and the highest ever given.
Numbered == \A i \in Live : rows[i].seq >= 1 /\ rows[i].seq <= peak

\* Every live row of the scope up to top, unless its number is recycled, is in
\* ev or in a recorded batch of the scope.
Covers(s, top, ev) ==
  \A i \in Live \ recycled :
    InScope(i, s) /\ rows[i].seq <= top => i \in ev \/ Logged(s, i)

\* What a run in progress has read still justifies the watermark it will write.
RunsCovered ==
  \A r \in Runs : run[r].phase # "none" =>
    run[r].top <= peak /\ Covers(run[r].scope, run[r].top, run[r].batch)

\* Every watermark is justified, and none is beyond the numbers given.
MarksCovered == \A s \in Scopes : mark[s] <= peak /\ Covers(s, mark[s], {})

\* The three shapes of what is left of the commits after the await: all three;
\* the candidates and the watermark, with the batch in the last run recorded;
\* the watermark alone, with nothing left to record.
TripleTodo(s, ev, f, top) ==
  /\ todo = <<RunRec(s, ev), CandRec(s, f), MarkRec(s, top)>>
  /\ top <= peak /\ Covers(s, top, ev)

PairTodo(s, f, top) ==
  /\ todo = <<CandRec(s, f), MarkRec(s, top)>>
  /\ log # <<>> /\ log[Len(log)].scope = s
  /\ top <= peak /\ Covers(s, top, log[Len(log)].events)

MarkTodo(s, top) ==
  /\ todo = <<MarkRec(s, top)>>
  /\ top <= peak /\ Covers(s, top, {})

\* The call in progress is one of the curator's.
DreamTodo ==
  \E s \in Scopes, ev \in SUBSET Nat, f \in Faults, top \in Nat :
    \/ TripleTodo(s, ev, f, top)
    \/ PairTodo(s, f, top)
    \/ MarkTodo(s, top)
    \/ todo = <<SupRec(s)>>

\* The inductive invariant of the curator.
DInv ==
  /\ LedgerTypeOK /\ ReplayOrder /\ Numbered
  /\ mark \in [Scopes -> Nat]
  /\ log \in Seq(Recorded)
  /\ warned \in [Scopes -> [Fault -> Nat]]
  /\ run \in [Runs -> RunState]
  /\ \/ todo \in Seq(LedgerStmt) /\ WellShaped(todo)
     \/ up /\ DreamTodo
  /\ MarksCovered /\ RunsCovered

-----------------------------------------------------------------------------

\* The curator's statements are what their tags say.
LEMMA DreamStmtTypes ==
  ASSUME NEW s \in Scopes, NEW ev \in SUBSET Nat, NEW f \in Faults, NEW n \in Nat
  PROVE  /\ RunRec(s, ev) \in DreamStmt /\ RunRec(s, ev).do = "run"
         /\ CandRec(s, f) \in DreamStmt /\ CandRec(s, f).do = "candidates"
         /\ MarkRec(s, n) \in DreamStmt /\ MarkRec(s, n).do = "mark"
         /\ SupRec(s) \in DreamStmt /\ SupRec(s).do = "supersede"
BY DEF DreamStmt, RunStmt, CandStmt, MarkStmt, SupersedeStmt, RunRec, CandRec, MarkRec, SupRec, Faults

\* A call of the curator begins with one of its own statements.
LEMMA DreamHead ==
  ASSUME DreamTodo
  PROVE  /\ todo # <<>>
         /\ Head(todo).do \in {"run", "candidates", "mark", "supersede"}
         /\ todo \in Seq(DreamStmt)
<1>1. PICK s \in Scopes, ev \in SUBSET Nat, f \in Faults, top \in Nat :
        \/ TripleTodo(s, ev, f, top)
        \/ PairTodo(s, f, top)
        \/ MarkTodo(s, top)
        \/ todo = <<SupRec(s)>>
  BY DEF DreamTodo
<1> DEFINE a == RunRec(s, ev)
           b == CandRec(s, f)
           c == MarkRec(s, top)
           d == SupRec(s)
<1>2. /\ a \in DreamStmt /\ a.do = "run" /\ b \in DreamStmt /\ b.do = "candidates"
      /\ c \in DreamStmt /\ c.do = "mark" /\ d \in DreamStmt /\ d.do = "supersede"
  BY DreamStmtTypes
<1>3. todo = <<a, b, c>> \/ todo = <<b, c>> \/ todo = <<c>> \/ todo = <<d>>
  BY <1>1 DEF TripleTodo, PairTodo, MarkTodo
<1> HIDE DEF a, b, c, d
<1>4. CASE todo = <<a, b, c>>
  BY <1>2, <1>4
<1>5. CASE todo = <<b, c>>
  BY <1>2, <1>5
<1>6. CASE todo = <<c>>
  BY <1>2, <1>6
<1>7. CASE todo = <<d>>
  BY <1>2, <1>7
<1> QED BY <1>3, <1>4, <1>5, <1>6, <1>7

\* A call of the ledger begins with one of its own statements.
LEMMA LedgerHead ==
  ASSUME todo \in Seq(LedgerStmt), todo # <<>>
  PROVE  Head(todo).do \in {"insert", "index", "link", "wipe"}
BY HeadTailFacts, ShapeTypes

\* The invariant implies the type invariant.
LEMMA DInvTypes ==
  ASSUME DInv
  PROVE  DreamTypeOK
<1>1. todo \in Seq(LedgerStmt \cup DreamStmt)
  BY DreamHead, SeqMonotonic DEF DInv
<1> QED BY <1>1 DEF DInv, DreamTypeOK

\* The invariant implies that coverage means recorded.
LEMMA DInvCoverage ==
  ASSUME DInv
  PROVE  CoverageRecorded
BY DEF DInv, MarksCovered, Covers, CoverageRecorded

-----------------------------------------------------------------------------
(* What a step may do to the rows, as far as coverage is concerned: the rows
   it keeps keep their place, and a new one has a new id and lies beyond every
   number given before or counts as recycled. *)
RowsDelta ==
  /\ peak' \in Nat /\ peak' >= peak /\ recycled \subseteq recycled'
  /\ born' \in Nat /\ born' >= born
  /\ \A i \in Live' :
       \/ /\ i \in Live /\ rows'[i].seq = rows[i].seq
          /\ rows'[i].project = rows[i].project /\ rows'[i].thread = rows[i].thread
       \/ /\ i \notin 1..born
          /\ rows'[i].seq \in Nat /\ rows'[i].seq >= 1 /\ rows'[i].seq <= peak'
          /\ rows'[i].seq <= peak => i \in recycled'

\* What is recorded stays recorded.
LogGrows == \A s \in Scopes, i \in Nat : Logged(s, i) => Logged(s, i)'

\* The numbers of the ledger are numbers.
LEMMA PeakType ==
  ASSUME LedgerTypeOK
  PROVE  /\ peak \in Nat /\ born \in Nat /\ Live \subseteq Nat
         /\ \A i \in Live : rows[i] \in Row /\ rows[i].seq \in Nat
<1>1. peak \in Nat /\ born \in Nat /\ Live \subseteq 1..born /\ rows \in [Live -> Row]
  BY DEF LedgerTypeOK
<1> QED BY <1>1 DEF Row

\* The heart of the argument: a watermark that was justified stays justified.
LEMMA CoversStable ==
  ASSUME LedgerTypeOK, RowsDelta, LogGrows,
         NEW s \in Scopes, NEW top \in Nat, top <= peak, NEW ev, Covers(s, top, ev)
  PROVE  top <= peak' /\ Covers(s, top, ev)'
<1>1. top <= peak'
  BY PeakType DEF RowsDelta
<1>2. ASSUME NEW i \in Live' \ recycled', InScope(i, s)', rows'[i].seq <= top
      PROVE  i \in ev \/ Logged(s, i)'
  <2>1. i \in Live \ recycled /\ rows'[i].seq = rows[i].seq
        /\ rows'[i].project = rows[i].project /\ rows'[i].thread = rows[i].thread
    BY <1>2, PeakType DEF RowsDelta
  <2>2. InScope(i, s) /\ rows[i].seq <= top
    BY <1>2, <2>1 DEF InScope, IsRaw
  <2>3. i \in ev \/ Logged(s, i)
    BY <2>1, <2>2 DEF Covers
  <2>4. i \in Nat
    BY <2>1, PeakType
  <2> QED BY <2>3, <2>4 DEF LogGrows
<1> QED BY <1>1, <1>2 DEF Covers

\* New rows are numbered too.
LEMMA NumberedStable ==
  ASSUME LedgerTypeOK, RowsDelta, Numbered
  PROVE  Numbered'
<1>1. ASSUME NEW i \in Live'
      PROVE  rows'[i].seq >= 1 /\ rows'[i].seq <= peak'
  BY PeakType DEF Numbered, RowsDelta
<1> QED BY <1>1 DEF Numbered

\* Watermarks nobody writes stay justified.
LEMMA MarksStable ==
  ASSUME LedgerTypeOK, RowsDelta, LogGrows, mark \in [Scopes -> Nat],
         MarksCovered, mark' = mark
  PROVE  MarksCovered'
<1>1. ASSUME NEW s \in Scopes
      PROVE  mark'[s] <= peak' /\ Covers(s, mark[s], {})'
  <2>1. PICK top \in Nat : top = mark[s]
    OBVIOUS
  <2>2. top <= peak /\ Covers(s, top, {})
    BY <2>1 DEF MarksCovered
  <2>3. top <= peak' /\ Covers(s, top, {})'
    BY <2>2, CoversStable
  <2> QED BY <2>1, <2>3
<1> QED BY <1>1 DEF MarksCovered

\* A run in progress keeps what it read.
Keeps(r) ==
  run'[r].phase # "none" =>
    /\ run[r].phase # "none"
    /\ run'[r].scope = run[r].scope
    /\ run'[r].top = run[r].top
    /\ run'[r].batch = run[r].batch

\* Runs that keep what they read stay justified.
LEMMA RunsStable ==
  ASSUME LedgerTypeOK, RowsDelta, LogGrows, run \in [Runs -> RunState],
         RunsCovered, \A r \in Runs : Keeps(r)
  PROVE  RunsCovered'
<1>1. ASSUME NEW r \in Runs, run'[r].phase # "none"
      PROVE  run'[r].top <= peak' /\ Covers(run[r].scope, run[r].top, run[r].batch)'
  <2>1. run[r].scope \in Scopes /\ run[r].top \in Nat
    BY DEF RunState
  <2>2. PICK s \in Scopes, top \in Nat : s = run[r].scope /\ top = run[r].top
    BY <2>1
  <2>3. PICK ev : ev = run[r].batch
    OBVIOUS
  <2>4. /\ run[r].phase # "none"
        /\ run'[r].scope = s /\ run'[r].top = top /\ run'[r].batch = ev
    BY <1>1, <2>2, <2>3 DEF Keeps
  <2>5. top <= peak /\ Covers(s, top, ev)
    BY <2>2, <2>3, <2>4 DEF RunsCovered
  <2>6. top <= peak' /\ Covers(s, top, ev)'
    BY <2>5, CoversStable
  <2> QED BY <2>4, <2>6
<1> QED BY <1>1 DEF RunsCovered

-----------------------------------------------------------------------------
(* The steps of the ledger under the curator. *)

\* A ledger step, or a crash, keeps the curator's invariant.
LEMMA LedgerPart ==
  ASSUME DInv, RowsDelta, IInv', UNCHANGED <<mark, log, warned>>,
         run' = run \/ run' = [r \in Runs |-> NoRun]
  PROVE  DInv'
<1>1. /\ LedgerTypeOK /\ Numbered /\ mark \in [Scopes -> Nat]
      /\ log \in Seq(Recorded) /\ warned \in [Scopes -> [Fault -> Nat]]
      /\ run \in [Runs -> RunState] /\ MarksCovered /\ RunsCovered
  BY DEF DInv
<1>2. LogGrows
  BY DEF LogGrows, Logged
<1>3. MarksCovered'
  BY <1>1, <1>2, MarksStable
<1>4. /\ run' \in [Runs -> RunState]
      /\ \A r \in Runs : Keeps(r)
  <2>1. NoRun \in RunState
    BY DEF NoRun, RunState, Scopes
  <2>2. NoRun.phase = "none"
    BY DEF NoRun
  <2> QED BY <1>1, <2>1, <2>2 DEF Keeps
<1>5. RunsCovered'
  BY <1>1, <1>2, <1>4, RunsStable
<1>6. Numbered'
  BY <1>1, NumberedStable
<1>7. /\ mark' \in [Scopes -> Nat] /\ log' \in Seq(Recorded)
      /\ warned' \in [Scopes -> [Fault -> Nat]]
  BY <1>1
<1>8. LedgerTypeOK' /\ ReplayOrder' /\ todo' \in Seq(LedgerStmt) /\ WellShaped(todo)'
  BY DEF IInv, TypeOK
<1> QED BY <1>3, <1>4, <1>5, <1>6, <1>7, <1>8 DEF DInv

\* Steps that leave the rows alone.
LEMMA DeltaStill ==
  ASSUME LedgerTypeOK, UNCHANGED <<rows, born, peak, recycled>>
  PROVE  RowsDelta
<1>1. peak \in Nat /\ born \in Nat
  BY PeakType
<1> QED BY <1>1 DEF RowsDelta, Live

\* A deletion only takes rows away.
LEMMA DeltaForget ==
  ASSUME LedgerTypeOK, NEW p, ForgetUser(p)
  PROVE  RowsDelta
<1> DEFINE K == {i \in Live : rows[i].project # p}
<1>1. rows' = [i \in K |-> rows[i]] /\ peak' = peak /\ recycled' = recycled /\ born' = born
  BY DEF ForgetUser, history, Restrict
<1>2. Live' = K /\ K \subseteq Live /\ \A i \in K : rows'[i] = rows[i]
  BY <1>1 DEF Live
<1> HIDE DEF K
<1> QED BY <1>1, <1>2, PeakType DEF RowsDelta

\* A link changes no number.
LEMMA DeltaLink ==
  ASSUME LedgerTypeOK, LinkNext
  PROVE  RowsDelta
<1> DEFINE s == Head(todo)
<1>1. /\ rows' = [i \in Live |-> IF i = s.id THEN [rows[i] EXCEPT !.next = s.to] ELSE rows[i]]
      /\ peak' = peak /\ recycled' = recycled /\ born' = born
  BY DEF LinkNext, history
<1> HIDE DEF s
<1>2. Live' = Live
  BY <1>1 DEF Live
<1>3. ASSUME NEW i \in Live
      PROVE  /\ rows'[i].seq = rows[i].seq /\ rows'[i].project = rows[i].project
             /\ rows'[i].thread = rows[i].thread
  BY <1>1, PeakType DEF Row
<1> QED BY <1>1, <1>2, <1>3, PeakType DEF RowsDelta

\* The row of an INSERT is beyond the peak or counted as recycled.
LEMMA DeltaInsert ==
  ASSUME TypeOK, Insert
  PROVE  RowsDelta
<1> DEFINE s == Head(todo)
           n == born + 1
           new == [project |-> s.project, thread |-> s.thread, kind |-> s.kind,
                   body |-> s.body, seq |-> NextGlobalSeq,
                   tseq |-> IF s.thread = NoThread THEN 0 ELSE NextThreadSeq(s.thread),
                   turn |-> s.turn, by |-> s.by, prev |-> s.prev, next |-> 0]
<1>1. /\ rows' = [i \in Live \cup {n} |-> IF i = n THEN new ELSE rows[i]]
      /\ peak' = Max({peak, NextGlobalSeq})
      /\ recycled' = IF NextGlobalSeq <= peak THEN recycled \cup {n} ELSE recycled
      /\ born' = n
  BY DEF Insert
<1>2. new.seq = NextGlobalSeq
  OBVIOUS
<1> HIDE DEF new
<1>3. Live' = Live \cup {n} /\ rows'[n] = new /\ \A i \in Live : i # n => rows'[i] = rows[i]
  BY <1>1 DEF Live
<1>4. LedgerTypeOK /\ NextGlobalSeq \in Nat \ {0}
  BY NumbersFresh DEF TypeOK
<1>5. peak \in Nat /\ Live \subseteq 1..born /\ born \in Nat /\ n \notin Live
  <2>1. peak \in Nat /\ Live \subseteq 1..born /\ born \in Nat
    BY <1>4 DEF LedgerTypeOK
  <2> QED BY <2>1
<1>6. peak' \in {peak, NextGlobalSeq} /\ peak' >= peak /\ peak' >= NextGlobalSeq
  <2>1. IsFiniteSet({peak, NextGlobalSeq})
    <3>1. IsFiniteSet({peak}) /\ {peak, NextGlobalSeq} = {peak} \cup {NextGlobalSeq}
      BY FS_Singleton
    <3> QED BY <3>1, FS_AddElement
  <2> QED BY <1>1, <1>4, <1>5, <2>1, MaxOfFinite
<1>7. ASSUME NEW i \in Live
      PROVE  rows'[i] = rows[i]
  BY <1>3, <1>5
<1>8. recycled \subseteq recycled' /\ (new.seq <= peak => n \in recycled')
  BY <1>1, <1>2
<1>9. born' \in Nat /\ born' >= born /\ n \notin 1..born
  BY <1>1, <1>5
<1>10. /\ rows'[n].seq \in Nat /\ rows'[n].seq >= 1 /\ rows'[n].seq <= peak'
       /\ rows'[n].seq <= peak => n \in recycled'
  BY <1>2, <1>3, <1>4, <1>6, <1>8
<1> HIDE DEF n
<1>11. peak' \in Nat
  BY <1>4, <1>5, <1>6
<1> QED BY <1>3, <1>6, <1>7, <1>8, <1>9, <1>10, <1>11 DEF RowsDelta

\* A recorder only hands over statements.
LEMMA RecordStill ==
  ASSUME Record
  PROVE  Idle /\ UNCHANGED <<rows, born, peak, recycled, crashes>>
<1>1. ASSUME NEW n, NEW stmts, Call(n, stmts)
      PROVE  Idle /\ UNCHANGED <<rows, born, peak, recycled, crashes>>
  BY <1>1 DEF Call, history
<1>2. ASSUME NEW p, NEW t, NEW said, NEW answered, NEW given,
             RecordTurn(p, t, said, answered, given)
      PROVE  \E n, stmts : Call(n, stmts)
  BY <1>2 DEF RecordTurn
<1>3. ASSUME NEW p, NEW t, NEW a, NEW turn, RecordToolCall(p, t, a, turn)
      PROVE  \E n, stmts : Call(n, stmts)
  BY <1>3 DEF RecordToolCall
<1>4. ASSUME NEW p, NEW t, NEW c, NEW turn, RecordToolResult(p, t, c, turn)
      PROVE  \E n, stmts : Call(n, stmts)
  BY <1>4 DEF RecordToolResult
<1>5. ASSUME NEW p, NEW t, NEW i, NEW turn, RecordTaskEvent(p, t, i, turn)
      PROVE  \E n, stmts : Call(n, stmts)
  BY <1>5 DEF RecordTaskEvent
<1>6. ASSUME NEW p, AppendInternal(p)
      PROVE  \E n, stmts : Call(n, stmts)
  BY <1>6 DEF AppendInternal
<1>7. ASSUME NEW p, NEW t, NEW k, NEW said, NEW turn, RecordImported(p, t, k, said, turn)
      PROVE  \E n, stmts : Call(n, stmts)
  BY <1>7 DEF RecordImported
<1>8. \E n, stmts : Call(n, stmts)
  BY <1>2, <1>3, <1>4, <1>5, <1>6, <1>7 DEF Record
<1> QED BY <1>1, <1>8

\* A ledger action runs only when the statements left are the ledger's.
LEMMA LedgerTodo ==
  ASSUME DInv,
         todo = <<>> \/ ~up \/ (todo # <<>> /\ Head(todo).do \in {"insert", "index", "link", "wipe"})
  PROVE  IInv
<1>1. ~(up /\ DreamTodo)
  BY DreamHead
<1> QED BY <1>1 DEF DInv, IInv, TypeOK

\* What the ledger's actions do, seen from the curator.
LEMMA LedgerMoves ==
  ASSUME DInv, LedgerStep
  PROVE  IInv' /\ RowsDelta /\ crashes' = crashes
<1>1. crashes' = crashes
  <2>1. Record => crashes' = crashes
    BY RecordStill
  <2> QED BY <2>1 DEF LedgerStep, Statement, Insert, IndexText, LinkNext, WipeIndex, Open, ForgetUser
<1>2. LedgerTypeOK
  BY DEF DInv
<1>3. SUFFICES IInv' /\ RowsDelta
  BY <1>1
<1>4. CASE Record
  BY <1>2, <1>4, RecordStill, LedgerTodo, RecordStep, DeltaStill DEF Idle
<1>5. CASE Insert
  <2>1. IInv
    BY <1>5, LedgerTodo DEF Insert, Doing
  <2> QED BY <1>5, <2>1, InsertStep, DeltaInsert DEF IInv
<1>6. CASE IndexText
  <2>1. IInv
    BY <1>6, LedgerTodo DEF IndexText, Doing
  <2>2. UNCHANGED <<rows, born, peak, recycled>>
    BY <1>6 DEF IndexText, history
  <2> QED BY <1>2, <1>6, <2>1, <2>2, IndexStep, DeltaStill
<1>7. CASE LinkNext
  <2>1. IInv
    BY <1>7, LedgerTodo DEF LinkNext, Doing
  <2> QED BY <1>2, <1>7, <2>1, LinkStep, DeltaLink
<1>8. CASE WipeIndex
  <2>1. IInv
    BY <1>8, LedgerTodo DEF WipeIndex, Doing
  <2>2. UNCHANGED <<rows, born, peak, recycled>>
    BY <1>8 DEF WipeIndex, history
  <2> QED BY <1>2, <1>8, <2>1, <2>2, WipeStep, DeltaStill
<1>9. CASE Open
  <2>1. IInv
    BY <1>9, LedgerTodo DEF Open
  <2>2. UNCHANGED <<rows, born, peak, recycled>>
    BY <1>9 DEF Open, history
  <2> QED BY <1>2, <1>9, <2>1, <2>2, OpenStep, DeltaStill
<1>10. ASSUME NEW p, ForgetUser(p)
       PROVE  IInv' /\ RowsDelta
  <2>1. IInv
    BY <1>10, LedgerTodo DEF ForgetUser, Idle
  <2> QED BY <1>2, <1>10, <2>1, ForgetStep, DeltaForget
<1> QED BY <1>4, <1>5, <1>6, <1>7, <1>8, <1>9, <1>10 DEF LedgerStep, Statement

\* The ledger's actions keep the curator's invariant.
LEMMA LedgerCase ==
  ASSUME DInv, LedgerStep
  PROVE  DInv'
BY LedgerMoves, LedgerPart DEF LedgerStep, dreamVars

\* A crash keeps it wherever it cuts.
LEMMA CrashCase ==
  ASSUME DInv, CrashAll
  PROVE  DInv'
<1>1. LedgerTypeOK /\ ReplayOrder /\ Crash
  BY DEF DInv, CrashAll
<1>2. UNCHANGED <<rows, born, peak, recycled>>
  BY <1>1 DEF Crash, history
<1> QED BY <1>1, <1>2, CrashStep, DeltaStill, LedgerPart DEF CrashAll

-----------------------------------------------------------------------------
(* The steps of a run. *)

\* What the curator's own steps leave alone.
LEMMA DreamFrame ==
  ASSUME DInv, UNCHANGED <<rows, fts, up, born, crashes, orphaned, history>>
  PROVE  /\ LedgerTypeOK' /\ ReplayOrder' /\ Numbered' /\ RowsDelta
         /\ Live' = Live /\ peak' = peak /\ recycled' = recycled
<1>1. LedgerTypeOK /\ ReplayOrder /\ Numbered
  BY DEF DInv
<1>2. peak' = peak /\ recycled' = recycled /\ Live' = Live
  BY DEF history, Live
<1>3. RowsDelta
  BY <1>1, <1>2, DeltaStill
<1>4. LedgerTypeOK'
  BY <1>1, <1>2 DEF LedgerTypeOK
<1>5. ReplayOrder' /\ Numbered'
  BY <1>1, <1>2 DEF ReplayOrder, Numbered, IsRaw
<1> QED BY <1>2, <1>3, <1>4, <1>5

\* The first events after the watermark, and the number of the last of them:
\* whatever of the scope lies at or below that number is in the batch or was
\* recorded before.
LEMMA BatchCovers ==
  ASSUME DInv, NEW s \in Scopes, NEW n \in Limits, Undreamed(s) # {},
         NEW batch, batch = FirstBySeq(Undreamed(s), n),
         NEW top, top = Max({rows[i].seq : i \in batch})
  PROVE  /\ batch \in SUBSET Nat /\ top \in Nat /\ top <= peak
         /\ Covers(s, top, batch)
         /\ batch \subseteq Undreamed(s) /\ mark[s] < top
         /\ \A i \in batch : rows[i].seq <= top
<1> DEFINE U == Undreamed(s)
           Before(i) == {j \in U : rows[j].seq < rows[i].seq}
<1>1. /\ LedgerTypeOK /\ Numbered /\ MarksCovered /\ mark \in [Scopes -> Nat]
      /\ peak \in Nat /\ Live \subseteq Nat
      /\ \A i \in Live : rows[i] \in Row /\ rows[i].seq \in Nat
  BY PeakType DEF DInv
<1>0. \A i \in Live : rows[i].seq \in Nat
  BY <1>1
<1>2. U \subseteq Live /\ U # {}
  BY DEF Undreamed
<1>3. IsFiniteSet(Live)
  <2>1. born \in Nat /\ Live \subseteq 1..born
    BY <1>1 DEF LedgerTypeOK
  <2>2. IsFiniteSet(1..born)
    BY <2>1, FS_Interval
  <2> QED BY <2>1, <2>2, FS_Subset
<1>4. IsFiniteSet(U)
  BY <1>2, <1>3, FS_Subset
<1>5. n \in Nat \ {0}
  BY LimitsAssumption
<1>6. batch = {i \in U : Cardinality(Before(i)) < n}
  BY DEF FirstBySeq
<1> HIDE DEF U
<1>7. PICK m \in U : \A j \in U : rows[m].seq <= rows[j].seq
  <2> DEFINE g == [i \in U |-> -rows[i].seq]
             T == {g[i] : i \in U}
  <2>1. g \in [U -> Int]
    BY <1>1, <1>2
  <2>2. IsFiniteSet(T) /\ T \in SUBSET Int /\ T # {}
    <3> HIDE DEF g
    <3> QED BY <1>2, <1>4, <2>1, FiniteColumn
  <2>3. Max(T) \in T /\ \A y \in T : y <= Max(T)
    <3> HIDE DEF T
    <3> QED BY <2>2, MaxOfFinite
  <2>4. PICK i \in U : \A j \in U : g[j] <= g[i]
    BY <2>3
  <2>5. \A j \in U : rows[i].seq <= rows[j].seq
    BY <1>0, <1>2, <2>4
  <2> QED BY <2>5
<1>8. m \in batch
  <2>1. Before(m) = {}
    BY <1>0, <1>2, <1>7
  <2>2. Cardinality(Before(m)) = 0
    BY <2>1, FS_EmptySet
  <2> QED BY <1>5, <1>6, <2>2
<1>9. batch \subseteq U /\ batch \subseteq Live /\ batch # {}
  BY <1>2, <1>6, <1>8
<1>10. top \in {rows[i].seq : i \in batch} /\ \A i \in batch : rows[i].seq <= top
  <2> DEFINE g == [i \in batch |-> rows[i].seq]
             T == {g[i] : i \in batch}
  <2>0. IsFiniteSet(batch)
    BY <1>3, <1>9, FS_Subset
  <2>1. g \in [batch -> Int]
    BY <1>0, <1>9
  <2>2. T = {rows[i].seq : i \in batch}
    OBVIOUS
  <2>3. IsFiniteSet(T) /\ T \in SUBSET Int /\ T # {}
    <3> HIDE DEF g
    <3> QED BY <1>9, <2>0, <2>1, FiniteColumn
  <2>4. Max(T) \in T /\ \A y \in T : y <= Max(T)
    <3> HIDE DEF T
    <3> QED BY <2>3, MaxOfFinite
  <2> QED BY <2>2, <2>4
<1>11. PICK b \in batch : top = rows[b].seq
  BY <1>10
<1>12. top \in Nat /\ top <= peak
  BY <1>1, <1>9, <1>11 DEF Numbered
<1>13. ASSUME NEW i \in U, rows[i].seq <= top
       PROVE  i \in batch
  <2>1. Before(i) \subseteq Before(b) /\ IsFiniteSet(Before(b))
    <3>1. Before(i) \subseteq Before(b)
      <4>1. rows[i].seq <= rows[b].seq
        BY <1>11, <1>13
      <4>2. i \in Live /\ b \in Live
        BY <1>2, <1>6
      <4> SUFFICES ASSUME NEW j \in U, rows[j].seq < rows[i].seq
                   PROVE  rows[j].seq < rows[b].seq
        OBVIOUS
      <4>3. rows[i].seq \in Nat /\ rows[b].seq \in Nat /\ rows[j].seq \in Nat
        BY <1>0, <1>2, <4>2
      <4> QED BY <4>1, <4>3
    <3>2. Before(b) \subseteq U
      OBVIOUS
    <3> QED BY <1>4, <3>1, <3>2, FS_Subset
  <2>2. /\ Cardinality(Before(i)) <= Cardinality(Before(b))
        /\ Cardinality(Before(i)) \in Nat /\ Cardinality(Before(b)) \in Nat
    <3> HIDE DEF Before
    <3> QED BY <2>1, FS_Subset, FS_CardinalityType
  <2>3. Cardinality(Before(b)) < n
    BY <1>6
  <2> HIDE DEF Before
  <2> QED BY <1>5, <1>6, <2>2, <2>3
<1>15. batch \subseteq Undreamed(s) /\ mark[s] < top
  BY <1>9, <1>11 DEF U, Undreamed
<1>14. ASSUME NEW i \in Live \ recycled, InScope(i, s), rows[i].seq <= top
       PROVE  i \in batch \/ Logged(s, i)
  <2>1. CASE rows[i].seq <= mark[s]
    BY <1>1, <1>14, <2>1 DEF MarksCovered, Covers
  <2>2. CASE rows[i].seq > mark[s]
    <3>1. i \in U
      BY <1>14, <2>2 DEF U, Undreamed
    <3> QED BY <1>13, <1>14, <3>1
  <2>3. rows[i].seq \in Nat /\ mark[s] \in Nat
    BY <1>1
  <2> QED BY <2>1, <2>2, <2>3
<1> QED BY <1>1, <1>9, <1>10, <1>12, <1>14, <1>15 DEF Covers

\* Starting a run keeps the invariant.
LEMMA StartCase ==
  ASSUME DInv, NEW r \in Runs, NEW s \in Asked, NEW n \in Limits, StartRun(r, s, n)
  PROVE  DInv'
<1>1. /\ LedgerTypeOK /\ mark \in [Scopes -> Nat] /\ log \in Seq(Recorded)
      /\ warned \in [Scopes -> [Fault -> Nat]] /\ run \in [Runs -> RunState]
      /\ MarksCovered /\ RunsCovered
  BY DEF DInv
<1>2. /\ UNCHANGED <<rows, fts, up, born, crashes, orphaned, history>>
      /\ UNCHANGED <<mark, log, warned>> /\ todo = <<>> /\ todo' = <<>>
  BY DEF StartRun, ledgerVars, Idle
<1>3. /\ LedgerTypeOK' /\ ReplayOrder' /\ Numbered' /\ RowsDelta
      /\ Live' = Live /\ peak' = peak /\ recycled' = recycled
  BY <1>2, DreamFrame
<1>4. LogGrows
  BY <1>2 DEF LogGrows, Logged
<1>5. MarksCovered'
  BY <1>1, <1>2, <1>3, <1>4, MarksStable
<1>6. s \in Scopes
  BY AskedAssumption DEF Scopes
<1>7. PICK batch : batch = FirstBySeq(Undreamed(s), n)
  OBVIOUS
<1>8. PICK top : top = Max({rows[i].seq : i \in batch})
  OBVIOUS
<1>9. /\ batch \in SUBSET Nat /\ top \in Nat /\ top <= peak
      /\ Covers(s, top, batch)
  <2>1. Undreamed(s) # {}
    BY DEF StartRun
  <2> QED BY <1>6, <1>7, <1>8, <2>1, BatchCovers
<1>10. PICK phase \in {"asking", "answered"} :
         run' = [run EXCEPT ![r] = [phase |-> phase, scope |-> s, batch |-> batch,
                                    top |-> top, fault |-> "none"]]
  BY <1>7, <1>8 DEF StartRun
<1>11. top <= peak' /\ Covers(s, top, batch)'
  BY <1>1, <1>3, <1>4, <1>6, <1>9, CoversStable
<1>12. run' \in [Runs -> RunState]
  BY <1>1, <1>6, <1>9, <1>10 DEF RunState
<1>13. RunsCovered'
  <2>1. ASSUME NEW q \in Runs, run'[q].phase # "none"
        PROVE  run'[q].top <= peak' /\ Covers(run[q].scope, run[q].top, run[q].batch)'
    <3>1. CASE q = r
      <4>1. run'[q].scope = s /\ run'[q].top = top /\ run'[q].batch = batch
        BY <1>1, <1>10, <3>1
      <4> QED BY <1>11, <4>1
    <3>2. CASE q # r
      <4>1. run'[q] = run[q] /\ run[q].scope \in Scopes /\ run[q].top \in Nat
        BY <1>1, <1>10, <3>2 DEF RunState
      <4>2. PICK sq \in Scopes, tq \in Nat : sq = run[q].scope /\ tq = run[q].top
        BY <4>1
      <4>5. PICK bq : bq = run[q].batch
        OBVIOUS
      <4>3. tq <= peak /\ Covers(sq, tq, bq)
        BY <1>1, <2>1, <4>1, <4>2, <4>5 DEF RunsCovered
      <4>4. tq <= peak' /\ Covers(sq, tq, bq)'
        BY <1>1, <1>3, <1>4, <4>3, CoversStable
      <4> QED BY <4>1, <4>2, <4>4, <4>5
    <3> QED BY <3>1, <3>2
  <2> QED BY <2>1 DEF RunsCovered
<1>14. todo' \in Seq(LedgerStmt) /\ WellShaped(todo)'
  BY <1>2 DEF WellShaped
<1>15. /\ mark' \in [Scopes -> Nat] /\ log' \in Seq(Recorded)
       /\ warned' \in [Scopes -> [Fault -> Nat]]
  BY <1>1, <1>2
<1> QED BY <1>3, <1>5, <1>12, <1>13, <1>14, <1>15 DEF DInv

\* Steps that change neither the watermarks nor the log, and of the runs only
\* what coverage does not read.
LEMMA QuietStep ==
  ASSUME DInv, UNCHANGED <<rows, fts, up, born, crashes, orphaned, history>>,
         UNCHANGED <<mark, log>>, warned' \in [Scopes -> [Fault -> Nat]],
         run' \in [Runs -> RunState], \A r \in Runs : Keeps(r),
         \/ todo' \in Seq(LedgerStmt) /\ WellShaped(todo)'
         \/ up /\ DreamTodo'
  PROVE  DInv'
<1>1. /\ LedgerTypeOK /\ mark \in [Scopes -> Nat] /\ log \in Seq(Recorded)
      /\ run \in [Runs -> RunState] /\ MarksCovered /\ RunsCovered
  BY DEF DInv
<1>2. LedgerTypeOK' /\ ReplayOrder' /\ Numbered' /\ RowsDelta
  BY DreamFrame
<1>3. LogGrows
  BY DEF LogGrows, Logged
<1>4. MarksCovered' /\ RunsCovered'
  BY <1>1, <1>2, <1>3, MarksStable, RunsStable
<1>5. mark' \in [Scopes -> Nat] /\ log' \in Seq(Recorded)
  BY <1>1
<1>6. up => up'
  OBVIOUS
<1>7. \/ todo' \in Seq(LedgerStmt) /\ WellShaped(todo)'
      \/ up' /\ DreamTodo'
  BY <1>6
<1> QED BY <1>2, <1>4, <1>5, <1>7 DEF DInv

\* The answer of the model leaves what the run has read.
LEMMA AnswerFaultCase ==
  ASSUME DInv, NEW r \in Runs, NEW f \in Faults, run[r].phase = "asking",
         Answered(r, f)
  PROVE  run' \in [Runs -> RunState] /\ \A q \in Runs : Keeps(q)
<1>1. run \in [Runs -> RunState]
  BY DEF DInv
<1>2. run' = [run EXCEPT ![r].phase = "answered", ![r].fault = f]
  BY DEF Answered
<1>3. run' \in [Runs -> RunState]
  BY <1>1, <1>2 DEF RunState, Faults
<1>4. \A q \in Runs : Keeps(q)
  BY <1>1, <1>2 DEF Keeps, RunState
<1> QED BY <1>3, <1>4

\* The end of the await keeps the invariant.
LEMMA AnswerCase ==
  ASSUME DInv, NEW r \in Runs, Answer(r)
  PROVE  DInv'
<1>1. run \in [Runs -> RunState] /\ warned \in [Scopes -> [Fault -> Nat]]
  BY DEF DInv
<1>2. ASSUME NEW f \in Faults, Idle, run[r].phase = "asking", Answered(r, f),
             UNCHANGED <<ledgerVars, mark, log, warned>>
      PROVE  DInv'
  <2>1. run' \in [Runs -> RunState] /\ \A q \in Runs : Keeps(q)
    BY <1>2, AnswerFaultCase
  <2>2. /\ UNCHANGED <<rows, fts, up, born, crashes, orphaned, history>>
        /\ UNCHANGED <<mark, log>> /\ todo' = <<>> /\ warned' = warned
    BY <1>2 DEF ledgerVars, Idle
  <2>3. todo' \in Seq(LedgerStmt) /\ WellShaped(todo)'
    BY <2>2 DEF WellShaped
  <2> QED BY <1>1, <2>1, <2>2, <2>3, QuietStep
<1>3. CASE AnswerRuleOnly(r)
  BY <1>2, <1>3 DEF AnswerRuleOnly, Faults
<1>4. ASSUME NEW f \in Fault, AnswerFault(r, f)
      PROVE  DInv'
  BY <1>2, <1>4 DEF AnswerFault, Faults
<1>5. CASE AnswerValid(r)
  <2>1. /\ run[r].phase = "asking" /\ Answered(r, "none") /\ "none" \in Faults
        /\ up /\ todo' = <<SupRec(run[r].scope)>>
        /\ UNCHANGED <<rows, fts, up, born, crashes, orphaned, history>>
        /\ UNCHANGED <<mark, log>> /\ warned' = warned
    BY <1>5 DEF AnswerValid, Submit, SupRec, Idle, Faults
  <2>2. run' \in [Runs -> RunState] /\ \A q \in Runs : Keeps(q)
    BY <2>1, AnswerFaultCase
  <2>3. run[r].scope \in Scopes
    BY <1>1 DEF RunState
  <2>4. DreamTodo'
    <3>1. PICK s \in Scopes : s = run[r].scope
      BY <2>3
    <3>2. todo' = <<SupRec(s)>>
      BY <2>1, <3>1
    <3>3. {} \in SUBSET Nat /\ "none" \in Faults /\ 0 \in Nat
      BY DEF Faults
    <3> QED BY <3>2, <3>3 DEF DreamTodo
  <2> QED BY <1>1, <2>1, <2>2, <2>4, QuietStep
<1> QED BY <1>3, <1>4, <1>5 DEF Answer

\* Handing over the three commits keeps the invariant.
LEMMA FinishCase ==
  ASSUME DInv, NEW r \in Runs, FinishRun(r)
  PROVE  DInv'
<1>1. /\ run \in [Runs -> RunState] /\ warned \in [Scopes -> [Fault -> Nat]]
      /\ RunsCovered /\ LedgerTypeOK /\ log \in Seq(Recorded)
  BY DEF DInv
<1>2. PICK s \in Scopes, ev \in SUBSET Nat, f \in Faults, top \in Nat :
        s = run[r].scope /\ ev = run[r].batch /\ f = run[r].fault /\ top = run[r].top
  BY <1>1 DEF RunState, Faults
<1>3. /\ run[r].phase = "answered" /\ up
      /\ todo' = <<RunRec(s, ev), CandRec(s, f), MarkRec(s, top)>>
      /\ UNCHANGED <<rows, fts, up, born, crashes, orphaned, history>>
      /\ UNCHANGED <<mark, log>> /\ warned' = warned
      /\ run' = [run EXCEPT ![r] = NoRun]
  BY <1>2 DEF FinishRun, Finish, RunStmts, Submit, Idle, RunRec, CandRec, MarkRec
<1>4. top <= peak /\ Covers(s, top, ev)
  BY <1>1, <1>2, <1>3 DEF RunsCovered
<1>5. LogGrows
  BY <1>3 DEF LogGrows, Logged
<1>6. top <= peak' /\ Covers(s, top, ev)'
  BY <1>1, <1>3, <1>4, <1>5, DreamFrame, CoversStable
<1>7. DreamTodo'
  BY <1>3, <1>6 DEF DreamTodo, TripleTodo
<1>8. run' \in [Runs -> RunState] /\ \A q \in Runs : Keeps(q)
  <2>1. NoRun \in RunState /\ NoRun.phase = "none"
    BY DEF NoRun, RunState, Scopes
  <2> QED BY <1>1, <1>3, <2>1 DEF Keeps
<1> QED BY <1>1, <1>3, <1>7, <1>8, QuietStep

\* Appending to the log records more.
LEMMA AppendLog ==
  ASSUME log \in Seq(Recorded), NEW e \in Recorded, log' = Append(log, e)
  PROVE  /\ log' \in Seq(Recorded) /\ LogGrows
         /\ log' # <<>> /\ log'[Len(log')] = e
<1>1. /\ log' \in Seq(Recorded) /\ Len(log') = Len(log) + 1
      /\ log'[Len(log) + 1] = e /\ \A k \in 1..Len(log) : log'[k] = log[k]
  BY AppendProperties
<1>2. Len(log) \in Nat /\ DOMAIN log = 1..Len(log) /\ DOMAIN log' = 1..Len(log')
  BY <1>1, LenProperties
<1>3. LogGrows
  BY <1>1, <1>2 DEF LogGrows, Logged
<1> QED BY <1>1, <1>2, <1>3

\* A host that moves the watermark by itself keeps the invariant.
LEMMA HostCase ==
  ASSUME DInv, NEW s \in Asked, NEW i \in Live, MarkByHost(s, i)
  PROVE  DInv'
<1>1. /\ LedgerTypeOK /\ mark \in [Scopes -> Nat] /\ log \in Seq(Recorded)
      /\ warned \in [Scopes -> [Fault -> Nat]] /\ run \in [Runs -> RunState]
      /\ MarksCovered /\ RunsCovered /\ Numbered
  BY DEF DInv
<1> DEFINE ev == {j \in Live : InScope(j, s) /\ rows[j].seq <= rows[i].seq}
           e  == [by |-> "host", scope |-> s, done |-> TRUE, events |-> ev]
<1>2. /\ UNCHANGED <<rows, fts, up, born, crashes, orphaned, history>>
      /\ UNCHANGED <<warned, run>> /\ todo = <<>> /\ todo' = <<>>
      /\ mark' = [mark EXCEPT ![s] = rows[i].seq]
      /\ log' = Append(log, e)
  BY DEF MarkByHost, ledgerVars, Idle
<1>3. /\ LedgerTypeOK' /\ ReplayOrder' /\ Numbered' /\ RowsDelta
      /\ Live' = Live /\ peak' = peak /\ recycled' = recycled
  BY <1>2, DreamFrame
<1>4. s \in Scopes /\ rows[i].seq \in Nat /\ rows[i].seq <= peak /\ Live \subseteq Nat
  BY <1>1, AskedAssumption, PeakType DEF Scopes, Numbered
<1>5. ev \in SUBSET Nat
  BY <1>4
<1>6. e \in Recorded /\ e.scope = s /\ e.done /\ e.events = ev
  <2> HIDE DEF ev
  <2> QED BY <1>4, <1>5 DEF Recorded
<1> HIDE DEF e
<1>7. /\ log' \in Seq(Recorded) /\ LogGrows
      /\ log' # <<>> /\ log'[Len(log')] = e
  BY <1>1, <1>2, <1>6, AppendLog
<1>8. RunsCovered'
  BY <1>1, <1>2, <1>3, <1>7, RunsStable DEF Keeps
<1>9. \A j \in ev : Logged(s, j)'
  <2>1. Len(log') \in DOMAIN log'
    BY <1>7, EmptySeq, LenProperties
  <2> HIDE DEF ev
  <2> QED BY <1>6, <1>7, <2>1 DEF Logged
<1>10. MarksCovered'
  <2>1. ASSUME NEW q \in Scopes
        PROVE  mark'[q] <= peak' /\ Covers(q, mark[q], {})'
    <3>1. PICK top \in Nat : top = mark'[q]
      BY <1>1, <1>2, <1>4
    <3>2. CASE q = s
      <4>1. top = rows[i].seq
        BY <1>1, <1>2, <3>1, <3>2
      <4>2. Covers(s, top, {})'
        BY <1>2, <1>3, <1>9, <4>1 DEF Covers, InScope, IsRaw
      <4> QED BY <1>3, <1>4, <3>1, <3>2, <4>1, <4>2
    <3>3. CASE q # s
      <4>1. top = mark[q]
        BY <1>1, <1>2, <3>1, <3>3
      <4>2. top <= peak /\ Covers(q, top, {})
        BY <1>1, <4>1 DEF MarksCovered
      <4>3. top <= peak' /\ Covers(q, top, {})'
        BY <1>1, <1>3, <1>7, <4>2, CoversStable
      <4> QED BY <3>1, <4>3
    <3> QED BY <3>2, <3>3
  <2> QED BY <2>1 DEF MarksCovered
<1>11. todo' \in Seq(LedgerStmt) /\ WellShaped(todo)'
  BY <1>2 DEF WellShaped
<1>12. /\ mark' \in [Scopes -> Nat] /\ warned' \in [Scopes -> [Fault -> Nat]]
       /\ run' \in [Runs -> RunState]
  BY <1>1, <1>2, <1>4
<1> QED BY <1>3, <1>7, <1>8, <1>10, <1>11, <1>12 DEF DInv

-----------------------------------------------------------------------------
(* The statements of a run. *)

\* What is left of the call, by its first statement.
AtRun ==
  \E s \in Scopes, ev \in SUBSET Nat, f \in Faults, top \in Nat :
    /\ TripleTodo(s, ev, f, top) /\ Head(todo) = RunRec(s, ev)
    /\ Tail(todo) = <<CandRec(s, f), MarkRec(s, top)>>

AtCandidates ==
  \E s \in Scopes, f \in Faults, top \in Nat :
    /\ PairTodo(s, f, top) /\ Head(todo) = CandRec(s, f)
    /\ Tail(todo) = <<MarkRec(s, top)>>

AtMark ==
  \E s \in Scopes, top \in Nat :
    /\ MarkTodo(s, top) /\ Head(todo) = MarkRec(s, top)
    /\ Tail(todo) = <<>>

AtSupersede == \E s \in Scopes : todo = <<SupRec(s)>> /\ Tail(todo) = <<>>

\* In a call of the curator the first statement tells the rest.
LEMMA DreamShape ==
  ASSUME DInv, up, todo # <<>>
  PROVE  /\ Head(todo).do = "run" => AtRun
         /\ Head(todo).do = "candidates" => AtCandidates
         /\ Head(todo).do = "mark" => AtMark
         /\ Head(todo).do = "supersede" => AtSupersede
<1>1. CASE todo \in Seq(LedgerStmt)
  BY <1>1, LedgerHead
<1>2. CASE DreamTodo
  <2>1. PICK s \in Scopes, ev \in SUBSET Nat, f \in Faults, top \in Nat :
          \/ TripleTodo(s, ev, f, top)
          \/ PairTodo(s, f, top)
          \/ MarkTodo(s, top)
          \/ todo = <<SupRec(s)>>
    BY <1>2 DEF DreamTodo
  <2> DEFINE a == RunRec(s, ev)
             b == CandRec(s, f)
             c == MarkRec(s, top)
             d == SupRec(s)
  <2>2. a.do = "run" /\ b.do = "candidates" /\ c.do = "mark" /\ d.do = "supersede"
    BY DreamStmtTypes
  <2>3. /\ TripleTodo(s, ev, f, top) => todo = <<a, b, c>>
        /\ PairTodo(s, f, top) => todo = <<b, c>>
        /\ MarkTodo(s, top) => todo = <<c>>
    BY DEF TripleTodo, PairTodo, MarkTodo
  <2>4. CASE TripleTodo(s, ev, f, top)
    <3>1. Head(todo) = a /\ Tail(todo) = <<b, c>>
      <4>1. todo = <<a, b, c>>
        BY <2>3, <2>4
      <4> HIDE DEF a, b, c, d
      <4> QED BY <4>1
    <3>2. Head(todo).do = "run"
      BY <2>2, <3>1
    <3>3. AtRun
      BY <2>4, <3>1 DEF AtRun
    <3> QED BY <3>2, <3>3
  <2>5. CASE PairTodo(s, f, top)
    <3>1. Head(todo) = b /\ Tail(todo) = <<c>>
      <4>1. todo = <<b, c>>
        BY <2>3, <2>5
      <4> HIDE DEF a, b, c, d
      <4> QED BY <4>1
    <3>2. Head(todo).do = "candidates"
      BY <2>2, <3>1
    <3>3. AtCandidates
      BY <2>5, <3>1 DEF AtCandidates
    <3> QED BY <3>2, <3>3
  <2>6. CASE MarkTodo(s, top)
    <3>1. Head(todo) = c /\ Tail(todo) = <<>>
      <4>1. todo = <<c>>
        BY <2>3, <2>6
      <4> HIDE DEF a, b, c, d
      <4> QED BY <4>1
    <3>2. Head(todo).do = "mark"
      BY <2>2, <3>1
    <3>3. AtMark
      BY <2>6, <3>1 DEF AtMark
    <3> QED BY <3>2, <3>3
  <2>7. CASE todo = <<SupRec(s)>>
    <3>1. Head(todo) = d /\ Tail(todo) = <<>>
      <4>1. todo = <<d>>
        BY <2>7
      <4> HIDE DEF a, b, c, d
      <4> QED BY <4>1
    <3>2. Head(todo).do = "supersede"
      BY <2>2, <3>1
    <3>3. AtSupersede
      BY <2>7, <3>1 DEF AtSupersede
    <3> QED BY <3>2, <3>3
  <2> QED BY <2>1, <2>4, <2>5, <2>6, <2>7
<1> QED BY <1>1, <1>2 DEF DInv

\* insertRun keeps the invariant.
LEMMA InsertRunCase ==
  ASSUME DInv, InsertRun
  PROVE  DInv'
<1>1. /\ LedgerTypeOK /\ mark \in [Scopes -> Nat] /\ log \in Seq(Recorded)
      /\ warned \in [Scopes -> [Fault -> Nat]] /\ run \in [Runs -> RunState]
      /\ MarksCovered /\ RunsCovered
  BY DEF DInv
<1>2. PICK s \in Scopes, ev \in SUBSET Nat, f \in Faults, top \in Nat :
        /\ TripleTodo(s, ev, f, top) /\ Head(todo) = RunRec(s, ev)
        /\ Tail(todo) = <<CandRec(s, f), MarkRec(s, top)>>
  BY DreamShape DEF InsertRun, Doing, AtRun
<1> DEFINE e == [by |-> "run", scope |-> s, events |-> ev, done |-> FALSE]
<1>3. /\ UNCHANGED <<rows, fts, up, born, crashes, orphaned, history>>
      /\ UNCHANGED <<mark, warned, run>> /\ up
      /\ todo' = <<CandRec(s, f), MarkRec(s, top)>>
      /\ log' = Append(log, e)
  <2>1. RunRec(s, ev).scope = s /\ RunRec(s, ev).events = ev
    BY DEF RunRec
  <2> QED BY <1>2, <2>1 DEF InsertRun, Doing, NextStmt
<1>4. /\ LedgerTypeOK' /\ ReplayOrder' /\ Numbered' /\ RowsDelta
      /\ Live' = Live /\ peak' = peak /\ recycled' = recycled
  BY <1>3, DreamFrame
<1>5. e \in Recorded /\ e.scope = s /\ e.events = ev
  BY DEF Recorded
<1> HIDE DEF e
<1>6. /\ log' \in Seq(Recorded) /\ LogGrows
      /\ log' # <<>> /\ log'[Len(log')] = e
  BY <1>1, <1>3, <1>5, AppendLog
<1>7. MarksCovered' /\ RunsCovered'
  BY <1>1, <1>3, <1>4, <1>6, MarksStable, RunsStable DEF Keeps
<1>8. top <= peak' /\ Covers(s, top, ev)'
  BY <1>1, <1>2, <1>4, <1>6, CoversStable DEF TripleTodo
<1>9. PairTodo(s, f, top)'
  <2>1. log'[Len(log')].scope = s /\ log'[Len(log')].events = ev
    BY <1>5, <1>6
  <2> QED BY <1>3, <1>6, <1>8, <2>1 DEF PairTodo
<1>10. up' /\ DreamTodo'
  BY <1>3, <1>9 DEF DreamTodo
<1>11. /\ mark' \in [Scopes -> Nat] /\ warned' \in [Scopes -> [Fault -> Nat]]
       /\ run' \in [Runs -> RunState]
  BY <1>1, <1>3
<1> QED BY <1>4, <1>6, <1>7, <1>10, <1>11 DEF DInv

\* insertCandidates keeps the invariant: now the batch is recorded, and the
\* watermark may be written.
LEMMA InsertCandidatesCase ==
  ASSUME DInv, InsertCandidates
  PROVE  DInv'
<1>1. /\ LedgerTypeOK /\ mark \in [Scopes -> Nat] /\ log \in Seq(Recorded)
      /\ warned \in [Scopes -> [Fault -> Nat]] /\ run \in [Runs -> RunState]
      /\ MarksCovered /\ RunsCovered
  BY DEF DInv
<1>2. PICK s \in Scopes, f \in Faults, top \in Nat :
        /\ PairTodo(s, f, top) /\ Head(todo) = CandRec(s, f)
        /\ Tail(todo) = <<MarkRec(s, top)>>
  BY DreamShape DEF InsertCandidates, Doing, AtCandidates
<1>3. /\ UNCHANGED <<rows, fts, up, born, crashes, orphaned, history>>
      /\ UNCHANGED <<mark, run>> /\ up
      /\ todo' = <<MarkRec(s, top)>>
      /\ log' = [log EXCEPT ![Len(log)].done = TRUE]
      /\ warned' = IF f = "none" THEN warned ELSE [warned EXCEPT ![s][f] = @ + 1]
  <2>1. CandRec(s, f).scope = s /\ CandRec(s, f).fault = f
    BY DEF CandRec
  <2> QED BY <1>2, <2>1 DEF InsertCandidates, Doing, NextStmt
<1>4. /\ LedgerTypeOK' /\ ReplayOrder' /\ Numbered' /\ RowsDelta
      /\ Live' = Live /\ peak' = peak /\ recycled' = recycled
  BY <1>3, DreamFrame
<1> DEFINE n == Len(log)
<1>5. n \in 1..n /\ DOMAIN log = 1..n /\ log[n] \in Recorded /\ log[n].scope = s
  <2>1. n \in Nat \ {0}
    BY <1>1, <1>2, EmptySeq, LenProperties DEF PairTodo
  <2> QED BY <1>1, <1>2, <2>1, LenProperties, ElementOfSeq DEF PairTodo
<1>6. /\ DOMAIN log' = DOMAIN log
      /\ log' \in Seq(Recorded)
      /\ log'[n].done /\ log'[n].scope = s /\ log'[n].events = log[n].events
      /\ \A k \in 1..n : k # n => log'[k] = log[k]
  <2> DEFINE x == [log[n] EXCEPT !.done = TRUE]
  <2>1. x \in Recorded /\ x.done /\ x.scope = s /\ x.events = log[n].events
    BY <1>5 DEF Recorded
  <2>2. log' = [log EXCEPT ![n] = x]
    BY <1>3
  <2> HIDE DEF x
  <2>3. log' \in Seq(Recorded)
    BY <1>1, <1>5, <2>1, <2>2, ExceptSeq
  <2> QED BY <1>1, <1>5, <2>1, <2>2, <2>3
<1>7. LogGrows
  <2>1. ASSUME NEW q \in Scopes, NEW i \in Nat, NEW k \in 1..n,
               log[k].scope = q, log[k].done, i \in log[k].events
        PROVE  Logged(q, i)'
    BY <1>5, <1>6, <2>1 DEF Logged
  <2> QED BY <1>5, <2>1 DEF LogGrows, Logged
<1>8. MarksCovered' /\ RunsCovered'
  BY <1>1, <1>3, <1>4, <1>7, MarksStable, RunsStable DEF Keeps
<1>9. MarkTodo(s, top)'
  <2>1. PICK ev : ev = log[n].events
    OBVIOUS
  <2>2. top <= peak /\ Covers(s, top, ev)
    BY <1>2, <2>1 DEF PairTodo
  <2>3. top <= peak' /\ Covers(s, top, ev)'
    BY <1>1, <1>4, <1>7, <2>2, CoversStable
  <2>4. \A i \in ev : Logged(s, i)'
    BY <1>5, <1>6, <2>1 DEF Logged
  <2>5. Covers(s, top, {})'
    BY <2>3, <2>4 DEF Covers
  <2> QED BY <1>3, <2>3, <2>5 DEF MarkTodo
<1>10. up' /\ DreamTodo'
  <2>1. {} \in SUBSET Nat
    OBVIOUS
  <2> QED BY <1>3, <1>9, <2>1 DEF DreamTodo
<1>11. warned' \in [Scopes -> [Fault -> Nat]]
  BY <1>1, <1>3 DEF Faults
<1>12. mark' \in [Scopes -> Nat] /\ run' \in [Runs -> RunState]
  BY <1>1, <1>3
<1> QED BY <1>4, <1>6, <1>8, <1>10, <1>11, <1>12 DEF DInv

\* markDreamed keeps the invariant.
LEMMA MarkDreamedCase ==
  ASSUME DInv, MarkDreamed
  PROVE  DInv'
<1>1. /\ LedgerTypeOK /\ mark \in [Scopes -> Nat] /\ log \in Seq(Recorded)
      /\ warned \in [Scopes -> [Fault -> Nat]] /\ run \in [Runs -> RunState]
      /\ MarksCovered /\ RunsCovered
  BY DEF DInv
<1>2. PICK s \in Scopes, top \in Nat :
        MarkTodo(s, top) /\ Head(todo) = MarkRec(s, top) /\ Tail(todo) = <<>>
  BY DreamShape DEF MarkDreamed, Doing, AtMark
<1>3. /\ UNCHANGED <<rows, fts, up, born, crashes, orphaned, history>>
      /\ UNCHANGED <<log, warned, run>> /\ todo' = <<>>
      /\ mark' = [mark EXCEPT ![s] = top]
  <2>1. MarkRec(s, top).scope = s /\ MarkRec(s, top).top = top
    BY DEF MarkRec
  <2> QED BY <1>2, <2>1 DEF MarkDreamed, NextStmt
<1>4. /\ LedgerTypeOK' /\ ReplayOrder' /\ Numbered' /\ RowsDelta
  BY <1>3, DreamFrame
<1>5. LogGrows
  BY <1>3 DEF LogGrows, Logged
<1>6. RunsCovered'
  BY <1>1, <1>3, <1>4, <1>5, RunsStable DEF Keeps
<1>7. MarksCovered'
  <2>1. ASSUME NEW q \in Scopes
        PROVE  mark'[q] <= peak' /\ Covers(q, mark[q], {})'
    <3>1. PICK t \in Nat : t = mark'[q] /\ t = IF q = s THEN top ELSE mark[q]
      BY <1>1, <1>3
    <3>2. t <= peak /\ Covers(q, t, {})
      BY <1>1, <1>2, <3>1 DEF MarksCovered, MarkTodo
    <3>3. t <= peak' /\ Covers(q, t, {})'
      BY <1>1, <1>4, <1>5, <3>2, CoversStable
    <3> QED BY <3>1, <3>3
  <2> QED BY <2>1 DEF MarksCovered
<1>8. todo' \in Seq(LedgerStmt) /\ WellShaped(todo)'
  BY <1>3 DEF WellShaped
<1>9. /\ mark' \in [Scopes -> Nat] /\ warned' \in [Scopes -> [Fault -> Nat]]
      /\ run' \in [Runs -> RunState] /\ log' \in Seq(Recorded)
  BY <1>1, <1>3
<1> QED BY <1>4, <1>6, <1>7, <1>8, <1>9 DEF DInv

\* Superseding warnings keeps the invariant.
LEMMA SupersedeCase ==
  ASSUME DInv, Supersede
  PROVE  DInv'
<1>1. warned \in [Scopes -> [Fault -> Nat]] /\ run \in [Runs -> RunState]
  BY DEF DInv
<1>2. PICK s \in Scopes : todo = <<SupRec(s)>> /\ Tail(todo) = <<>>
  BY DreamShape DEF Supersede, Doing, AtSupersede
<1>3. Head(todo).scope = s /\ up
  <2> DEFINE d == SupRec(s)
  <2>1. d.scope = s /\ todo = <<d>>
    BY <1>2 DEF SupRec
  <2> HIDE DEF d
  <2> QED BY <2>1 DEF Supersede, Doing
<1>4. UNCHANGED <<mark, log>> /\ run' = run
  BY DEF Supersede
<1>5. run' \in [Runs -> RunState] /\ \A r \in Runs : Keeps(r)
  BY <1>1, <1>4 DEF Keeps
<1>6. CASE NextStmt /\ UNCHANGED warned
  <2>1. /\ UNCHANGED <<rows, fts, up, born, crashes, orphaned, history>>
        /\ todo' = <<>> /\ warned' = warned
    BY <1>2, <1>6 DEF NextStmt
  <2>2. todo' \in Seq(LedgerStmt) /\ WellShaped(todo)'
    BY <2>1 DEF WellShaped
  <2> QED BY <1>1, <1>4, <1>5, <2>1, <2>2, QuietStep
<1>7. ASSUME NEW w \in ActiveWarnings(s), UNCHANGED ledgerVars,
             warned' = [warned EXCEPT ![w[1]][w[2]] = @ - 1]
      PROVE  DInv'
  <2>1. /\ UNCHANGED <<rows, fts, up, born, crashes, orphaned, history>>
        /\ todo' = <<SupRec(s)>>
    BY <1>2, <1>7 DEF ledgerVars
  <2>2. warned' \in [Scopes -> [Fault -> Nat]]
    <3>1. w[1] \in Scopes /\ w[2] \in Fault /\ warned[w[1]][w[2]] > 0
      BY DEF ActiveWarnings, Listed
    <3>2. PICK q \in Scopes, f \in Fault : q = w[1] /\ f = w[2]
      BY <3>1
    <3>3. warned[q][f] - 1 \in Nat
      BY <1>1, <3>1, <3>2
    <3> QED BY <1>1, <1>7, <3>2, <3>3
  <2>3. DreamTodo'
    <3>1. {} \in SUBSET Nat /\ "none" \in Faults /\ 0 \in Nat
      BY DEF Faults
    <3> QED BY <2>1, <3>1 DEF DreamTodo
  <2> QED BY <1>3, <1>4, <1>5, <2>1, <2>2, <2>3, QuietStep
<1> QED BY <1>3, <1>6, <1>7 DEF Supersede

-----------------------------------------------------------------------------
(* The invariant and what it implies. *)

\* Every step keeps the invariant.
LEMMA DreamPreserves ==
  ASSUME DInv, [Next]_vars
  PROVE  DInv'
<1>1. CASE UNCHANGED vars
  <2>1. /\ UNCHANGED <<rows, fts, up, born, crashes, orphaned, history>>
        /\ UNCHANGED <<mark, log>> /\ todo' = todo /\ warned' = warned /\ run' = run
    BY <1>1 DEF vars, ledgerVars, dreamVars
  <2>2. /\ warned' \in [Scopes -> [Fault -> Nat]] /\ run' \in [Runs -> RunState]
        /\ \A r \in Runs : Keeps(r)
    BY <2>1 DEF DInv, Keeps
  <2>3. CASE todo \in Seq(LedgerStmt) /\ WellShaped(todo)
    <3>1. todo' \in Seq(LedgerStmt) /\ WellShaped(todo)'
      BY <2>1, <2>3 DEF WellShaped, Fits, Live
    <3> QED BY <2>1, <2>2, <3>1, QuietStep
  <2>4. CASE up /\ DreamTodo
    <3>1. LedgerTypeOK /\ RowsDelta
      BY <2>1, DreamFrame DEF DInv
    <3>2. LogGrows
      BY <2>1 DEF LogGrows, Logged
    <3>3. PICK s \in Scopes, ev \in SUBSET Nat, f \in Faults, top \in Nat :
            \/ TripleTodo(s, ev, f, top)
            \/ PairTodo(s, f, top)
            \/ MarkTodo(s, top)
            \/ todo = <<SupRec(s)>>
      BY <2>4 DEF DreamTodo
    <3>4. DreamTodo'
      <4>1. CASE TripleTodo(s, ev, f, top)
        <5>1. top <= peak' /\ Covers(s, top, ev)'
          BY <3>1, <3>2, <4>1, CoversStable DEF TripleTodo
        <5>2. todo' = <<RunRec(s, ev), CandRec(s, f), MarkRec(s, top)>>
          BY <2>1, <4>1 DEF TripleTodo
        <5> QED BY <5>1, <5>2 DEF DreamTodo, TripleTodo
      <4>2. CASE PairTodo(s, f, top)
        <5>1. PICK last : last = log[Len(log)].events
          OBVIOUS
        <5>2. top <= peak' /\ Covers(s, top, last)'
          BY <3>1, <3>2, <4>2, <5>1, CoversStable DEF PairTodo
        <5>3. /\ todo' = <<CandRec(s, f), MarkRec(s, top)>>
              /\ log' # <<>> /\ log'[Len(log')].scope = s /\ log'[Len(log')].events = last
          BY <2>1, <4>2, <5>1 DEF PairTodo
        <5>4. PairTodo(s, f, top)'
          BY <5>2, <5>3 DEF PairTodo
        <5> QED BY <5>4 DEF DreamTodo
      <4>3. CASE MarkTodo(s, top)
        <5>1. top <= peak' /\ Covers(s, top, {})'
          BY <3>1, <3>2, <4>3, CoversStable DEF MarkTodo
        <5>2. todo' = <<MarkRec(s, top)>>
          BY <2>1, <4>3 DEF MarkTodo
        <5> QED BY <5>1, <5>2 DEF DreamTodo, MarkTodo
      <4>4. CASE todo = <<SupRec(s)>>
        BY <2>1, <4>4 DEF DreamTodo
      <4> QED BY <3>3, <4>1, <4>2, <4>3, <4>4
    <3> QED BY <2>1, <2>2, <2>4, <3>4, QuietStep
  <2> QED BY <2>3, <2>4 DEF DInv
<1>2. CASE DreamStatement
  BY <1>2, InsertRunCase, InsertCandidatesCase, MarkDreamedCase, SupersedeCase DEF DreamStatement
<1> QED BY <1>1, <1>2, LedgerCase, StartCase, AnswerCase, FinishCase, HostCase, CrashCase DEF Next, CuratorNext

\* The initial state satisfies it.
LEMMA DreamStart == Init => DInv
<1> SUFFICES ASSUME Init PROVE DInv
  OBVIOUS
<1>1. IInv /\ LedgerInit
  BY LedgerStart DEF Init
<1>2. Live = {} /\ peak = 0
  BY <1>1 DEF LedgerInit, Live
<1>3. /\ mark = [s \in Scopes |-> 0] /\ log = <<>>
      /\ warned = [s \in Scopes |-> [f \in Fault |-> 0]] /\ run = [r \in Runs |-> NoRun]
  BY DEF Init
<1>4. NoRun \in RunState /\ NoRun.phase = "none"
  BY DEF NoRun, RunState, Scopes
<1>5. /\ mark \in [Scopes -> Nat] /\ log \in Seq(Recorded)
      /\ warned \in [Scopes -> [Fault -> Nat]] /\ run \in [Runs -> RunState]
  BY <1>3, <1>4
<1>6. MarksCovered /\ RunsCovered /\ Numbered
  BY <1>2, <1>3, <1>4 DEF MarksCovered, RunsCovered, Numbered, Covers
<1> QED BY <1>1, <1>5, <1>6 DEF DInv, IInv, TypeOK

\* The inductive invariant holds in every reachable state.
THEOREM DreamInvariant == Spec => []DInv
BY DreamStart, DreamPreserves, PTL DEF Spec

\* Type correctness of the ledger and the curator together, over any number of
\* overlapping runs, crashes, deletions and host calls.
THEOREM DreamTypes == Spec => []DreamTypeOK
BY DreamInvariant, DInvTypes, PTL

\* Coverage means recorded: for every scope, every raw event at or below the
\* watermark is in a batch whose run and candidates are committed, unless its
\* global_seq was given before to a deleted event (DreamCuratorWorker.run,
\* DreamLedgerStore.markDreamed, EventStore.getNextGlobalSeq).
THEOREM DreamCoverage == Spec => []CoverageRecorded
BY DreamInvariant, DInvCoverage, PTL

-----------------------------------------------------------------------------
(* One run at a time. *)

OneRun == \A q, r \in Runs : q = r

\* How often an event was in a recorded batch of a scope.
BatchesWith(s, i) == {k \in DOMAIN log : log[k].scope = s /\ i \in log[k].events}
Times(s, i)       == Cardinality(BatchesWith(s, i))

\* The events beyond the number top have been in at most one batch a crash.
Settled(s, top) ==
  \A i \in Live : InScope(i, s) /\ rows[i].seq > top => Times(s, i) <= crashes
AllSettled == \A s \in Scopes : Settled(s, mark[s])

\* What a run may record: events that a crash accounts for, none beyond top; a
\* watermark ahead of the present one; a warning that is not there yet.
Unwarned(s, f) == f # "none" => warned[s][f] = 0
Fresh(s, ev, f, top) ==
  /\ ev \subseteq 1..born
  /\ mark[s] < top
  /\ \A i \in ev : Times(s, i) <= crashes
  /\ \A i \in ev \cap Live : rows[i].seq <= top
  /\ Unwarned(s, f)

RunFresh(r) == run[r].phase # "none" => Fresh(run[r].scope, run[r].batch, run[r].fault, run[r].top)
NoneRunning == \A r \in Runs : run[r].phase = "none"

\* Where the one run stands, by what is left of its commits.
Rest(t) == t = <<>> \/ Head(t).do \notin {"run", "candidates", "mark"}
AtRest  == Rest(todo) /\ AllSettled /\ \A r \in Runs : RunFresh(r)

ToRecord(s, ev, f, top) ==
  /\ todo = <<RunRec(s, ev), CandRec(s, f), MarkRec(s, top)>>
  /\ NoneRunning /\ AllSettled /\ Fresh(s, ev, f, top)

SettledUpTo(s, top) ==
  /\ mark[s] < top
  /\ Settled(s, top) /\ \A q \in Scopes \ {s} : Settled(q, mark[q])

ToPropose(s, f, top) ==
  /\ todo = <<CandRec(s, f), MarkRec(s, top)>>
  /\ NoneRunning /\ SettledUpTo(s, top) /\ Unwarned(s, f)
  /\ \A i \in log[Len(log)].events \cap Live : rows[i].seq <= top

ToMark(s, top) ==
  /\ todo = <<MarkRec(s, top)>>
  /\ NoneRunning /\ SettledUpTo(s, top)

Stage ==
  \/ AtRest
  \/ \E s \in Scopes, ev \in SUBSET Nat, f \in Faults, top \in Nat :
       ToRecord(s, ev, f, top) \/ ToPropose(s, f, top) \/ ToMark(s, top)

LoggedBorn == \A k \in DOMAIN log : log[k].events \subseteq 1..born
Books      == LoggedBorn /\ RedreamBound /\ WarnedOnce

\* The inductive invariant of one run at a time.
OneInv == DInv /\ Books /\ Stage

\* The statements left tell where the run stands.
LEMMA StageAt ==
  ASSUME Stage
  PROVE  /\ Rest(todo) => AtRest
         /\ todo # <<>> /\ Head(todo).do = "run" =>
              \E s \in Scopes, ev \in SUBSET Nat, f \in Faults, top \in Nat : ToRecord(s, ev, f, top)
         /\ todo # <<>> /\ Head(todo).do = "candidates" =>
              \E s \in Scopes, f \in Faults, top \in Nat : ToPropose(s, f, top)
         /\ todo # <<>> /\ Head(todo).do = "mark" =>
              \E s \in Scopes, top \in Nat : ToMark(s, top)
<1>1. CASE AtRest
  BY <1>1 DEF AtRest, Rest
<1>2. ASSUME NEW s \in Scopes, NEW ev \in SUBSET Nat, NEW f \in Faults, NEW top \in Nat,
             ToRecord(s, ev, f, top)
      PROVE  todo # <<>> /\ Head(todo).do = "run"
  <2> DEFINE a == RunRec(s, ev)
             b == CandRec(s, f)
             c == MarkRec(s, top)
  <2>1. todo = <<a, b, c>> /\ a.do = "run"
    BY <1>2, DreamStmtTypes DEF ToRecord
  <2> HIDE DEF a, b, c
  <2> QED BY <2>1
<1>3. ASSUME NEW s \in Scopes, NEW f \in Faults, NEW top \in Nat, ToPropose(s, f, top)
      PROVE  todo # <<>> /\ Head(todo).do = "candidates"
  <2> DEFINE b == CandRec(s, f)
             c == MarkRec(s, top)
  <2>1. todo = <<b, c>> /\ b.do = "candidates"
    BY <1>3 DEF ToPropose, CandRec
  <2> HIDE DEF b, c
  <2> QED BY <2>1
<1>4. ASSUME NEW s \in Scopes, NEW top \in Nat, ToMark(s, top)
      PROVE  todo # <<>> /\ Head(todo).do = "mark"
  <2> DEFINE c == MarkRec(s, top)
  <2>1. todo = <<c>> /\ c.do = "mark"
    BY <1>4 DEF ToMark, MarkRec
  <2> HIDE DEF c
  <2> QED BY <2>1
<1> QED BY <1>1, <1>2, <1>3, <1>4 DEF Stage, Rest

\* The count of a log is a number.
LEMMA TimesType ==
  ASSUME log \in Seq(Recorded), NEW s, NEW i
  PROVE  IsFiniteSet(BatchesWith(s, i)) /\ Times(s, i) \in Nat
<1>1. IsFiniteSet(DOMAIN log)
  BY LenProperties, FS_Interval
<1>2. BatchesWith(s, i) \subseteq DOMAIN log
  BY DEF BatchesWith
<1> QED BY <1>1, <1>2, FS_Subset, FS_CardinalityType DEF Times

\* What is not born is in no batch.
LEMMA NotYetDreamed ==
  ASSUME LoggedBorn, NEW s, NEW i, i \notin 1..born
  PROVE  Times(s, i) = 0
<1>1. BatchesWith(s, i) = {}
  BY DEF LoggedBorn, BatchesWith
<1> QED BY <1>1, FS_EmptySet DEF Times

\* Steps that leave the log and the watermarks alone, and of the rows what
\* they have in place.
LEMMA OneStable ==
  ASSUME DInv, Books, RowsDelta, crashes' \in Nat, crashes' >= crashes,
         UNCHANGED <<mark, log>>
  PROVE  /\ LoggedBorn' /\ RedreamBound'
         /\ \A s, top : Settled(s, top) => Settled(s, top)'
         /\ AllSettled => AllSettled'
         /\ \A s, i : Times(s, i)' = Times(s, i)
<1>1. /\ LedgerTypeOK /\ log \in Seq(Recorded) /\ LoggedBorn /\ RedreamBound
      /\ born \in Nat /\ born' \in Nat /\ born' >= born /\ crashes \in Nat
  BY PeakType DEF DInv, Books, RowsDelta, LedgerTypeOK
<1>2. \A s, i : Times(s, i)' = Times(s, i)
  BY DEF Times, BatchesWith
<1>3. \A s, i : Times(s, i) \in Nat
  BY <1>1, TimesType
<1>4. LoggedBorn'
  BY <1>1 DEF LoggedBorn
<1>8. 0 <= 1 + crashes'
  <2>1. PICK c \in Nat : c = crashes'
    OBVIOUS
  <2>2. 0 <= 1 + c
    OBVIOUS
  <2> QED BY <2>1, <2>2
<1>5. RedreamBound'
  <2>1. ASSUME NEW s \in Scopes, NEW i \in 1..born'
        PROVE  Times(s, i) <= 1 + crashes'
    <3>1. CASE i \in 1..born
      <4>1. Times(s, i) <= 1 + crashes
        BY <1>1, <3>1 DEF RedreamBound, Times, BatchesWith
      <4>2. Times(s, i) \in Nat /\ crashes \in Nat /\ crashes' \in Nat /\ crashes' >= crashes
        BY <1>1, <1>3
      <4> QED BY ONLY <4>1, <4>2
    <3>2. CASE i \notin 1..born
      <4>1. Times(s, i) = 0
        BY <1>1, <3>2, NotYetDreamed
      <4> QED BY <1>8, <4>1
    <3> QED BY <3>1, <3>2
  <2> QED BY <2>1 DEF RedreamBound, Times, BatchesWith
<1>6. ASSUME NEW s, NEW top, Settled(s, top)
      PROVE  Settled(s, top)'
  <2>1. ASSUME NEW i \in Live', InScope(i, s)', rows'[i].seq > top
        PROVE  Times(s, i) <= crashes'
    <3>1. CASE i \in 1..born
      <4>1. i \in Live /\ rows'[i].seq = rows[i].seq
            /\ rows'[i].project = rows[i].project /\ rows'[i].thread = rows[i].thread
        BY <2>1, <3>1 DEF RowsDelta
      <4>2. InScope(i, s) /\ rows[i].seq > top
        BY <2>1, <4>1 DEF InScope, IsRaw
      <4>3. Times(s, i) <= crashes
        BY <1>6, <4>1, <4>2 DEF Settled
      <4> QED BY <1>1, <1>3, <4>3
    <3>2. CASE i \notin 1..born
      <4>1. Times(s, i) = 0
        BY <1>1, <3>2, NotYetDreamed
      <4> QED BY <4>1
    <3> QED BY <3>1, <3>2
  <2> QED BY <1>2, <2>1 DEF Settled
<1>7. AllSettled => AllSettled'
  <2>1. ASSUME AllSettled, NEW s \in Scopes PROVE Settled(s, mark[s])'
    <3>1. PICK top : top = mark[s]
      OBVIOUS
    <3>2. Settled(s, top)'
      BY <1>6, <2>1, <3>1 DEF AllSettled
    <3> QED BY <3>1, <3>2
  <2> QED BY <2>1 DEF AllSettled
<1> QED BY <1>2, <1>4, <1>5, <1>6, <1>7

\* What a run holds stays fresh under the steps of others.
LEMMA FreshStable ==
  ASSUME DInv, Books, RowsDelta, crashes' \in Nat, crashes' >= crashes,
         UNCHANGED <<mark, log>>,
         NEW s, NEW ev, NEW g, NEW top, Fresh(s, ev, g, top),
         NEW f, Unwarned(s, f)'
  PROVE  Fresh(s, ev, f, top)'
<1>1. /\ \A q, i : Times(q, i)' = Times(q, i)
      /\ \A q, i : Times(q, i) \in Nat
  BY OneStable, TimesType DEF DInv
<1>2. /\ born \in Nat /\ born' \in Nat /\ born' >= born /\ crashes \in Nat
      /\ ev \subseteq 1..born
  BY PeakType DEF DInv, RowsDelta, LedgerTypeOK, Fresh
<1>3. ev \subseteq 1..born' /\ mark'[s] < top
  BY <1>2 DEF Fresh
<1>4. \A i \in ev : Times(s, i)' <= crashes'
  <2>1. ASSUME NEW i \in ev PROVE Times(s, i) <= crashes'
    <3>1. Times(s, i) <= crashes
      BY DEF Fresh
    <3> QED BY <1>1, <1>2, <3>1
  <2> QED BY <1>1, <2>1
<1>5. ASSUME NEW i \in ev \cap Live' PROVE rows'[i].seq <= top
  <2>1. i \in Live /\ rows'[i].seq = rows[i].seq
    BY <1>2, <1>5 DEF RowsDelta
  <2> QED BY <2>1 DEF Fresh
<1> QED BY <1>3, <1>4, <1>5 DEF Fresh

\* A run that keeps what it has read stays fresh.
LEMMA RunFreshStable ==
  ASSUME DInv, Books, RowsDelta, crashes' \in Nat, crashes' >= crashes,
         UNCHANGED <<mark, log>>, NEW r \in Runs, RunFresh(r), Keeps(r),
         run'[r].phase # "none" => Unwarned(run[r].scope, run[r].fault)'
  PROVE  RunFresh(r)'
<1> SUFFICES ASSUME run'[r].phase # "none"
             PROVE  Fresh(run[r].scope, run[r].batch, run[r].fault, run[r].top)'
  BY DEF RunFresh
<1>1. PICK s, ev, f, g, top : /\ s = run[r].scope /\ ev = run[r].batch /\ top = run[r].top
                              /\ g = run[r].fault /\ f = run'[r].fault
  OBVIOUS
<1>2. run'[r].scope = s /\ run'[r].batch = ev /\ run'[r].top = top
  BY <1>1 DEF Keeps
<1>3. Fresh(s, ev, g, top)
  BY <1>1 DEF Keeps, RunFresh
<1>4. Unwarned(s, f)'
  BY <1>1, <1>2
<1>5. Fresh(s, ev, f, top)'
  BY <1>3, <1>4, FreshStable
<1> QED BY <1>1, <1>2, <1>5

\* Steps that record and mark nothing.
LEMMA RestStep ==
  ASSUME DInv, Books, AllSettled, RowsDelta, crashes' \in Nat, crashes' >= crashes,
         UNCHANGED <<mark, log>>, WarnedOnce', Rest(todo'), \A r \in Runs : RunFresh(r)'
  PROVE  Books' /\ Stage'
<1>1. LoggedBorn' /\ RedreamBound' /\ AllSettled'
  BY OneStable
<1>2. AtRest'
  BY <1>1 DEF AtRest
<1> QED BY <1>1, <1>2 DEF Books, Stage

\* The ledger's statements are none of the curator's.
LEMMA LedgerRests ==
  ASSUME NEW t \in Seq(LedgerStmt)
  PROVE  Rest(t)
<1> SUFFICES ASSUME t # <<>> PROVE Head(t) \in LedgerStmt
  BY ShapeTypes DEF Rest
<1> QED BY HeadTailProperties

\* The ledger's actions.
LEMMA OneLedger ==
  ASSUME OneInv, LedgerStep
  PROVE  Books' /\ Stage'
<1>1. DInv /\ Books /\ Stage /\ crashes \in Nat /\ RowsDelta /\ IInv' /\ crashes' = crashes
  BY LedgerMoves DEF OneInv, DInv, LedgerTypeOK
<1>2. UNCHANGED <<mark, log, warned, run>>
  BY DEF LedgerStep, dreamVars
<1>3. IInv
  <2>1. \/ todo = <<>> \/ ~up
        \/ todo # <<>> /\ Head(todo).do \in {"insert", "index", "link", "wipe"}
    <3>1. Record => todo = <<>>
      BY RecordStill DEF Idle
    <3>2. Statement => todo # <<>> /\ Head(todo).do \in {"insert", "index", "link", "wipe"}
      BY DEF Statement, Insert, IndexText, LinkNext, WipeIndex, Doing
    <3>3. Open => ~up
      BY DEF Open
    <3>4. ASSUME NEW p, ForgetUser(p) PROVE todo = <<>>
      BY <3>4 DEF ForgetUser, Idle
    <3> QED BY <3>1, <3>2, <3>3, <3>4 DEF LedgerStep
  <2> QED BY <1>1, <2>1, LedgerTodo
<1>4. Rest(todo) /\ Rest(todo')
  <2>1. todo \in Seq(LedgerStmt) /\ todo' \in Seq(LedgerStmt)
    BY <1>1, <1>3 DEF IInv, TypeOK
  <2> QED BY <2>1, LedgerRests
<1>5. AtRest
  BY <1>1, <1>4, StageAt
<1>6. ASSUME NEW r \in Runs PROVE RunFresh(r)'
  <2>1. RunFresh(r) /\ Keeps(r)
    BY <1>2, <1>5 DEF AtRest, Keeps
  <2>2. run'[r].phase # "none" => Unwarned(run[r].scope, run[r].fault)'
    BY <1>2, <2>1 DEF RunFresh, Fresh, Unwarned
  <2> QED BY <1>1, <1>2, <2>1, <2>2, RunFreshStable
<1>7. WarnedOnce'
  BY <1>1, <1>2 DEF Books, WarnedOnce
<1> QED BY <1>1, <1>2, <1>4, <1>5, <1>6, <1>7, RestStep DEF AtRest

\* A crash: what it undoes is made up for by one repetition more.
LEMMA OneCrash ==
  ASSUME OneInv, CrashAll
  PROVE  Books' /\ Stage'
<1>1. DInv /\ Books /\ LedgerTypeOK /\ crashes \in Nat /\ born \in Nat /\ Live \subseteq 1..born
  BY DEF OneInv, DInv, LedgerTypeOK
<1>2. /\ crashes' = crashes + 1 /\ todo' = <<>> /\ run' = [r \in Runs |-> NoRun]
      /\ UNCHANGED <<rows, born, mark, log, warned>>
  BY DEF CrashAll, Crash, history
<1>3. ASSUME NEW s \in Scopes, NEW i \in 1..born
      PROVE  Times(s, i)' <= crashes'
  <2>1. Times(s, i) <= 1 + crashes
    BY <1>1 DEF Books, RedreamBound, Times, BatchesWith
  <2>2. Times(s, i)' = Times(s, i)
    BY <1>2 DEF Times, BatchesWith
  <2>3. PICK c \in Nat : c = crashes
    BY <1>1
  <2>4. PICK t \in Nat : t = Times(s, i)
    BY <1>1, TimesType DEF DInv
  <2>5. t <= c + 1
    BY <2>1, <2>3, <2>4
  <2> QED BY <1>2, <2>2, <2>3, <2>4, <2>5
<1>4. RedreamBound'
  <2>1. ASSUME NEW s \in Scopes, NEW i \in 1..born
        PROVE  Times(s, i)' <= 1 + crashes'
    <3>1. PICK c \in Nat : c = crashes
      BY <1>1
    <3>2. PICK t \in Nat : t = Times(s, i)'
      <4>1. Times(s, i)' = Times(s, i)
        BY <1>2 DEF Times, BatchesWith
      <4> QED BY <1>1, <4>1, TimesType DEF DInv
    <3>3. t <= c + 1
      BY <1>2, <1>3, <3>1, <3>2
    <3>4. t <= 1 + (c + 1)
      BY <3>3
    <3> QED BY <1>2, <3>1, <3>2, <3>4
  <2> QED BY <1>2, <2>1 DEF RedreamBound, Times, BatchesWith
<1>5. AllSettled'
  BY <1>1, <1>2, <1>3 DEF AllSettled, Settled, Live
<1>6. AtRest'
  BY <1>2, <1>5 DEF AtRest, Rest, RunFresh, NoRun
<1> QED BY <1>1, <1>2, <1>4, <1>6 DEF Books, LoggedBorn, WarnedOnce, Stage

\* The one run starts with events that were settled.
LEMMA OneStarts ==
  ASSUME OneRun, OneInv, NEW r \in Runs, NEW s \in Asked, NEW n \in Limits, StartRun(r, s, n)
  PROVE  Books' /\ Stage'
<1>1. /\ DInv /\ Books /\ Stage /\ LedgerTypeOK /\ crashes \in Nat
      /\ Live \subseteq 1..born /\ run \in [Runs -> RunState] /\ mark \in [Scopes -> Nat]
  BY DEF OneInv, DInv, LedgerTypeOK
<1>2. /\ UNCHANGED <<rows, fts, up, born, crashes, orphaned, history>>
      /\ UNCHANGED <<mark, log, warned>> /\ todo = <<>> /\ todo' = <<>>
  BY DEF StartRun, ledgerVars, Idle
<1>3. RowsDelta
  BY <1>1, <1>2, DreamFrame
<1>4. AtRest
  BY <1>1, <1>2, StageAt DEF Rest
<1>5. s \in Scopes
  BY AskedAssumption DEF Scopes
<1>6. PICK batch : batch = FirstBySeq(Undreamed(s), n)
  OBVIOUS
<1>7. PICK top : top = Max({rows[i].seq : i \in batch})
  OBVIOUS
<1>8. /\ batch \subseteq Undreamed(s) /\ mark[s] < top
      /\ \A i \in batch : rows[i].seq <= top
  <2>1. Undreamed(s) # {}
    BY DEF StartRun
  <2> QED BY <1>1, <1>5, <1>6, <1>7, <2>1, BatchCovers
<1>9. Fresh(s, batch, "none", top)
  <2>1. batch \subseteq 1..born
    BY <1>1, <1>8 DEF Undreamed
  <2>2. ASSUME NEW i \in batch PROVE Times(s, i) <= crashes
    <3>1. i \in Live /\ InScope(i, s) /\ rows[i].seq > mark[s]
      BY <1>8 DEF Undreamed
    <3> QED BY <1>4, <1>5, <3>1 DEF AtRest, AllSettled, Settled
  <2> QED BY <1>8, <2>1, <2>2 DEF Fresh, Unwarned
<1>10. Fresh(s, batch, "none", top)'
  <2>1. Unwarned(s, "none")'
    BY DEF Unwarned
  <2> QED BY <1>1, <1>2, <1>3, <1>9, <2>1, FreshStable
<1>11. PICK phase \in {"asking", "answered"} :
         run' = [run EXCEPT ![r] = [phase |-> phase, scope |-> s, batch |-> batch,
                                    top |-> top, fault |-> "none"]]
  BY <1>6, <1>7 DEF StartRun
<1>12. ASSUME NEW q \in Runs PROVE RunFresh(q)'
  <2>1. q = r
    BY DEF OneRun
  <2>2. /\ run'[q].scope = s /\ run'[q].batch = batch /\ run'[q].top = top
        /\ run'[q].fault = "none"
    BY <1>1, <1>11, <2>1
  <2> QED BY <1>10, <2>2 DEF RunFresh
<1>13. WarnedOnce' /\ Rest(todo')
  BY <1>1, <1>2 DEF Books, WarnedOnce, Rest
<1> QED BY <1>1, <1>2, <1>3, <1>4, <1>12, <1>13, RestStep DEF AtRest

\* The answer of the model; a fault is kept only if nothing was warned of it.
LEMMA OneAnswers ==
  ASSUME OneRun, OneInv, NEW r \in Runs, Answer(r)
  PROVE  Books' /\ Stage'
<1>1. /\ DInv /\ Books /\ Stage /\ LedgerTypeOK /\ crashes \in Nat
      /\ run \in [Runs -> RunState] /\ warned \in [Scopes -> [Fault -> Nat]]
  BY DEF OneInv, DInv, LedgerTypeOK
<1>2. ASSUME NEW f \in Faults, run[r].phase = "asking", Answered(r, f),
             UNCHANGED <<rows, fts, up, born, crashes, orphaned, history>>,
             UNCHANGED <<mark, log, warned>>, todo = <<>>, Rest(todo'),
             Unwarned(run[r].scope, f)
      PROVE  Books' /\ Stage'
  <2>1. AtRest
    BY <1>1, <1>2, StageAt DEF Rest
  <2>2. RowsDelta /\ \A q \in Runs : Keeps(q)
    BY <1>1, <1>2, DreamFrame, AnswerFaultCase
  <2>3. run'[r].fault = f /\ run'[r].phase # "none"
    BY <1>1, <1>2 DEF Answered, RunState
  <2>4. ASSUME NEW q \in Runs PROVE RunFresh(q)'
    <3>1. q = r
      BY DEF OneRun
    <3>2. RunFresh(q)
      BY <2>1 DEF AtRest
    <3>3. Unwarned(run[q].scope, run[q].fault)'
      BY <1>2, <2>2, <2>3, <3>1 DEF Unwarned, Keeps
    <3> QED BY <1>1, <1>2, <2>2, <3>2, <3>3, RunFreshStable
  <2>5. WarnedOnce'
    BY <1>1, <1>2 DEF Books, WarnedOnce
  <2> QED BY <1>1, <1>2, <2>1, <2>2, <2>4, <2>5, RestStep DEF AtRest
<1>3. CASE AnswerRuleOnly(r)
  <2>1. Unwarned(run[r].scope, "none") /\ "none" \in Faults
    BY DEF Unwarned, Faults
  <2> QED BY <1>2, <1>3, <2>1 DEF AnswerRuleOnly, Idle, ledgerVars, Rest
<1>4. ASSUME NEW g \in Fault, AnswerFault(r, g)
      PROVE  Books' /\ Stage'
  <2>1. PICK s \in Scopes : s = run[r].scope
    BY <1>1 DEF RunState
  <2>2. s \in Listed(s)
    BY DEF Listed
  <2>3. PICK f \in Faults : Answered(r, f) /\ f = IF \E q \in Listed(s) : warned[q][g] > 0 THEN "none" ELSE g
    BY <1>4, <2>1 DEF AnswerFault, Faults
  <2>4. Unwarned(s, f)
    <3> SUFFICES ASSUME f # "none" PROVE warned[s][f] = 0
      BY DEF Unwarned
    <3>1. f = g /\ ~(warned[s][g] > 0)
      BY <2>2, <2>3
    <3>2. warned[s][g] \in Nat
      BY <1>1
    <3> QED BY <3>1, <3>2
  <2> QED BY <1>2, <1>4, <2>1, <2>3, <2>4 DEF AnswerFault, Idle, ledgerVars, Rest
<1>5. CASE AnswerValid(r)
  <2>1. /\ run[r].phase = "asking" /\ Answered(r, "none")
        /\ todo = <<>> /\ todo' = <<SupRec(run[r].scope)>>
        /\ UNCHANGED <<rows, fts, up, born, crashes, orphaned, history>>
        /\ UNCHANGED <<mark, log, warned>>
    BY <1>5 DEF AnswerValid, Submit, SupRec, Idle
  <2>2. Rest(todo')
    <3> DEFINE d == SupRec(run[r].scope)
    <3>1. d.do = "supersede" /\ todo' = <<d>>
      BY <2>1 DEF SupRec
    <3> HIDE DEF d
    <3> QED BY <3>1 DEF Rest
  <2>3. Unwarned(run[r].scope, "none") /\ "none" \in Faults
    BY DEF Unwarned, Faults
  <2> QED BY <1>2, <2>1, <2>2, <2>3
<1> QED BY <1>3, <1>4, <1>5 DEF Answer

\* Handing over the commits: what the run held is now about to be recorded.
LEMMA OneFinishes ==
  ASSUME OneRun, OneInv, NEW r \in Runs, FinishRun(r)
  PROVE  Books' /\ Stage'
<1>1. /\ DInv /\ Books /\ Stage /\ LedgerTypeOK /\ crashes \in Nat /\ run \in [Runs -> RunState]
  BY DEF OneInv, DInv, LedgerTypeOK
<1>2. PICK s \in Scopes, ev \in SUBSET Nat, f \in Faults, top \in Nat :
        s = run[r].scope /\ ev = run[r].batch /\ f = run[r].fault /\ top = run[r].top
  BY <1>1 DEF RunState, Faults
<1>3. /\ run[r].phase = "answered" /\ todo = <<>>
      /\ todo' = <<RunRec(s, ev), CandRec(s, f), MarkRec(s, top)>>
      /\ UNCHANGED <<rows, fts, up, born, crashes, orphaned, history>>
      /\ UNCHANGED <<mark, log, warned>>
      /\ run' = [run EXCEPT ![r] = NoRun]
  BY <1>2 DEF FinishRun, Finish, RunStmts, Submit, Idle, RunRec, CandRec, MarkRec
<1>4. AtRest
  BY <1>1, <1>3, StageAt DEF Rest
<1>5. RowsDelta
  BY <1>1, <1>3, DreamFrame
<1>6. Fresh(s, ev, f, top)
  BY <1>2, <1>3, <1>4 DEF AtRest, RunFresh
<1>7. Fresh(s, ev, f, top)'
  <2>1. Unwarned(s, f)'
    BY <1>3, <1>6 DEF Fresh, Unwarned
  <2> QED BY <1>1, <1>3, <1>5, <1>6, <2>1, FreshStable
<1>8. NoneRunning'
  BY <1>1, <1>3 DEF OneRun, NoneRunning, NoRun
<1>9. AllSettled' /\ LoggedBorn' /\ RedreamBound'
  BY <1>1, <1>3, <1>4, <1>5, OneStable DEF AtRest
<1>10. ToRecord(s, ev, f, top)'
  BY <1>3, <1>7, <1>8, <1>9 DEF ToRecord
<1> QED BY <1>1, <1>3, <1>9, <1>10 DEF Stage, Books, WarnedOnce

\* Superseding a warning only takes it away.
LEMMA OneSupersedes ==
  ASSUME OneInv, Supersede
  PROVE  Books' /\ Stage'
<1>1. /\ DInv /\ Books /\ Stage /\ LedgerTypeOK /\ crashes \in Nat
      /\ warned \in [Scopes -> [Fault -> Nat]]
  BY DEF OneInv, DInv, LedgerTypeOK
<1>2. PICK s \in Scopes : todo = <<SupRec(s)>> /\ Tail(todo) = <<>>
  BY <1>1, DreamShape DEF Supersede, Doing, AtSupersede
<1>3. Rest(todo) /\ Rest(<<>>) /\ Head(todo).scope = s
  <2> DEFINE d == SupRec(s)
  <2>1. d.do = "supersede" /\ d.scope = s /\ todo = <<d>>
    BY <1>2 DEF SupRec
  <2> HIDE DEF d
  <2> QED BY <2>1 DEF Rest
<1>4. /\ UNCHANGED <<mark, log, run, rows, fts, up, born, crashes, orphaned, history>>
      /\ Rest(todo')
  BY <1>2, <1>3 DEF Supersede, NextStmt, ledgerVars
<1>5. \A q \in Scopes, g \in Fault : warned'[q][g] \in {warned[q][g], warned[q][g] - 1} /\ warned'[q][g] \in Nat
  <2>1. CASE warned' = warned
    BY <1>1, <2>1
  <2>2. ASSUME NEW w \in ActiveWarnings(s), warned' = [warned EXCEPT ![w[1]][w[2]] = @ - 1]
        PROVE  \A q \in Scopes, g \in Fault :
                 warned'[q][g] \in {warned[q][g], warned[q][g] - 1} /\ warned'[q][g] \in Nat
    <3>1. PICK q \in Scopes, g \in Fault : q = w[1] /\ g = w[2] /\ warned[q][g] > 0
      BY DEF ActiveWarnings, Listed
    <3>2. warned' = [warned EXCEPT ![q][g] = @ - 1]
      BY <2>2, <3>1
    <3>3. warned[q][g] - 1 \in Nat
      BY <1>1, <3>1
    <3> QED BY <1>1, <3>2, <3>3
  <2> QED BY <1>3, <2>1, <2>2 DEF Supersede
<1>6. AtRest /\ RowsDelta
  BY <1>1, <1>3, <1>4, StageAt, DreamFrame
<1>7. WarnedOnce'
  <2>1. ASSUME NEW q \in Scopes, NEW g \in Fault PROVE warned'[q][g] <= 1
    <3>1. PICK a \in Nat : a = warned[q][g]
      BY <1>1
    <3>2. a <= 1
      BY <1>1, <3>1 DEF Books, WarnedOnce
    <3> QED BY <1>5, <3>1, <3>2
  <2> QED BY <2>1 DEF WarnedOnce
<1>8. ASSUME NEW r \in Runs PROVE RunFresh(r)'
  <2>1. RunFresh(r) /\ Keeps(r) /\ run[r] \in RunState
    BY <1>1, <1>4, <1>6 DEF AtRest, Keeps, DInv
  <2>2. ASSUME run'[r].phase # "none" PROVE Unwarned(run[r].scope, run[r].fault)'
    <3>1. PICK q \in Scopes, g \in Faults : q = run[r].scope /\ g = run[r].fault
      BY <2>1 DEF RunState, Faults
    <3>2. Unwarned(q, g)
      BY <1>4, <2>1, <2>2, <3>1 DEF RunFresh, Fresh
    <3>3. g # "none" => warned'[q][g] = 0
      BY <1>1, <1>5, <3>2 DEF Unwarned, Faults
    <3> QED BY <1>4, <3>1, <3>3 DEF Unwarned
  <2> QED BY <1>1, <1>4, <1>6, <2>1, <2>2, RunFreshStable
<1> QED BY <1>1, <1>4, <1>6, <1>7, <1>8, RestStep DEF AtRest

\* Recording a batch counts once more each of its events.
LEMMA TimesAppend ==
  ASSUME log \in Seq(Recorded), NEW e \in Recorded, log' = Append(log, e), NEW q, NEW i
  PROVE  /\ e.scope = q /\ i \in e.events => Times(q, i)' = Times(q, i) + 1
         /\ ~(e.scope = q /\ i \in e.events) => Times(q, i)' = Times(q, i)
<1> DEFINE n == Len(log)
           B == BatchesWith(q, i)
<1>1. /\ n \in Nat /\ DOMAIN log = 1..n /\ Len(log') = n + 1 /\ DOMAIN log' = 1..(n + 1)
      /\ log'[n + 1] = e /\ \A k \in 1..n : log'[k] = log[k]
  BY AppendProperties, LenProperties
<1>2. IsFiniteSet(B) /\ B \subseteq 1..n /\ n + 1 \notin B
  <2>1. IsFiniteSet(B)
    BY TimesType
  <2>2. B \subseteq 1..n
    BY <1>1 DEF BatchesWith
  <2> HIDE DEF B
  <2> QED BY <1>1, <2>1, <2>2
<1>3. ASSUME e.scope = q, i \in e.events
      PROVE  BatchesWith(q, i)' = B \cup {n + 1}
  BY <1>1, <1>3 DEF BatchesWith
<1>4. ASSUME ~(e.scope = q /\ i \in e.events)
      PROVE  BatchesWith(q, i)' = B
  BY <1>1, <1>4 DEF BatchesWith
<1> HIDE DEF B, n
<1>5. Cardinality(B \cup {n + 1}) = Cardinality(B) + 1
  BY <1>2, FS_AddElement
<1>6. Cardinality(B) = Times(q, i)
  BY DEF B, Times
<1> QED BY <1>3, <1>4, <1>5, <1>6 DEF Times

\* insertRun: the events of the batch are counted, none of them lies beyond it.
LEMMA OneInserts ==
  ASSUME OneInv, InsertRun
  PROVE  Books' /\ Stage'
<1>1. /\ DInv /\ Books /\ Stage /\ LedgerTypeOK /\ crashes \in Nat /\ log \in Seq(Recorded)
      /\ mark \in [Scopes -> Nat] /\ \A i \in Live : rows[i].seq \in Nat
  BY PeakType DEF OneInv, DInv, LedgerTypeOK
<1>2. PICK s \in Scopes, ev \in SUBSET Nat, f \in Faults, top \in Nat : ToRecord(s, ev, f, top)
  BY <1>1, StageAt DEF InsertRun, Doing
<1> DEFINE e == [by |-> "run", scope |-> s, events |-> ev, done |-> FALSE]
<1>3. /\ UNCHANGED <<rows, fts, up, born, crashes, orphaned, history, mark, warned, run>>
      /\ todo' = <<CandRec(s, f), MarkRec(s, top)>>
      /\ log' = Append(log, e)
  <2> DEFINE a == RunRec(s, ev)
             b == CandRec(s, f)
             c == MarkRec(s, top)
  <2>1. todo = <<a, b, c>> /\ a.scope = s /\ a.events = ev
    BY <1>2 DEF ToRecord, RunRec
  <2>2. Head(todo) = a /\ Tail(todo) = <<b, c>>
    <3> HIDE DEF a, b, c
    <3> QED BY <2>1
  <2> QED BY <2>1, <2>2 DEF InsertRun, NextStmt
<1>4. e \in Recorded /\ e.scope = s /\ e.events = ev
  BY DEF Recorded
<1> HIDE DEF e
<1>5. /\ NoneRunning /\ AllSettled /\ Fresh(s, ev, f, top)
      /\ mark[s] < top /\ ev \subseteq 1..born /\ Unwarned(s, f)
  BY <1>2 DEF ToRecord, Fresh
<1>6. \A q, i : /\ q = s /\ i \in ev => Times(q, i)' = Times(q, i) + 1
                /\ ~(q = s /\ i \in ev) => Times(q, i)' = Times(q, i)
  BY <1>1, <1>3, <1>4, TimesAppend
<1>7. /\ Len(log') \in DOMAIN log' /\ log'[Len(log')] = e
      /\ DOMAIN log' = DOMAIN log \cup {Len(log')} /\ \A k \in DOMAIN log : log'[k] = log[k]
  <2>1. /\ Len(log) \in Nat /\ DOMAIN log = 1..Len(log) /\ Len(log') = Len(log) + 1
        /\ DOMAIN log' = 1..(Len(log) + 1)
        /\ log'[Len(log) + 1] = e /\ \A k \in 1..Len(log) : log'[k] = log[k]
    BY <1>1, <1>3, <1>4, AppendProperties, LenProperties
  <2> QED BY <2>1
<1>8. LoggedBorn'
  BY <1>1, <1>3, <1>4, <1>5, <1>7 DEF Books, LoggedBorn
<1>9. RedreamBound'
  <2>1. ASSUME NEW q \in Scopes, NEW i \in 1..born
        PROVE  Times(q, i)' <= 1 + crashes
    <3>1. CASE q = s /\ i \in ev
      <4>1. Times(q, i) <= crashes /\ Times(q, i)' = Times(q, i) + 1
        BY <1>5, <1>6, <3>1 DEF Fresh
      <4>2. Times(q, i) \in Nat
        BY <1>1, TimesType
      <4> QED BY <1>1, <4>1, <4>2
    <3>2. CASE ~(q = s /\ i \in ev)
      <4>1. Times(q, i) <= 1 + crashes
        BY <1>1 DEF Books, RedreamBound, Times, BatchesWith
      <4> QED BY <1>6, <3>2, <4>1
    <3> QED BY <3>1, <3>2
  <2> QED BY <1>3, <2>1 DEF RedreamBound, Times, BatchesWith
<1>10. Settled(s, top)'
  <2>1. ASSUME NEW i \in Live, InScope(i, s), rows[i].seq > top
        PROVE  Times(s, i)' <= crashes
    <3>1. i \notin ev
      <4> SUFFICES ASSUME i \in ev PROVE FALSE
        OBVIOUS
      <4>1. rows[i].seq <= top /\ rows[i].seq \in Nat
        BY <1>1, <1>5, <2>1 DEF Fresh
      <4> QED BY <2>1, <4>1
    <3>2. rows[i].seq > mark[s]
      BY <1>1, <1>5, <2>1
    <3>3. Times(s, i) <= crashes
      BY <1>5, <2>1, <3>2 DEF AllSettled, Settled
    <3> QED BY <1>6, <3>1, <3>3
  <2> QED BY <1>3, <2>1 DEF Settled, Live, InScope, IsRaw
<1>11. ASSUME NEW q \in Scopes \ {s} PROVE Settled(q, mark[q])'
  <2>1. \A i \in Live : InScope(i, q) /\ rows[i].seq > mark[q] => Times(q, i) <= crashes
    BY <1>5 DEF AllSettled, Settled
  <2> QED BY <1>3, <1>6, <2>1 DEF Settled, Live, InScope, IsRaw
<1>12. ToPropose(s, f, top)'
  <2>1. NoneRunning' /\ Unwarned(s, f)' /\ mark'[s] < top
    BY <1>3, <1>5 DEF NoneRunning, Unwarned
  <2>2. \A i \in log'[Len(log')].events \cap Live' : rows'[i].seq <= top
    BY <1>3, <1>4, <1>5, <1>7 DEF Fresh, Live
  <2>3. SettledUpTo(s, top)'
    BY <1>10, <1>11, <2>1 DEF SettledUpTo
  <2> QED BY <1>3, <2>1, <2>2, <2>3 DEF ToPropose
<1> QED BY <1>1, <1>3, <1>8, <1>9, <1>12 DEF Stage, Books, WarnedOnce

\* Committing the candidates of the last batch.
LEMMA LogDone ==
  ASSUME log \in Seq(Recorded), log # <<>>, log' = [log EXCEPT ![Len(log)].done = TRUE]
  PROVE  /\ DOMAIN log' = DOMAIN log /\ Len(log') = Len(log) /\ Len(log) \in DOMAIN log
         /\ \A k \in DOMAIN log : log'[k].scope = log[k].scope /\ log'[k].events = log[k].events
         /\ log'[Len(log)].done /\ \A k \in DOMAIN log : k # Len(log) => log'[k] = log[k]
<1>1. PICK n \in Nat : n = Len(log) /\ n \in 1..n /\ DOMAIN log = 1..n
  <2>1. Len(log) \in Nat \ {0} /\ DOMAIN log = 1..Len(log)
    BY EmptySeq, LenProperties
  <2> QED BY <2>1
<1>2. log[n] \in Recorded
  BY <1>1, ElementOfSeq
<1> DEFINE x == [log[n] EXCEPT !.done = TRUE]
<1>3. x \in Recorded /\ x.done /\ x.scope = log[n].scope /\ x.events = log[n].events
  BY <1>2 DEF Recorded
<1>4. log' = [log EXCEPT ![n] = x]
  BY <1>1
<1> HIDE DEF x
<1>5. DOMAIN log' = 1..n /\ \A k \in 1..n : log'[k] = IF k = n THEN x ELSE log[k]
  BY <1>1, <1>4
<1>6. Len(log') = n
  BY <1>1, <1>3, <1>4, ExceptSeq
<1> QED BY <1>1, <1>3, <1>5, <1>6

\* insertCandidates: the batch and its events are as they were.
LEMMA OneProposes ==
  ASSUME OneInv, InsertCandidates
  PROVE  Books' /\ Stage'
<1>1. /\ DInv /\ Books /\ Stage /\ LedgerTypeOK /\ crashes \in Nat /\ log \in Seq(Recorded)
      /\ warned \in [Scopes -> [Fault -> Nat]]
  BY DEF OneInv, DInv, LedgerTypeOK
<1>2. PICK s \in Scopes, f \in Faults, top \in Nat : ToPropose(s, f, top)
  BY <1>1, StageAt DEF InsertCandidates, Doing
<1>3. /\ UNCHANGED <<rows, fts, up, born, crashes, orphaned, history, mark, run>>
      /\ todo' = <<MarkRec(s, top)>>
      /\ log' = [log EXCEPT ![Len(log)].done = TRUE]
      /\ warned' = IF f = "none" THEN warned ELSE [warned EXCEPT ![s][f] = @ + 1]
  <2> DEFINE b == CandRec(s, f)
             c == MarkRec(s, top)
  <2>1. todo = <<b, c>> /\ b.scope = s /\ b.fault = f
    BY <1>2 DEF ToPropose, CandRec
  <2>2. Head(todo) = b /\ Tail(todo) = <<c>>
    <3> HIDE DEF b, c
    <3> QED BY <2>1
  <2> QED BY <2>1, <2>2 DEF InsertCandidates, NextStmt
<1>4. log # <<>>
  BY <1>1, DreamShape DEF InsertCandidates, Doing, AtCandidates, PairTodo
<1>5. /\ DOMAIN log' = DOMAIN log
      /\ \A k \in DOMAIN log : log'[k].scope = log[k].scope /\ log'[k].events = log[k].events
  BY <1>1, <1>3, <1>4, LogDone
<1>6. \A q, i : BatchesWith(q, i)' = BatchesWith(q, i)
  BY <1>5 DEF BatchesWith
<1>7. \A q, i : Times(q, i)' = Times(q, i)
  BY <1>6 DEF Times
<1>8. LoggedBorn' /\ RedreamBound'
  <2>1. LoggedBorn'
    BY <1>1, <1>3, <1>5 DEF Books, LoggedBorn
  <2>2. ASSUME NEW q \in Scopes, NEW i \in 1..born PROVE Times(q, i)' <= 1 + crashes
    <3>1. Times(q, i) <= 1 + crashes
      BY <1>1 DEF Books, RedreamBound, Times, BatchesWith
    <3> QED BY <1>7, <3>1
  <2> QED BY <1>3, <2>1, <2>2 DEF RedreamBound, Times, BatchesWith
<1>9. WarnedOnce'
  <2>1. ASSUME NEW q \in Scopes, NEW g \in Fault PROVE warned'[q][g] <= 1
    <3>1. warned[q][g] <= 1
      BY <1>1 DEF Books, WarnedOnce
    <3>2. CASE q = s /\ g = f /\ f # "none"
      <4>1. warned[s][f] = 0
        BY <1>2, <3>2 DEF ToPropose, Unwarned
      <4>2. warned'[q][g] = warned[s][f] + 1
        BY <1>1, <1>3, <3>2
      <4> QED BY <4>1, <4>2
    <3>3. CASE ~(q = s /\ g = f /\ f # "none")
      BY <1>1, <1>3, <3>1, <3>3 DEF Faults
    <3> QED BY <3>2, <3>3
  <2> QED BY <2>1 DEF WarnedOnce
<1>10. ToMark(s, top)'
  <2>1. NoneRunning' /\ mark'[s] < top
    BY <1>2, <1>3 DEF ToPropose, NoneRunning, SettledUpTo
  <2>2. ASSUME NEW q, NEW n, Settled(q, n) PROVE Settled(q, n)'
    BY <1>3, <1>7, <2>2 DEF Settled, Live, InScope, IsRaw
  <2>3. Settled(s, top)' /\ \A q \in Scopes \ {s} : Settled(q, mark[q])'
    <3>1. ASSUME NEW q \in Scopes \ {s} PROVE Settled(q, mark[q])'
      <4>1. PICK n : n = mark[q]
        OBVIOUS
      <4>2. Settled(q, n)'
        BY <1>2, <2>2, <4>1 DEF ToPropose, SettledUpTo
      <4> QED BY <1>3, <4>1, <4>2
    <3> QED BY <1>2, <2>2, <3>1 DEF ToPropose, SettledUpTo
  <2> QED BY <1>3, <2>1, <2>3 DEF ToMark, SettledUpTo
<1> QED BY <1>8, <1>9, <1>10 DEF Stage, Books

\* markDreamed: the watermark moves up to where everything is settled.
LEMMA OneMarks ==
  ASSUME OneInv, MarkDreamed
  PROVE  /\ Books' /\ Stage'
         /\ \A s \in Scopes : mark'[s] >= mark[s]
<1>1. /\ DInv /\ Books /\ Stage /\ mark \in [Scopes -> Nat]
  BY DEF OneInv, DInv
<1>2. PICK s \in Scopes, top \in Nat : ToMark(s, top)
  BY <1>1, StageAt DEF MarkDreamed, Doing
<1>3. /\ UNCHANGED <<rows, fts, up, born, crashes, orphaned, history, log, warned, run>>
      /\ todo' = <<>> /\ mark' = [mark EXCEPT ![s] = top]
  <2> DEFINE c == MarkRec(s, top)
  <2>1. todo = <<c>> /\ c.scope = s /\ c.top = top
    BY <1>2 DEF ToMark, MarkRec
  <2>2. Head(todo) = c /\ Tail(todo) = <<>>
    <3> HIDE DEF c
    <3> QED BY <2>1
  <2> QED BY <2>1, <2>2 DEF MarkDreamed, NextStmt
<1>4. Books'
  BY <1>1, <1>3 DEF Books, LoggedBorn, RedreamBound, WarnedOnce
<1>5. ASSUME NEW q, NEW n, Settled(q, n) PROVE Settled(q, n)'
  BY <1>3, <1>5 DEF Settled, Live, InScope, IsRaw, Times, BatchesWith
<1>6. AllSettled'
  <2>1. ASSUME NEW q \in Scopes PROVE Settled(q, mark[q])'
    <3>1. PICK n : n = mark'[q]
      OBVIOUS
    <3>2. Settled(q, n)
      BY <1>1, <1>2, <1>3, <3>1 DEF ToMark, SettledUpTo
    <3> QED BY <1>5, <3>1, <3>2
  <2> QED BY <2>1 DEF AllSettled
<1>7. AtRest'
  BY <1>2, <1>3, <1>6 DEF AtRest, Rest, RunFresh, ToMark, NoneRunning
<1>8. \A q \in Scopes : mark'[q] >= mark[q]
  BY <1>1, <1>2, <1>3 DEF ToMark, SettledUpTo
<1> QED BY <1>4, <1>7, <1>8 DEF Stage

\* Every step keeps the invariant of one run at a time.
LEMMA OnePreserves ==
  ASSUME OneRun, OneInv, [CuratorNext]_vars
  PROVE  OneInv'
<1>1. DInv'
  BY DreamPreserves DEF OneInv, Next
<1>2. Books' /\ Stage'
  <2>1. CASE UNCHANGED vars
    <3>1. UNCHANGED <<rows, todo, born, crashes, mark, log, warned, run>>
      BY <2>1 DEF vars, ledgerVars, dreamVars
    <3>2. Books'
      BY <3>1 DEF OneInv, Books, LoggedBorn, RedreamBound, WarnedOnce
    <3>3. ASSUME NEW q, NEW n, Settled(q, n) PROVE Settled(q, n)'
      BY <3>1, <3>3 DEF Settled, Live, InScope, IsRaw, Times, BatchesWith
    <3>4. ASSUME NEW q, NEW ev, NEW f, NEW n, Fresh(q, ev, f, n) PROVE Fresh(q, ev, f, n)'
      BY <3>1, <3>4 DEF Fresh, Unwarned, Live, Times, BatchesWith
    <3>5. (AllSettled => AllSettled') /\ (NoneRunning => NoneRunning')
      <4>1. ASSUME AllSettled, NEW q \in Scopes PROVE Settled(q, mark[q])'
        <5>1. PICK n : n = mark[q]
          OBVIOUS
        <5> QED BY <3>1, <3>3, <4>1, <5>1 DEF AllSettled
      <4> QED BY <3>1, <4>1 DEF AllSettled, NoneRunning
    <3>6. ASSUME NEW q, NEW n, SettledUpTo(q, n) PROVE SettledUpTo(q, n)'
      <4>1. ASSUME NEW p \in Scopes \ {q} PROVE Settled(p, mark[p])'
        <5>1. PICK m : m = mark[p]
          OBVIOUS
        <5> QED BY <3>1, <3>3, <3>6, <4>1, <5>1 DEF SettledUpTo
      <4> QED BY <3>1, <3>3, <3>6, <4>1 DEF SettledUpTo
    <3>7. CASE AtRest
      <4>1. ASSUME NEW r \in Runs PROVE RunFresh(r)'
        <5>1. PICK q, ev, f, n : q = run[r].scope /\ ev = run[r].batch /\ f = run[r].fault /\ n = run[r].top
          OBVIOUS
        <5>2. run[r].phase # "none" => Fresh(q, ev, f, n)'
          BY <3>4, <3>7, <5>1 DEF AtRest, RunFresh
        <5> QED BY <3>1, <5>1, <5>2 DEF RunFresh
      <4> QED BY <3>1, <3>2, <3>5, <3>7, <4>1 DEF AtRest, Rest, Stage
    <3>8. ASSUME NEW s \in Scopes, NEW ev \in SUBSET Nat, NEW f \in Faults, NEW top \in Nat,
                 ToRecord(s, ev, f, top)
          PROVE  ToRecord(s, ev, f, top)'
      BY <3>1, <3>4, <3>5, <3>8 DEF ToRecord
    <3>9. ASSUME NEW s \in Scopes, NEW f \in Faults, NEW top \in Nat, ToPropose(s, f, top)
          PROVE  ToPropose(s, f, top)'
      BY <3>1, <3>5, <3>6, <3>9 DEF ToPropose, Unwarned, Live
    <3>10. ASSUME NEW s \in Scopes, NEW top \in Nat, ToMark(s, top)
           PROVE  ToMark(s, top)'
      BY <3>1, <3>5, <3>6, <3>10 DEF ToMark
    <3> QED BY <3>2, <3>7, <3>8, <3>9, <3>10 DEF OneInv, Stage
  <2>2. CASE DreamStatement
    BY <2>2, OneInserts, OneProposes, OneMarks, OneSupersedes DEF DreamStatement
  <2> QED BY <2>1, <2>2, OneLedger, OneStarts, OneAnswers, OneFinishes, OneCrash DEF CuratorNext
<1> QED BY <1>1, <1>2 DEF OneInv

\* The initial state satisfies it.
LEMMA OneBegins == Init => OneInv
<1> SUFFICES ASSUME Init PROVE OneInv
  OBVIOUS
<1>1. DInv
  BY DreamStart
<1>2. /\ Live = {} /\ born = 0 /\ todo = <<>> /\ log = <<>>
      /\ warned = [s \in Scopes |-> [f \in Fault |-> 0]] /\ run = [r \in Runs |-> NoRun]
  BY DEF Init, LedgerInit, Live
<1>3. Books
  BY <1>2 DEF Books, LoggedBorn, RedreamBound, WarnedOnce
<1>4. AtRest
  BY <1>2 DEF AtRest, Rest, AllSettled, Settled, RunFresh, NoRun
<1> QED BY <1>1, <1>3, <1>4 DEF OneInv, Stage

\* The invariant of one run at a time, without a host that marks.
THEOREM OneRunInvariant ==
  ASSUME OneRun
  PROVE  CuratorSpec => []OneInv
BY OneBegins, OnePreserves, PTL DEF CuratorSpec

\* Only a crash makes the curator dream an event again: with one run at a time
\* it is in at most one recorded batch of a scope more than there were crashes.
THEOREM RedreamsBounded ==
  ASSUME OneRun
  PROVE  CuratorSpec => []RedreamBound
<1>1. OneInv => RedreamBound
  BY DEF OneInv, Books
<1> QED BY <1>1, OneRunInvariant, PTL

\* A failing provider leaves at most one active warning of a scope and fault,
\* whatever runs it fails, with one run at a time (providerDiagnosticCandidate).
THEOREM WarningsBounded ==
  ASSUME OneRun
  PROVE  CuratorSpec => []WarnedOnce
<1>1. OneInv => WarnedOnce
  BY DEF OneInv, Books
<1> QED BY <1>1, OneRunInvariant, PTL

\* The watermark of a scope never moves back with one run at a time, although
\* markDreamed overwrites it without looking.
THEOREM MarksGrow ==
  ASSUME OneRun
  PROVE  CuratorSpec => MarkMonotone
<1> DEFINE Grows == \A s \in Scopes : mark'[s] >= mark[s]
<1>1. OneInv /\ [CuratorNext]_vars => [Grows]_vars
  <2> SUFFICES ASSUME OneInv, CuratorNext PROVE Grows
    OBVIOUS
  <2>1. mark \in [Scopes -> Nat]
    BY DEF OneInv, DInv
  <2>2. CASE mark' = mark
    BY <2>1, <2>2
  <2>3. CASE MarkDreamed
    BY <2>3, OneMarks
  <2>4. mark' = mark \/ MarkDreamed
    BY DEF CuratorNext, LedgerStep, dreamVars, StartRun, Answer, AnswerRuleOnly, AnswerFault, AnswerValid,
           FinishRun, Finish, DreamStatement, InsertRun, InsertCandidates, Supersede, CrashAll
  <2> QED BY <2>2, <2>3, <2>4
<1> QED BY <1>1, OneRunInvariant, PTL DEF CuratorSpec, MarkMonotone

-----------------------------------------------------------------------------
(* One run at a time: the queue the curator implements.  The abstract steps
   keep the order of delivery by themselves (InOrderKept); what is left to
   show of the curator is that each of its steps is one of them, for which it
   must be known that a call still has room for the events it will insert. *)

DeliveredInOrder == \A x \in Delivered, y \in Arrived : y < x => y \in Delivered

\* An INSERT still to come has an event left, the second of a turn two.
Room ==
  \A k \in 1..Len(todo) :
    todo[k].do = "insert" => born + (IF k = 3 THEN 2 ELSE 1) <= MaxEvents

\* The inductive invariant of the refinement.
QInv == OneInv /\ Room /\ DeliveredInOrder

\* A call of one append has room for it.
LEMMA OneHasRoom ==
  ASSUME born \in Nat, NEW insert \in InsertStmt, NEW i \in Nat,
         \/ Call(1, AppendEvent(1, insert))
         \/ Call(1, AppendEvent(1, insert) \o <<Link(i, born + 1)>>)
  PROVE  Room'
<1> DEFINE index == Index({born + 1})
           link  == Link(i, born + 1)
<1>1. AppendEvent(1, insert) = <<insert, index>>
  BY DEF AppendEvent
<1>2. AppendEvent(1, insert) \o <<link>> = <<insert, index, link>>
  BY <1>1, TripleConcat
<1>3. born + 1 <= MaxEvents /\ born' = born
  BY DEF Call
<1>4. todo' = <<insert, index>> \/ todo' = <<insert, index, link>>
  BY <1>1, <1>2 DEF Call
<1>5. link.do = "link"
  BY DEF Link
<1> HIDE DEF index, link
<1>6. ASSUME NEW k \in 1..Len(todo'), todo'[k].do = "insert" PROVE k # 3
  BY <1>4, <1>5, <1>6
<1> QED BY <1>3, <1>6 DEF Room

\* Every recorder's call has room for the events it appends.
LEMMA RecordHasRoom ==
  ASSUME TypeOK, Record
  PROVE  Room'
<1>1. born \in Nat /\ Live \subseteq Nat /\ HostTurn \subseteq Nat
  BY TurnsAssumption DEF TypeOK, LedgerTypeOK, HostTurn
<1>2. PICK p \in Projects :
        \/ \E t \in Threads, said \in Bodies, answered \in BOOLEAN,
              given \in HostTurns \cup {NotGiven} : RecordTurn(p, t, said, answered, given)
        \/ \E t \in Threads, turn \in HostTurn :
             \/ \E a \in Live \cup {0} : RecordToolCall(p, t, a, turn)
             \/ \E c \in 1..born : RecordToolResult(p, t, c, turn)
        \/ \E t \in Threads, i \in Live \cup {0}, turn \in HostTurn :
             RecordTaskEvent(p, t, i, turn)
        \/ \E t \in Threads, k \in {"user", "assistant"}, said \in Bodies, turn \in HostTurn :
             RecordImported(p, t, k, said, turn)
        \/ AppendInternal(p)
  BY DEF Record
<1>3. ASSUME NEW t \in Threads, NEW said \in Bodies, NEW answered \in BOOLEAN,
             NEW given \in HostTurns \cup {NotGiven}, RecordTurn(p, t, said, answered, given)
      PROVE  Room'
  <2>1. CASE answered
    <3>1. born + 2 <= MaxEvents /\ born' = born
      BY <1>3, <2>1 DEF RecordTurn, Call
    <3> QED BY <1>1, <3>1, BoundsAssumption DEF Room
  <2>2. CASE ~answered
    <3> DEFINE by   == IF given = NotGiven THEN "ledger" ELSE "host"
               turn == IF given = NotGiven THEN NextTurnSeq(t) ELSE given
               ins  == InsertOf(p, t, "user", said, turn, by, 0)
    <3>1. Call(1, AppendEvent(1, ins))
      BY <1>3, <2>2 DEF RecordTurn
    <3>2. turn \in Nat /\ said \in Body
      BY NumbersFresh, BodiesAssumption, TurnsAssumption
    <3>3. ins \in InsertStmt
      BY <3>2 DEF InsertStmt, InsertOf, Kind
    <3> HIDE DEF ins
    <3> QED BY <1>1, <3>1, <3>3, OneHasRoom
  <2> QED BY <2>1, <2>2
<1>4. ASSUME NEW t \in Threads, NEW a \in Live \cup {0}, NEW turn \in HostTurn,
             RecordToolCall(p, t, a, turn)
      PROVE  Room'
  <2> DEFINE ins == InsertOf(p, t, "tool_call", "said", turn, "host", a)
  <2>1. a \in Nat /\ turn \in Nat
    BY <1>1
  <2>2. \/ Call(1, AppendEvent(1, ins))
        \/ Call(1, AppendEvent(1, ins) \o <<Link(a, born + 1)>>)
    BY <1>4 DEF RecordToolCall
  <2>3. ins \in InsertStmt
    BY <2>1 DEF InsertStmt, InsertOf, Kind, Body
  <2> HIDE DEF ins
  <2> QED BY <1>1, <2>1, <2>2, <2>3, OneHasRoom
<1>5. ASSUME NEW t \in Threads, NEW c \in 1..born, NEW turn \in HostTurn,
             RecordToolResult(p, t, c, turn)
      PROVE  Room'
  <2> DEFINE ins == InsertOf(p, t, "tool_result", "said", turn, "host", c)
  <2>1. c \in Nat /\ turn \in Nat
    BY <1>1
  <2>2. Call(1, AppendEvent(1, ins) \o <<Link(c, born + 1)>>)
    BY <1>5 DEF RecordToolResult
  <2>3. ins \in InsertStmt
    BY <2>1 DEF InsertStmt, InsertOf, Kind, Body
  <2> HIDE DEF ins
  <2> QED BY <1>1, <2>1, <2>2, <2>3, OneHasRoom
<1>6. ASSUME NEW t \in Threads, NEW i \in Live \cup {0}, NEW turn \in HostTurn,
             RecordTaskEvent(p, t, i, turn)
      PROVE  Room'
  <2> DEFINE ins == InsertOf(p, t, "task", "said", turn, "host", i)
  <2>1. i \in Nat /\ turn \in Nat /\ Call(1, AppendEvent(1, ins))
    BY <1>1, <1>6 DEF RecordTaskEvent
  <2>2. ins \in InsertStmt
    BY <2>1 DEF InsertStmt, InsertOf, Kind, Body
  <2> HIDE DEF ins
  <2> QED BY <1>1, <2>1, <2>2, OneHasRoom
<1>7. ASSUME AppendInternal(p) PROVE Room'
  <2> DEFINE ins == InsertOf(p, NoThread, "internal", "blank", 0, "host", 0)
  <2>1. Call(1, AppendEvent(1, ins))
    BY <1>7 DEF AppendInternal
  <2>2. ins \in InsertStmt
    BY DEF InsertStmt, InsertOf, Kind, Body
  <2> HIDE DEF ins
  <2> QED BY <1>1, <2>1, <2>2, OneHasRoom
<1>8. ASSUME NEW t \in Threads, NEW k \in {"user", "assistant"}, NEW said \in Bodies,
             NEW turn \in HostTurn, RecordImported(p, t, k, said, turn)
      PROVE  Room'
  <2>1. turn \in Nat /\ said \in Body /\ k \in Kind
    BY <1>1, BodiesAssumption DEF Kind
  <2> DEFINE ins == InsertOf(p, t, k, said, turn, "host", 0)
  <2>2. Call(1, AppendEvent(1, ins))
    BY <1>8 DEF RecordImported
  <2>3. ins \in InsertStmt
    BY <2>1 DEF InsertStmt, InsertOf
  <2> HIDE DEF ins
  <2> QED BY <1>1, <2>2, <2>3, OneHasRoom
<1> QED BY <1>2, <1>3, <1>4, <1>5, <1>6, <1>7, <1>8

\* A statement executed leaves room for the rest.
LEMMA StatementHasRoom ==
  ASSUME IInv, Room, Statement
  PROVE  Room'
<1>1. todo \in Seq(LedgerStmt) /\ todo # <<>> /\ WellShaped(todo) /\ born \in Nat
  <2>1. todo # <<>>
    BY DEF Statement, Insert, IndexText, LinkNext, WipeIndex, Doing
  <2> QED BY <2>1 DEF IInv, TypeOK, LedgerTypeOK
<1>2. PICK n \in Nat : n = Len(todo) /\ n > 0
  <2>1. Len(todo) \in Nat \ {0}
    BY <1>1, HeadTailFacts
  <2> QED BY <2>1
<1>3. /\ Head(todo) = todo[1] /\ Len(Tail(todo)) = n - 1
      /\ \A k \in 1..(n - 1) : Tail(todo)[k] = todo[k + 1]
  BY <1>1, <1>2, HeadTailFacts
<1>4. \A k \in 1..n : todo[k].do = "insert" =>
        /\ k <= 3 /\ (k > 1 => todo[k - 1].do = "index")
        /\ born + (IF k = 3 THEN 2 ELSE 1) <= MaxEvents
  BY <1>1, <1>2 DEF WellShaped, Fits, Room
<1>5. CASE Insert
  <2>1. todo[1].do = "insert" /\ todo' = Tail(todo) /\ born' = born + 1
    BY <1>3, <1>5 DEF Insert, Doing
  <2>2. ASSUME NEW k \in 1..(n - 1), todo[k + 1].do = "insert"
        PROVE  k = 2 /\ born + 2 <= MaxEvents
    <3>1. k + 1 \in 1..n /\ k + 1 > 1 /\ (k + 1) - 1 = k
      BY <1>2
    <3>2. k # 1
      BY <1>4, <2>1, <2>2, <3>1
    <3> QED BY <1>4, <2>2, <3>1, <3>2
  <2>3. ASSUME NEW k \in 1..(n - 1), todo[k + 1].do = "insert"
        PROVE  (born + 1) + (IF k = 3 THEN 2 ELSE 1) <= MaxEvents
    BY <1>1, <2>2, <2>3, BoundsAssumption
  <2> QED BY <1>3, <2>1, <2>3 DEF Room
<1>6. CASE todo' = Tail(todo) /\ born' = born
  <2>1. ASSUME NEW k \in 1..(n - 1), todo[k + 1].do = "insert"
        PROVE  born + (IF k = 3 THEN 2 ELSE 1) <= MaxEvents
    <3>1. k + 1 \in 1..n
      BY <1>2
    <3> QED BY <1>1, <1>4, <2>1, <3>1, BoundsAssumption
  <2> QED BY <1>3, <1>6, <2>1 DEF Room
<1>7. ASSUME NEW S, todo' = <<Index(S)>> \o Tail(todo), born' = born
      PROVE  Room'
  <2>1. Index(S).do = "index" /\ Tail(todo) \in Seq(LedgerStmt)
    BY <1>1, HeadTailFacts DEF Index
  <2> DEFINE x == Index(S)
             t == Tail(todo)
  <2> HIDE DEF x, t
  <2>2. /\ Len(<<x>> \o t) = 1 + (n - 1)
        /\ (<<x>> \o t)[1] = x
        /\ \A k \in 2..n : (<<x>> \o t)[k] = t[k - 1]
    <3>1. <<x>> \in Seq({x} \cup LedgerStmt) /\ t \in Seq({x} \cup LedgerStmt)
      BY <2>1, SeqMonotonic DEF t
    <3>2. Len(<<x>>) = 1 /\ <<x>>[1] = x /\ Len(t) = n - 1
      BY <1>3 DEF t
    <3> QED BY <1>2, <3>1, <3>2, ConcatProperties
  <2>3. \A k \in 2..n : todo'[k] = todo[k]
    <3>1. \A k \in 2..n : k - 1 \in 1..(n - 1) /\ (k - 1) + 1 = k
      BY <1>2
    <3> QED BY <1>3, <1>7, <2>2, <3>1 DEF t, x
  <2>4. todo'[1].do = "index" /\ Len(todo') = n
    BY <1>2, <1>7, <2>1, <2>2 DEF t, x
  <2>5. ASSUME NEW k \in 1..n, todo'[k].do = "insert"
        PROVE  born + (IF k = 3 THEN 2 ELSE 1) <= MaxEvents
    <3>1. k \in 2..n
      BY <2>4, <2>5
    <3> QED BY <1>4, <2>3, <2>5, <3>1
  <2> QED BY <1>7, <2>4, <2>5 DEF Room
<1>8. CASE IndexText
  <2>1. /\ \/ todo' = Tail(todo)
           \/ \E S : todo' = <<Index(S)>> \o Tail(todo)
        /\ born' = born
    BY <1>8 DEF IndexText
  <2> QED BY <1>6, <1>7, <2>1
<1> QED BY <1>5, <1>6, <1>8 DEF Statement, LinkNext, WipeIndex

\* The curator's own calls insert nothing.
LEMMA NoInserts ==
  ASSUME todo' \in Seq(DreamStmt)
  PROVE  Room'
BY DEF Room, DreamStmt, RunStmt, CandStmt, MarkStmt, SupersedeStmt

\* Every step leaves room.
LEMMA RoomKept ==
  ASSUME OneInv, Room, [CuratorNext]_vars
  PROVE  Room'
<1>1. DInv /\ LedgerTypeOK
  BY DEF OneInv, DInv
<1>2. CASE todo' = <<>>
  BY <1>2 DEF Room
<1>3. CASE UNCHANGED <<todo, born>>
  BY <1>3 DEF Room
<1>4. CASE Record
  <2>1. IInv
    BY <1>1, <1>4, RecordStill, LedgerTodo DEF Idle
  <2> QED BY <1>4, <2>1, RecordHasRoom DEF IInv
<1>5. CASE Statement
  <2>1. IInv
    BY <1>1, <1>5, LedgerTodo DEF Statement, Insert, IndexText, LinkNext, WipeIndex, Doing
  <2> QED BY <1>5, <2>1, StatementHasRoom
<1>6. CASE Open
  <2>1. todo' = <<>> \/ todo' = <<Wipe, Index(Live)>>
    BY <1>6 DEF Open
  <2>2. Wipe.do = "wipe" /\ Index(Live).do = "index"
    BY DEF Wipe, Index
  <2> DEFINE x == Wipe
             y == Index(Live)
  <2> HIDE DEF x, y
  <2>3. ASSUME todo' = <<x, y>>, NEW k \in 1..Len(todo'), todo'[k].do = "insert" PROVE FALSE
    BY <2>2, <2>3 DEF x, y
  <2> QED BY <1>2, <2>1, <2>3 DEF Room, x, y
<1>7. ASSUME NEW p, ForgetUser(p) PROVE UNCHANGED <<todo, born>>
  BY <1>7 DEF ForgetUser
<1>8. CASE LedgerStep
  BY <1>3, <1>4, <1>5, <1>6, <1>7, <1>8 DEF LedgerStep
<1>9. ASSUME NEW r \in Runs, Answer(r) PROVE Room'
  <2>1. CASE AnswerValid(r)
    <3>1. PICK s : s = run[r].scope
      OBVIOUS
    <3>2. todo' = <<SupRec(s)>>
      BY <2>1, <3>1 DEF AnswerValid, Submit, SupRec
    <3>3. SupRec(s).do = "supersede"
      BY DEF SupRec
    <3> QED BY <3>2, <3>3 DEF Room
  <2>2. CASE UNCHANGED <<todo, born>>
    BY <1>3, <2>2
  <2> QED BY <1>9, <2>1, <2>2 DEF Answer, AnswerRuleOnly, AnswerFault, ledgerVars
<1>10. ASSUME NEW r \in Runs, FinishRun(r) PROVE Room'
  <2>1. run[r] \in RunState
    BY DEF OneInv, DInv
  <2>2. PICK s \in Scopes, ev \in SUBSET Nat, f \in Faults, top \in Nat :
          todo' = <<RunRec(s, ev), CandRec(s, f), MarkRec(s, top)>>
    <3>1. todo' = RunStmts(r, run[r].top)
      BY <1>10 DEF FinishRun, Finish, Submit
    <3> QED BY <2>1, <3>1 DEF RunState, Faults, RunStmts, RunRec, CandRec, MarkRec
  <2> DEFINE a == RunRec(s, ev)
             b == CandRec(s, f)
             c == MarkRec(s, top)
  <2>3. a \in DreamStmt /\ b \in DreamStmt /\ c \in DreamStmt
    BY DreamStmtTypes
  <2> HIDE DEF a, b, c
  <2>4. todo' = <<a, b, c>>
    BY <2>2 DEF a, b, c
  <2> QED BY <2>3, <2>4, NoInserts
<1>11. CASE DreamStatement
  <2>1. /\ up /\ todo # <<>>
        /\ Head(todo).do \notin {"insert", "index", "link", "wipe"}
        /\ todo' = Tail(todo) \/ UNCHANGED <<todo, born>>
    BY <1>11 DEF DreamStatement, InsertRun, InsertCandidates, MarkDreamed, Supersede, Doing, NextStmt, ledgerVars
  <2>2. todo \in Seq(DreamStmt)
    BY <1>1, <2>1, DreamHead, LedgerHead DEF DInv
  <2>3. Tail(todo) \in Seq(DreamStmt)
    BY <2>1, <2>2, HeadTailProperties
  <2> QED BY <1>3, <2>1, <2>3, NoInserts
<1>12. CASE CrashAll
  BY <1>2, <1>12 DEF CrashAll, Crash
<1>13. ASSUME NEW r \in Runs, NEW s \in Asked, NEW n \in Limits, StartRun(r, s, n) PROVE Room'
  BY <1>3, <1>13 DEF StartRun, ledgerVars
<1> QED BY <1>3, <1>8, <1>9, <1>10, <1>11, <1>12, <1>13 DEF CuratorNext, vars, ledgerVars

-----------------------------------------------------------------------------

\* The abstract steps keep the order of delivery.
LEMMA InOrderKept ==
  ASSUME DeliveredInOrder, LedgerTypeOK, [Queue!Next]_(Queue!vars)
  PROVE  DeliveredInOrder'
<1>1. Arrived \subseteq Nat /\ Delivered \subseteq Arrived
  BY PeakType DEF Arrived, Delivered
<1>2. CASE Queue!Arrive
  <2>1. PICK e \in 1..MaxEvents : /\ \A x \in Arrived : x < e
                                  /\ Arrived' = Arrived \cup {e} /\ Delivered' = Delivered
    BY <1>2 DEF Queue!Arrive
  <2>2. ASSUME NEW x \in Delivered PROVE ~(e < x)
    <3>1. x \in Nat /\ x < e /\ e \in Nat
      BY <1>1, <2>1, <2>2
    <3> QED BY <3>1
  <2> QED BY <2>1, <2>2 DEF DeliveredInOrder
<1>3. CASE Queue!Deliver
  BY <1>3 DEF Queue!Deliver, Queue!Prefix, DeliveredInOrder
<1>4. CASE Queue!Acknowledge
  BY <1>4 DEF Queue!Acknowledge, DeliveredInOrder
<1>5. CASE Queue!Remove
  <2>1. PICK S : Arrived' = Arrived \ S /\ Delivered' = Delivered \ S
    BY <1>5 DEF Queue!Remove
  <2> QED BY <2>1 DEF DeliveredInOrder
<1>6. CASE UNCHANGED Queue!vars
  BY <1>6 DEF Queue!vars, DeliveredInOrder
<1> QED BY <1>2, <1>3, <1>4, <1>5, <1>6 DEF Queue!Next

\* What a step must leave alone for the queue not to move.
Unmoved ==
  /\ Live' = Live /\ recycled' = recycled /\ mark' = mark
  /\ \A i \in Live : /\ rows'[i].seq = rows[i].seq /\ rows'[i].project = rows[i].project
                     /\ rows'[i].thread = rows[i].thread
  /\ \A i \in Live : Logged(Watched, i)' <=> Logged(Watched, i)

LEMMA QueueRests ==
  ASSUME Unmoved
  PROVE  [Queue!Next]_(Queue!vars)
<1>1. \A i \in Live : InScope(i, Watched)' <=> InScope(i, Watched)
  BY DEF Unmoved, InScope, IsRaw
<1>2. Arrived' = Arrived
  BY <1>1 DEF Unmoved, Arrived
<1>3. Delivered' = Delivered
  BY <1>2 DEF Unmoved, Delivered, Arrived
<1>4. Acked' = Acked
  BY <1>2 DEF Unmoved, Acked, Arrived
<1> QED BY <1>2, <1>3, <1>4 DEF Queue!vars

\* The INSERT of an event of the scope is its arrival; an event of another
\* scope, or with a recycled number, is not seen.
LEMMA QueueInsert ==
  ASSUME QInv, Insert, UNCHANGED <<mark, log>>
  PROVE  [Queue!Next]_(Queue!vars)
<1> DEFINE s == Head(todo)
           n == born + 1
           new == [project |-> s.project, thread |-> s.thread, kind |-> s.kind,
                   body |-> s.body, seq |-> NextGlobalSeq,
                   tseq |-> IF s.thread = NoThread THEN 0 ELSE NextThreadSeq(s.thread),
                   turn |-> s.turn, by |-> s.by, prev |-> s.prev, next |-> 0]
<1>1. DInv /\ Books /\ IInv /\ Room /\ LedgerTypeOK /\ TypeOK
  <2>1. DInv
    BY DEF QInv, OneInv
  <2>2. IInv
    BY <2>1, LedgerTodo DEF Insert, Doing
  <2> QED BY <2>1, <2>2 DEF QInv, OneInv, IInv, TypeOK
<1>2. /\ rows' = [i \in Live \cup {n} |-> IF i = n THEN new ELSE rows[i]]
      /\ recycled' = IF NextGlobalSeq <= peak THEN recycled \cup {n} ELSE recycled
      /\ todo # <<>> /\ s.do = "insert"
  BY DEF Insert, Doing
<1>3. new.seq = NextGlobalSeq
  OBVIOUS
<1>4. /\ NextGlobalSeq \in Nat \ {0} /\ peak \in Nat /\ born \in Nat
      /\ Live \subseteq 1..born /\ recycled \subseteq 1..born
  BY <1>1, NumbersFresh DEF LedgerTypeOK
<1>5. n \in Nat /\ n \notin 1..born /\ \A i \in 1..born : i < n
  BY <1>4
<1>6. n \in 1..MaxEvents
  <2>1. todo \in Seq(LedgerStmt)
    BY <1>1 DEF TypeOK
  <2>2. 1 \in 1..Len(todo) /\ todo[1].do = "insert"
    BY <1>2, <2>1, HeadTailFacts
  <2>3. n <= MaxEvents
    BY <1>1, <2>2 DEF Room
  <2> QED BY <1>4, <2>3, BoundsAssumption
<1> HIDE DEF new, n
<1>7. /\ Live' = Live \cup {n} /\ rows'[n] = new
      /\ \A i \in Live : i # n /\ rows'[i] = rows[i]
  BY <1>2, <1>4, <1>5 DEF Live
<1>8. /\ \A i \in Live : i \in recycled' <=> i \in recycled
      /\ n \in recycled' <=> NextGlobalSeq <= peak
  BY <1>2, <1>4, <1>5, <1>7
<1>9. \A i \in Live : InScope(i, Watched)' <=> InScope(i, Watched)
  BY <1>7 DEF InScope, IsRaw
<1>10. \A i : Logged(Watched, i)' <=> Logged(Watched, i)
  BY DEF Logged
<1>11. ~Logged(Watched, n)
  BY <1>1, <1>5 DEF Books, LoggedBorn, Logged
<1>12. \A i \in Live : i \in Arrived' <=> i \in Arrived
  BY <1>7, <1>8, <1>9 DEF Arrived
<1>13. Arrived \subseteq Live /\ Arrived' \subseteq Live \cup {n} /\ n \notin Arrived
  BY <1>4, <1>5, <1>7 DEF Arrived
<1>14. Delivered' = Delivered
  BY <1>10, <1>11, <1>12, <1>13 DEF Delivered
<1>15. n \in Arrived' => rows'[n].seq > mark'[Watched]
  <2>1. Watched \in Scopes
    BY WatchedAssumption DEF Scopes
  <2>2. mark[Watched] \in Nat /\ mark[Watched] <= peak
    BY <1>1, <2>1 DEF DInv, MarksCovered
  <2>3. n \in Arrived' => NextGlobalSeq > peak
    BY <1>4, <1>8 DEF Arrived
  <2>4. rows'[n].seq = NextGlobalSeq
    BY <1>3, <1>7
  <2> QED BY <1>4, <2>2, <2>3, <2>4
<1>16. Acked' = Acked
  <2>1. ~(n \in Arrived' /\ rows'[n].seq <= mark'[Watched])
    <3>1. mark'[Watched] \in Nat /\ rows'[n].seq \in Nat
      BY <1>1, <1>3, <1>4, <1>7, WatchedAssumption DEF DInv, Scopes
    <3> QED BY <1>15, <3>1
  <2>2. \A i \in Live : rows'[i].seq <= mark'[Watched] <=> rows[i].seq <= mark[Watched]
    BY <1>7
  <2>3. \A i : i \in Acked' <=> i \in Acked
    BY <1>12, <1>13, <2>1, <2>2 DEF Acked
  <2> QED BY <2>3
<1>17. CASE n \in Arrived'
  <2>1. Arrived' = Arrived \cup {n}
    BY <1>12, <1>13, <1>17
  <2>2. \A x \in Arrived : x < n
    BY <1>4, <1>5, <1>13
  <2>3. Queue!Arrive
    BY <1>6, <1>14, <1>16, <2>1, <2>2 DEF Queue!Arrive
  <2> QED BY <2>3 DEF Queue!Next
<1>18. CASE n \notin Arrived'
  <2>1. Arrived' = Arrived
    BY <1>12, <1>13, <1>18
  <2> QED BY <1>14, <1>16, <2>1 DEF Queue!vars
<1> QED BY <1>17, <1>18

\* A privacy deletion removes.
LEMMA QueueForget ==
  ASSUME NEW p, ForgetUser(p), UNCHANGED <<mark, log>>
  PROVE  [Queue!Next]_(Queue!vars)
<1> DEFINE S == Arrived \ Arrived'
<1>1. /\ recycled' = recycled /\ Live' \subseteq Live
      /\ \A i \in Live' : rows'[i] = rows[i]
  BY DEF ForgetUser, Restrict, Live, history
<1>2. \A i \in Live' : InScope(i, Watched)' <=> InScope(i, Watched)
  BY <1>1 DEF InScope, IsRaw
<1>3. \A i : Logged(Watched, i)' <=> Logged(Watched, i)
  BY DEF Logged
<1>4. Arrived' \subseteq Arrived /\ Arrived \subseteq Live /\ Arrived' \subseteq Live'
  BY <1>1, <1>2 DEF Arrived
<1>5. Arrived' = Arrived \ S /\ S \in SUBSET Arrived
  BY <1>4
<1>6. Delivered' = Delivered \ S
  BY <1>3, <1>4 DEF Delivered
<1>7. Acked' = Acked \ S
  BY <1>1, <1>4 DEF Acked
<1>8. Queue!Remove
  <2> HIDE DEF S
  <2> QED BY <1>5, <1>6, <1>7 DEF Queue!Remove
<1> QED BY <1>8 DEF Queue!Next

\* Inserting the run row delivers nothing yet.
LEMMA QueueInsertRun ==
  ASSUME QInv, InsertRun
  PROVE  [Queue!Next]_(Queue!vars)
<1>1. log \in Seq(Recorded)
  BY DEF QInv, OneInv, DInv
<1>2. /\ UNCHANGED <<rows, recycled, mark>>
      /\ log' = Append(log, [by |-> "run", scope |-> Head(todo).scope,
                             events |-> Head(todo).events, done |-> FALSE])
  BY DEF InsertRun, NextStmt, history
<1> DEFINE e == [by |-> "run", scope |-> Head(todo).scope, events |-> Head(todo).events, done |-> FALSE]
<1>3. e.done = FALSE
  OBVIOUS
<1> HIDE DEF e
<1>4. PICK n \in Nat : n = Len(log) /\ DOMAIN log = 1..n
  BY <1>1, LenProperties
<1>5. DOMAIN log' = 1..(n + 1) /\ log'[n + 1] = e /\ \A k \in 1..n : log'[k] = log[k]
  BY <1>1, <1>2, <1>4 DEF e
<1>6. \A i : Logged(Watched, i)' <=> Logged(Watched, i)
  <2>1. ASSUME NEW i, Logged(Watched, i)' PROVE Logged(Watched, i)
    <3>1. PICK k \in 1..(n + 1) : log'[k].scope = Watched /\ log'[k].done /\ i \in log'[k].events
      BY <1>5, <2>1 DEF Logged
    <3>2. k \in 1..n
      BY <1>3, <1>4, <1>5, <3>1
    <3> QED BY <1>4, <1>5, <3>1, <3>2 DEF Logged
  <2>2. ASSUME NEW i, Logged(Watched, i) PROVE Logged(Watched, i)'
    <3>1. PICK k \in 1..n : log[k].scope = Watched /\ log[k].done /\ i \in log[k].events
      BY <1>4, <2>2 DEF Logged
    <3>2. k \in 1..(n + 1)
      BY <1>4
    <3> QED BY <1>5, <3>1, <3>2 DEF Logged
  <2> QED BY <2>1, <2>2
<1>7. Unmoved
  BY <1>2, <1>6 DEF Unmoved, Live
<1> QED BY <1>7, QueueRests

\* Committing the candidates delivers the batch: with what was delivered
\* before it is everything of the scope up to its last event.
LEMMA QueuePropose ==
  ASSUME QInv, InsertCandidates
  PROVE  [Queue!Next]_(Queue!vars)
<1>1. /\ DInv /\ Stage /\ ReplayOrder /\ LedgerTypeOK /\ log \in Seq(Recorded) /\ DeliveredInOrder
  BY DEF QInv, OneInv, DInv
<1>2. PICK s \in Scopes, f \in Faults, top \in Nat : PairTodo(s, f, top)
  BY <1>1, DreamShape DEF InsertCandidates, Doing, AtCandidates
<1>3. PICK s1 \in Scopes, f1 \in Faults, top1 \in Nat : ToPropose(s1, f1, top1)
  BY <1>1, StageAt DEF InsertCandidates, Doing
<1>4. top = top1
  <2> DEFINE a == CandRec(s, f)
             b == MarkRec(s, top)
             c == CandRec(s1, f1)
             d == MarkRec(s1, top1)
  <2>1. <<a, b>> = <<c, d>> /\ b.top = top /\ d.top = top1
    BY <1>2, <1>3 DEF PairTodo, ToPropose, MarkRec
  <2>2. b = d
    <3> HIDE DEF a, b, c, d
    <3>1. <<a, b>>[2] = <<c, d>>[2]
      BY <2>1
    <3> QED BY <3>1
  <2> HIDE DEF b, d
  <2> QED BY <2>1, <2>2
<1> DEFINE n  == Len(log)
           ev == log[n].events
<1>5. /\ log # <<>> /\ log[n].scope = s /\ Covers(s, top, ev)
      /\ \A i \in ev \cap Live : rows[i].seq <= top
  BY <1>2, <1>3, <1>4 DEF PairTodo, ToPropose
<1>6. /\ UNCHANGED <<rows, recycled, mark>>
      /\ log' = [log EXCEPT ![Len(log)].done = TRUE]
  BY DEF InsertCandidates, NextStmt, history
<1>7. /\ DOMAIN log' = DOMAIN log /\ n \in DOMAIN log /\ log'[n].done
      /\ \A k \in DOMAIN log : log'[k].scope = log[k].scope /\ log'[k].events = log[k].events
      /\ \A k \in DOMAIN log : k # n => log'[k] = log[k]
  BY <1>1, <1>5, <1>6, LogDone
<1> HIDE DEF n
<1>8. \A i : Logged(Watched, i)' <=> Logged(Watched, i) \/ (s = Watched /\ i \in ev)
  BY <1>5, <1>7 DEF Logged
<1> HIDE DEF ev
<1>9. Arrived' = Arrived /\ Acked' = Acked /\ Arrived \subseteq Live \ recycled
  BY <1>6 DEF Arrived, Acked, Live, InScope, IsRaw
<1>10. \A i : i \in Delivered' <=> i \in Arrived /\ (Logged(Watched, i) \/ (s = Watched /\ i \in ev))
  BY <1>8, <1>9 DEF Delivered
<1>11. \A i : i \in Delivered <=> i \in Arrived /\ Logged(Watched, i)
  BY DEF Delivered
<1>12. ASSUME NEW x \in Delivered', NEW y \in Arrived, y < x PROVE y \in Delivered'
  <2>1. CASE x \in Delivered
    BY <1>1, <1>10, <1>11, <1>12, <2>1 DEF DeliveredInOrder
  <2>2. CASE s = Watched /\ x \in ev
    <3>1. x \in Live /\ y \in Live /\ y \notin recycled /\ InScope(y, Watched)
      BY <1>9, <1>10, <1>12 DEF Arrived
    <3>2. /\ rows[y].seq \in Nat /\ rows[x].seq \in Nat /\ rows[y].seq < rows[x].seq
          /\ rows[x].seq <= top
      BY <1>1, <1>5, <1>12, <2>2, <3>1, PeakType DEF ReplayOrder
    <3>3. rows[y].seq <= top
      BY <3>2
    <3>4. y \in ev \/ Logged(Watched, y)
      BY <1>5, <2>2, <3>1, <3>3 DEF Covers
    <3> QED BY <1>10, <2>2, <3>4
  <2> QED BY <1>10, <1>11, <2>1, <2>2
<1>13. Queue!Deliver
  <2>1. Delivered' \in SUBSET Arrived /\ Delivered' = Delivered \cup Delivered'
    BY <1>10, <1>11
  <2> QED BY <1>9, <1>12, <2>1 DEF Queue!Deliver, Queue!Prefix
<1> QED BY <1>13 DEF Queue!Next

\* Writing the watermark acknowledges what it covers, all of it delivered.
LEMMA QueueMark ==
  ASSUME QInv, MarkDreamed
  PROVE  [Queue!Next]_(Queue!vars)
<1>1. DInv /\ OneInv /\ ReplayOrder /\ LedgerTypeOK /\ mark \in [Scopes -> Nat]
  BY DEF QInv, OneInv, DInv
<1>2. Watched \in Scopes
  BY WatchedAssumption DEF Scopes
<1>3. DInv' /\ mark'[Watched] >= mark[Watched]
  BY <1>1, <1>2, MarkDreamedCase, OneMarks
<1>4. UNCHANGED <<rows, recycled, log>>
  BY DEF MarkDreamed, NextStmt, history
<1>5. Arrived' = Arrived /\ Delivered' = Delivered
  BY <1>4 DEF Arrived, Delivered, Live, InScope, IsRaw, Logged
<1>6. \A i \in Arrived : i \in Live /\ i \notin recycled /\ InScope(i, Watched) /\ rows[i].seq \in Nat
  BY <1>1, PeakType DEF Arrived
<1>7. mark[Watched] \in Nat /\ mark'[Watched] \in Nat
  BY <1>1, <1>2, <1>3 DEF DInv
<1>8. \A i : /\ i \in Acked <=> i \in Arrived /\ rows[i].seq <= mark[Watched]
             /\ i \in Acked' <=> i \in Arrived /\ rows[i].seq <= mark'[Watched]
  BY <1>4, <1>5 DEF Acked
<1>9. Acked' \in SUBSET Delivered
  <2>1. CoverageRecorded'
    BY <1>3 DEF DInv, MarksCovered, Covers, CoverageRecorded
  <2>2. ASSUME NEW i \in Acked' PROVE Logged(Watched, i)
    BY <1>2, <1>4, <1>6, <1>8, <2>1 DEF CoverageRecorded, Live, InScope, IsRaw, Logged
  <2> QED BY <1>8, <2>2 DEF Delivered
<1>10. Acked \subseteq Acked'
  BY <1>3, <1>6, <1>7, <1>8
<1>11. \A x \in Acked', y \in Arrived : y < x => y \in Acked'
  BY <1>1, <1>6, <1>7, <1>8 DEF ReplayOrder
<1>12. Queue!Acknowledge
  BY <1>5, <1>9, <1>10, <1>11 DEF Queue!Acknowledge, Queue!Prefix
<1> QED BY <1>12 DEF Queue!Next

\* Each step of the curator arrives, delivers, acknowledges, removes, or is
\* not seen.
LEMMA QueueStep ==
  ASSUME QInv, [CuratorNext]_vars
  PROVE  [Queue!Next]_(Queue!vars)
<1>1. CASE UNCHANGED <<rows, recycled, mark, log>>
  BY <1>1, QueueRests DEF Unmoved, Live, Logged
<1>2. CASE LedgerStep
  <2>1. UNCHANGED <<mark, log>>
    BY <1>2 DEF LedgerStep, dreamVars
  <2>2. CASE Record
    BY <1>1, <2>1, <2>2, RecordStill
  <2>3. CASE LinkNext
    <3>1. /\ rows' = [i \in Live |-> IF i = Head(todo).id THEN [rows[i] EXCEPT !.next = Head(todo).to]
                                                          ELSE rows[i]]
          /\ recycled' = recycled
      BY <2>3 DEF LinkNext, history
    <3>2. \A i \in Live : rows[i] \in Row
      BY PeakType DEF QInv, OneInv, DInv
    <3>3. Live' = Live
      BY <3>1 DEF Live
    <3>4. ASSUME NEW i \in Live
          PROVE  /\ rows'[i].seq = rows[i].seq /\ rows'[i].project = rows[i].project
                 /\ rows'[i].thread = rows[i].thread
      BY <3>1, <3>2 DEF Row
    <3> QED BY <2>1, <3>1, <3>3, <3>4, QueueRests DEF Unmoved, Logged
  <2>4. CASE IndexText \/ WipeIndex \/ Open
    BY <1>1, <2>1, <2>4 DEF IndexText, WipeIndex, Open, history
  <2> QED BY <1>2, <2>1, <2>2, <2>3, <2>4, QueueInsert, QueueForget DEF LedgerStep, Statement
<1>3. CASE DreamStatement
  <2>1. CASE Supersede
    BY <1>1, <2>1 DEF Supersede, NextStmt, ledgerVars, history
  <2> QED BY <1>3, <2>1, QueueInsertRun, QueuePropose, QueueMark DEF DreamStatement
<1>4. ASSUME NEW r \in Runs, NEW s \in Asked, NEW n \in Limits, StartRun(r, s, n)
      PROVE  UNCHANGED <<rows, recycled, mark, log>>
  BY <1>4 DEF StartRun, ledgerVars, history
<1>5. ASSUME NEW r \in Runs, Answer(r) \/ FinishRun(r)
      PROVE  UNCHANGED <<rows, recycled, mark, log>>
  BY <1>5 DEF Answer, AnswerRuleOnly, AnswerFault, AnswerValid, FinishRun, Finish, Submit, ledgerVars, history
<1>6. CASE CrashAll
  BY <1>1, <1>6 DEF CrashAll, Crash, history
<1> QED BY <1>1, <1>2, <1>3, <1>4, <1>5, <1>6 DEF CuratorNext, vars, dreamVars, ledgerVars, history

\* With one run at a time the curator is an at-least-once queue: the events of
\* a scope are delivered in the order of recording without gaps, committed
\* with their candidates before the watermark covers them, and the watermark
\* never uncovers one (DreamCuratorWorker.run, DreamLedgerStore.markDreamed).
THEOREM CuratorIsQueue ==
  ASSUME OneRun
  PROVE  CuratorSpec => QueueSpec
<1>1. Init => Queue!Init /\ Room /\ DeliveredInOrder
  BY DEF Init, LedgerInit, Queue!Init, Room, Arrived, Delivered, Acked, Live, DeliveredInOrder
<1>2. QInv /\ [CuratorNext]_vars => QInv' /\ [Queue!Next]_(Queue!vars)
  <2> SUFFICES ASSUME QInv, [CuratorNext]_vars
               PROVE  QInv' /\ [Queue!Next]_(Queue!vars)
    OBVIOUS
  <2>1. OneInv'
    BY OnePreserves DEF QInv
  <2>2. Room'
    BY RoomKept DEF QInv
  <2>3. [Queue!Next]_(Queue!vars)
    BY QueueStep
  <2>4. DeliveredInOrder'
    BY <2>3, InOrderKept DEF QInv, OneInv, DInv
  <2> QED BY <2>1, <2>2, <2>3, <2>4 DEF QInv
<1>3. Init => QInv
  BY <1>1, OneBegins DEF QInv
<1> QED BY <1>1, <1>2, <1>3, PTL DEF CuratorSpec, QueueSpec, Queue!Spec

=============================================================================
