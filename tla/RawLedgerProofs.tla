--------------------------- MODULE RawLedgerProofs ---------------------------
(***************************************************************************)
(* Theorems about RawLedger for every value of its constants.              *)
(*                                                                         *)
(* ReplayOrder, the order of the ledger, is not inductive by itself: the   *)
(* number an INSERT draws is fresh only if the columns are finite sets of  *)
(* numbers, which the type invariant gives, and the type invariant in turn *)
(* needs to know what statements a call in progress may still hold: the    *)
(* index statement after an INSERT names the row that INSERT will make,    *)
(* and the statements of the rebuild name rows that are there.  WellShaped *)
(* says so, and IInv is the three together.                                *)
(*                                                                         *)
(* The links, the turns and the search index depend on what the statements *)
(* of the call in progress are about to write (Planned, Unindexed): LInv   *)
(* says that they will make true what a cut in between would leave undone. *)
(***************************************************************************)
EXTENDS RawLedger, SetLemmas

\* COALESCE(MAX(column), 0) + 1 is greater than every value of the column.
LEMMA NextAfterIsFresh ==
  ASSUME NEW S \in SUBSET Nat, IsFiniteSet(S)
  PROVE  NextAfter(S) \in Nat \ {0} /\ \A y \in S : y < NextAfter(S)
<1>1. IsFiniteSet(S \cup {0}) /\ S \cup {0} \in SUBSET Int /\ S \cup {0} # {}
  BY FS_AddElement
<1>2. PICK m \in S \cup {0} : m = Max(S \cup {0}) /\ \A y \in S \cup {0} : y <= m
  BY <1>1, MaxOfFinite
<1>3. NextAfter(S) = m + 1
  BY <1>2 DEF NextAfter
<1> QED BY <1>2, <1>3

-----------------------------------------------------------------------------

\* What the k-th statement left in a call may be, given its neighbours: an
\* INSERT is followed by the indexing of the row it makes (the first or the
\* second from now), the rebuild names live rows only and its wipe comes first.
Fits(s, k) ==
  /\ s[k].do = "insert" => /\ k <= 3 /\ k < Len(s)
                           /\ s[k + 1].do = "index"
                           /\ k > 1 => s[k - 1].do = "index"
  /\ s[k].do = "index" =>
       \/ k = 1 /\ s[k].ids \subseteq Live /\ s[k].ids # {}
       \/ k = 2 /\ s[1].do = "wipe" /\ s[k].ids \subseteq Live /\ s[k].ids # {}
       \/ k > 1 /\ s[k - 1].do = "insert" /\ s[k].ids = {born + (k \div 2)}
  /\ s[k].do = "wipe" => k = 1 /\ Len(s) = 2

WellShaped(s) == \A k \in 1..Len(s) : Fits(s, k)

\* The inductive invariant of the ledger.
IInv == TypeOK /\ WellShaped(todo) /\ ReplayOrder

\* The table has finitely many rows.
LEMMA LiveFinite ==
  ASSUME TypeOK
  PROVE  IsFiniteSet(Live)
<1>1. born \in Nat /\ Live \in SUBSET (1..born)
  BY DEF TypeOK, LedgerTypeOK
<1>2. IsFiniteSet(1..born)
  BY <1>1, FS_Interval
<1> QED BY <1>1, <1>2, FS_Subset

\* The three numbers append draws are beyond every number in use: global_seq
\* in the table, thread_seq and turn_seq in the thread.
LEMMA NumbersFresh ==
  ASSUME TypeOK
  PROVE  /\ NextGlobalSeq \in Nat \ {0}
         /\ \A i \in Live : rows[i].seq < NextGlobalSeq
         /\ \A t \in Threads : /\ NextThreadSeq(t) \in Nat \ {0}
                               /\ NextTurnSeq(t) \in Nat \ {0}
                               /\ \A i \in OfThread(t) : /\ rows[i].tseq < NextThreadSeq(t)
                                                         /\ rows[i].turn < NextTurnSeq(t)
<1>1. IsFiniteSet(Live)
  BY LiveFinite
<1>2. /\ NextGlobalSeq \in Nat \ {0}
      /\ \A i \in Live : rows[i].seq < NextGlobalSeq
  <2> DEFINE g == [i \in Live |-> rows[i].seq]
  <2>1. g \in [Live -> Nat]
    BY DEF TypeOK, LedgerTypeOK, Row
  <2>2. {g[i] : i \in Live} = {rows[i].seq : i \in Live}
    OBVIOUS
  <2>4. IsFiniteSet({g[i] : i \in Live})
    <3> HIDE DEF g
    <3> QED BY <1>1, <2>1, FiniteColumn
  <2>3. {rows[i].seq : i \in Live} \in SUBSET Nat
    BY DEF TypeOK, LedgerTypeOK, Row
  <2> QED BY <2>2, <2>4, <2>3, NextAfterIsFresh DEF NextGlobalSeq
<1>3. ASSUME NEW t \in Threads
      PROVE  /\ NextThreadSeq(t) \in Nat \ {0}
             /\ \A i \in OfThread(t) : rows[i].tseq < NextThreadSeq(t)
  <2> DEFINE g == [i \in OfThread(t) |-> rows[i].tseq]
  <2>0. IsFiniteSet(OfThread(t))
    BY <1>1, FS_Subset DEF OfThread
  <2>1. g \in [OfThread(t) -> Nat]
    BY DEF TypeOK, LedgerTypeOK, Row, OfThread
  <2>2. {g[i] : i \in OfThread(t)} = {rows[i].tseq : i \in OfThread(t)}
    OBVIOUS
  <2>4. IsFiniteSet({g[i] : i \in OfThread(t)})
    <3> HIDE DEF g
    <3> QED BY <2>0, <2>1, FiniteColumn
  <2>3. {rows[i].tseq : i \in OfThread(t)} \in SUBSET Nat
    BY DEF TypeOK, LedgerTypeOK, Row, OfThread
  <2> QED BY <2>2, <2>4, <2>3, NextAfterIsFresh DEF NextThreadSeq
<1>4. ASSUME NEW t \in Threads
      PROVE  /\ NextTurnSeq(t) \in Nat \ {0}
             /\ \A i \in OfThread(t) : rows[i].turn < NextTurnSeq(t)
  <2> DEFINE g == [i \in OfThread(t) |-> rows[i].turn]
  <2>0. IsFiniteSet(OfThread(t))
    BY <1>1, FS_Subset DEF OfThread
  <2>1. g \in [OfThread(t) -> Nat]
    BY DEF TypeOK, LedgerTypeOK, Row, OfThread
  <2>2. {g[i] : i \in OfThread(t)} = {rows[i].turn : i \in OfThread(t)}
    OBVIOUS
  <2>4. IsFiniteSet({g[i] : i \in OfThread(t)})
    <3> HIDE DEF g
    <3> QED BY <2>0, <2>1, FiniteColumn
  <2>3. {rows[i].turn : i \in OfThread(t)} \in SUBSET Nat
    BY DEF TypeOK, LedgerTypeOK, Row, OfThread
  <2> QED BY <2>2, <2>4, <2>3, NextAfterIsFresh DEF NextTurnSeq
<1> QED BY <1>2, <1>3, <1>4

\* A concatenation is known by its length and its elements.
LEMMA ConcatIs ==
  ASSUME NEW S, NEW s \in Seq(S), NEW t \in Seq(S), NEW u \in Seq(S),
         Len(u) = Len(s) + Len(t),
         \A i \in 1..Len(u) : u[i] = IF i <= Len(s) THEN s[i] ELSE t[i - Len(s)]
  PROVE  s \o t = u
BY ConcatProperties, SeqEqual

\* The statements of one append and a link, as one sequence.
LEMMA TripleConcat ==
  ASSUME NEW a, NEW b, NEW c
  PROVE  <<a, b>> \o <<c>> = <<a, b, c>>
<1> DEFINE S == {a, b, c}
           s == <<a, b>>
           t == <<c>>
           u == <<a, b, c>>
<1>1. s \in Seq(S) /\ t \in Seq(S) /\ u \in Seq(S)
  OBVIOUS
<1>2. Len(s) = 2 /\ Len(t) = 1 /\ Len(u) = 3
  OBVIOUS
<1>3. \A i \in 1..3 : u[i] = IF i <= 2 THEN s[i] ELSE t[i - 2]
  OBVIOUS
<1> HIDE DEF S, s, t, u
<1>4. /\ Len(u) = Len(s) + Len(t)
      /\ \A i \in 1..Len(u) : u[i] = IF i <= Len(s) THEN s[i] ELSE t[i - Len(s)]
  BY <1>2, <1>3
<1>5. s \o t = u
  BY <1>1, <1>4, ConcatIs
<1> QED BY <1>5 DEF s, t, u

\* The statements of two appends and a link, as one sequence.
LEMMA QuintConcat ==
  ASSUME NEW a, NEW b, NEW c, NEW d, NEW e
  PROVE  <<a, b>> \o <<c, d>> \o <<e>> = <<a, b, c, d, e>>
<1> DEFINE S == {a, b, c, d, e}
           s == <<a, b>>
           t == <<c, d>>
           u == <<a, b, c, d>>
           v == <<e>>
           w == <<a, b, c, d, e>>
<1>1. s \in Seq(S) /\ t \in Seq(S) /\ u \in Seq(S) /\ v \in Seq(S) /\ w \in Seq(S)
  OBVIOUS
<1>2. Len(s) = 2 /\ Len(t) = 2 /\ Len(u) = 4 /\ Len(v) = 1 /\ Len(w) = 5
  OBVIOUS
<1>3. \A i \in 1..4 : u[i] = IF i <= 2 THEN s[i] ELSE t[i - 2]
  OBVIOUS
<1>4. \A i \in 1..5 : w[i] = IF i <= 4 THEN u[i] ELSE v[i - 4]
  OBVIOUS
<1> HIDE DEF S, s, t, u, v, w
<1>5. s \o t = u
  <2>1. /\ Len(u) = Len(s) + Len(t)
        /\ \A i \in 1..Len(u) : u[i] = IF i <= Len(s) THEN s[i] ELSE t[i - Len(s)]
    BY <1>2, <1>3
  <2> QED BY <1>1, <2>1, ConcatIs
<1>6. u \o v = w
  <2>1. /\ Len(w) = Len(u) + Len(v)
        /\ \A i \in 1..Len(w) : w[i] = IF i <= Len(u) THEN u[i] ELSE v[i - Len(u)]
    BY <1>2, <1>4
  <2> QED BY <1>1, <2>1, ConcatIs
<1> QED BY <1>5, <1>6 DEF s, t, u, v, w

-----------------------------------------------------------------------------

\* Starting a call keeps the invariant if its statements are well shaped.
LEMMA CallStep ==
  ASSUME IInv, NEW n, NEW stmts \in Seq(LedgerStmt), WellShaped(stmts), Call(n, stmts)
  PROVE  IInv'
BY DEF IInv, TypeOK, LedgerTypeOK, WellShaped, Fits, ReplayOrder, Call, Live, IsRaw, history, Idle

\* Index makes a statement of the ledger.
LEMMA IndexType ==
  ASSUME NEW S \in SUBSET Nat
  PROVE  Index(S) \in LedgerStmt /\ Index(S).do = "index" /\ Index(S).ids = S
BY DEF LedgerStmt, IndexStmt, Index

\* Link makes a statement of the ledger.
LEMMA LinkType ==
  ASSUME NEW i \in Nat, NEW j \in Nat
  PROVE  Link(i, j) \in LedgerStmt /\ Link(i, j).do = "link"
BY DEF LedgerStmt, LinkStmt, Link

\* A call of one append, with or without a link, keeps the invariant.
LEMMA OneAppend ==
  ASSUME IInv, NEW insert \in InsertStmt, NEW i \in Nat
  PROVE  /\ Call(1, AppendEvent(1, insert)) => IInv'
         /\ Call(1, AppendEvent(1, insert) \o <<Link(i, born + 1)>>) => IInv'
<1> DEFINE index == Index({born + 1})
           link  == Link(i, born + 1)
<1>1. born \in Nat
  BY DEF IInv, TypeOK, LedgerTypeOK
<1>2. /\ insert \in LedgerStmt /\ insert.do = "insert"
      /\ index \in LedgerStmt /\ index.do = "index" /\ index.ids = {born + 1}
      /\ link \in LedgerStmt /\ link.do = "link"
  <2>1. insert \in LedgerStmt /\ insert.do = "insert"
    BY DEF LedgerStmt, InsertStmt
  <2>2. {born + 1} \in SUBSET Nat /\ born + 1 \in Nat
    BY <1>1
  <2>3. index \in LedgerStmt /\ index.do = "index" /\ index.ids = {born + 1}
    BY <2>2, IndexType
  <2>4. link \in LedgerStmt /\ link.do = "link"
    BY <2>2, LinkType
  <2> QED BY <2>1, <2>3, <2>4
<1>3. AppendEvent(1, insert) = <<insert, index>>
  BY DEF AppendEvent
<1>4. AppendEvent(1, insert) \o <<link>> = <<insert, index, link>>
  BY <1>3, TripleConcat
<1> HIDE DEF index, link
<1>5. <<insert, index>> \in Seq(LedgerStmt) /\ <<insert, index, link>> \in Seq(LedgerStmt)
  BY <1>2
<1>6. WellShaped(<<insert, index>>) /\ WellShaped(<<insert, index, link>>)
  <2>1. Len(<<insert, index>>) = 2 /\ Len(<<insert, index, link>>) = 3
    OBVIOUS
  <2>2. Fits(<<insert, index>>, 1) /\ Fits(<<insert, index>>, 2)
    BY <1>1, <1>2 DEF Fits
  <2>3. /\ Fits(<<insert, index, link>>, 1) /\ Fits(<<insert, index, link>>, 2)
        /\ Fits(<<insert, index, link>>, 3)
    BY <1>1, <1>2 DEF Fits
  <2> QED BY <2>1, <2>2, <2>3 DEF WellShaped
<1> QED BY <1>3, <1>4, <1>5, <1>6, CallStep DEF link

\* rememberTurnWithResult keeps the invariant.
LEMMA TurnStep ==
  ASSUME IInv, NEW p \in Projects, NEW t \in Threads, NEW said \in Bodies,
         NEW answered \in BOOLEAN, NEW given \in HostTurns \cup {NotGiven},
         RecordTurn(p, t, said, answered, given)
  PROVE  IInv'
<1> DEFINE by   == IF given = NotGiven THEN "ledger" ELSE "host"
           turn == IF given = NotGiven THEN NextTurnSeq(t) ELSE given
           u == born + 1
           ins1 == InsertOf(p, t, "user", said, turn, by, 0)
           ins2 == InsertOf(p, t, "assistant", "said", turn, by, u)
           idx1 == Index({born + 1})
           idx2 == Index({born + 2})
           link == Link(u, u + 1)
<1>1. born \in Nat /\ turn \in Nat /\ said \in Body
  BY NumbersFresh, BodiesAssumption, TurnsAssumption DEF IInv, TypeOK, LedgerTypeOK
<1>2. /\ ins1 \in LedgerStmt /\ ins1.do = "insert"
      /\ ins2 \in LedgerStmt /\ ins2.do = "insert"
  BY <1>1 DEF LedgerStmt, InsertStmt, InsertOf, Kind, Body
<1>3. /\ idx1 \in LedgerStmt /\ idx1.do = "index" /\ idx1.ids = {born + 1}
      /\ idx2 \in LedgerStmt /\ idx2.do = "index" /\ idx2.ids = {born + 2}
      /\ link \in LedgerStmt /\ link.do = "link"
  BY <1>1 DEF LedgerStmt, IndexStmt, LinkStmt, Index, Link
<1>4. CASE answered
  <2>1. Call(2, AppendEvent(1, ins1) \o AppendEvent(2, ins2) \o <<link>>)
    BY <1>4 DEF RecordTurn
  <2>2. AppendEvent(1, ins1) = <<ins1, idx1>> /\ AppendEvent(2, ins2) = <<ins2, idx2>>
    BY DEF AppendEvent
  <2> HIDE DEF ins1, ins2, idx1, idx2, link
  <2>3. Call(2, <<ins1, idx1, ins2, idx2, link>>)
    <3>1. <<ins1, idx1>> \o <<ins2, idx2>> \o <<link>> = <<ins1, idx1, ins2, idx2, link>>
      BY QuintConcat
    <3>2. Call(2, <<ins1, idx1>> \o <<ins2, idx2>> \o <<link>>)
      BY <2>1, <2>2
    <3> QED BY ONLY <3>1, <3>2
  <2>4. <<ins1, idx1, ins2, idx2, link>> \in Seq(LedgerStmt)
    BY <1>2, <1>3
  <2>5. WellShaped(<<ins1, idx1, ins2, idx2, link>>)
    BY <1>1, <1>2, <1>3 DEF WellShaped, Fits
  <2> QED BY <2>3, <2>4, <2>5, CallStep
<1>5. CASE ~answered
  <2>1. Call(1, AppendEvent(1, ins1))
    BY <1>5 DEF RecordTurn
  <2>2. ins1 \in InsertStmt
    BY <1>1 DEF InsertStmt, InsertOf, Kind
  <2> HIDE DEF ins1
  <2> QED BY <2>1, <2>2, OneAppend
<1> QED BY <1>4, <1>5

\* recordToolCall keeps the invariant.
LEMMA ToolCallStep ==
  ASSUME IInv, NEW p \in Projects, NEW t \in Threads, NEW a \in Live \cup {0},
         NEW turn \in HostTurn, RecordToolCall(p, t, a, turn)
  PROVE  IInv'
<1> DEFINE ins == InsertOf(p, t, "tool_call", "said", turn, "host", a)
<1>1. a \in Nat /\ turn \in Nat
  BY TurnsAssumption DEF HostTurn, IInv, TypeOK, LedgerTypeOK
<1>2. \/ Call(1, AppendEvent(1, ins))
      \/ Call(1, AppendEvent(1, ins) \o <<Link(a, born + 1)>>)
  BY DEF RecordToolCall
<1>3. ins \in InsertStmt
  BY <1>1 DEF InsertStmt, InsertOf, Kind, Body
<1> HIDE DEF ins
<1> QED BY <1>1, <1>2, <1>3, OneAppend

\* recordToolResult keeps the invariant.
LEMMA ToolResultStep ==
  ASSUME IInv, NEW p \in Projects, NEW t \in Threads, NEW c \in 1..born,
         NEW turn \in HostTurn, RecordToolResult(p, t, c, turn)
  PROVE  IInv'
<1> DEFINE ins == InsertOf(p, t, "tool_result", "said", turn, "host", c)
<1>1. c \in Nat /\ turn \in Nat
  BY TurnsAssumption DEF HostTurn, IInv, TypeOK, LedgerTypeOK
<1>2. Call(1, AppendEvent(1, ins) \o <<Link(c, born + 1)>>)
  BY DEF RecordToolResult
<1>3. ins \in InsertStmt
  BY <1>1 DEF InsertStmt, InsertOf, Kind, Body
<1> HIDE DEF ins
<1> QED BY <1>1, <1>2, <1>3, OneAppend

\* Every recorder keeps the invariant.
LEMMA RecordStep ==
  ASSUME IInv, Record
  PROVE  IInv'
<1>1. PICK p \in Projects :
        \/ \E t \in Threads, said \in Bodies, answered \in BOOLEAN,
              given \in HostTurns \cup {NotGiven} : RecordTurn(p, t, said, answered, given)
        \/ \E t \in Threads, turn \in HostTurn :
             \/ \E a \in Live \cup {0} : RecordToolCall(p, t, a, turn)
             \/ \E c \in 1..born : RecordToolResult(p, t, c, turn)
        \/ \E t \in Threads, i \in Live \cup {0}, turn \in HostTurn :
             RecordTaskEvent(p, t, i, turn)
        \/ \E t \in Threads, k \in {"user", "assistant"}, said \in Bodies, turn \in HostTurn :
             RecordImported(p, t, k, said, turn)
        \/ AppendInternal(p)
  BY DEF Record
<1>2. ASSUME NEW t \in Threads, NEW i \in Live \cup {0}, NEW turn \in HostTurn,
             RecordTaskEvent(p, t, i, turn)
      PROVE  IInv'
  <2>1. i \in Nat /\ turn \in Nat
    BY TurnsAssumption DEF HostTurn, IInv, TypeOK, LedgerTypeOK
  <2> DEFINE ins == InsertOf(p, t, "task", "said", turn, "host", i)
  <2>2. ins \in InsertStmt
    BY <2>1 DEF InsertStmt, InsertOf, Kind, Body
  <2>3. Call(1, AppendEvent(1, ins))
    BY <1>2 DEF RecordTaskEvent
  <2> HIDE DEF ins
  <2> QED BY <2>2, <2>3, OneAppend
<1>3. ASSUME AppendInternal(p) PROVE IInv'
  <2> DEFINE ins == InsertOf(p, NoThread, "internal", "blank", 0, "host", 0)
  <2>1. ins \in InsertStmt
    BY DEF InsertStmt, InsertOf, Kind, Body
  <2>2. Call(1, AppendEvent(1, ins))
    BY <1>3 DEF AppendInternal
  <2> HIDE DEF ins
  <2> QED BY <2>1, <2>2, OneAppend
<1>4. ASSUME NEW t \in Threads, NEW k \in {"user", "assistant"}, NEW said \in Bodies,
             NEW turn \in HostTurn, RecordImported(p, t, k, said, turn)
      PROVE  IInv'
  <2>1. turn \in Nat /\ said \in Body /\ k \in Kind
    BY TurnsAssumption, BodiesAssumption DEF HostTurn, Kind
  <2> DEFINE ins == InsertOf(p, t, k, said, turn, "host", 0)
  <2>2. ins \in InsertStmt
    BY <2>1 DEF InsertStmt, InsertOf
  <2>3. Call(1, AppendEvent(1, ins))
    BY <1>4 DEF RecordImported
  <2> HIDE DEF ins
  <2> QED BY <2>2, <2>3, OneAppend
<1> QED BY <1>1, <1>2, <1>3, <1>4, TurnStep, ToolCallStep, ToolResultStep

-----------------------------------------------------------------------------

\* What the head and the tail of the call in progress are.
LEMMA HeadTailFacts ==
  ASSUME todo \in Seq(LedgerStmt), todo # <<>>
  PROVE  /\ Len(todo) \in Nat \ {0}
         /\ Head(todo) = todo[1] /\ todo[1] \in LedgerStmt
         /\ Tail(todo) \in Seq(LedgerStmt)
         /\ Len(Tail(todo)) = Len(todo) - 1
         /\ \A k \in 1..(Len(todo) - 1) : Tail(todo)[k] = todo[k + 1]
<1>1. Len(todo) \in Nat \ {0} /\ Head(todo) = todo[1]
  BY EmptySeq
<1>2. /\ Head(todo) \in LedgerStmt
      /\ Tail(todo) \in Seq(LedgerStmt)
      /\ Len(Tail(todo)) = Len(todo) - 1
      /\ \A k \in 1..Len(Tail(todo)) : Tail(todo)[k] = todo[k + 1]
  BY HeadTailProperties
<1> QED BY <1>1, <1>2

\* A statement is of the kind its tag says.
LEMMA ShapeTypes ==
  ASSUME NEW s \in LedgerStmt
  PROVE  /\ s.do \in {"insert", "index", "link", "wipe"}
         /\ s.do = "insert" => s \in InsertStmt
         /\ s.do = "index" => s \in IndexStmt
         /\ s.do = "link" => s \in LinkStmt
BY DEF LedgerStmt, InsertStmt, IndexStmt, LinkStmt, WipeStmt

\* The INSERT keeps the invariant: its numbers are fresh, so the new row comes
\* last in both orders.
LEMMA InsertStep ==
  ASSUME IInv, Insert
  PROVE  IInv'
<1> DEFINE s == Head(todo)
           n == born + 1
           new == [project |-> s.project, thread |-> s.thread, kind |-> s.kind,
                   body |-> s.body, seq |-> NextGlobalSeq,
                   tseq |-> IF s.thread = NoThread THEN 0 ELSE NextThreadSeq(s.thread),
                   turn |-> s.turn, by |-> s.by, prev |-> s.prev, next |-> 0]
<1> USE DEF IInv
<1>1. /\ todo # <<>> /\ s.do = "insert"
      /\ rows' = [i \in Live \cup {n} |-> IF i = n THEN new ELSE rows[i]]
      /\ born' = n
      /\ peak' = Max({peak, NextGlobalSeq})
      /\ recycled' = IF NextGlobalSeq <= peak THEN recycled \cup {n} ELSE recycled
      /\ todo' = Tail(todo)
      /\ UNCHANGED <<fts, up, crashes, orphaned>>
  BY DEF Insert, Doing
<1>2. /\ Len(todo) \in Nat \ {0} /\ s = todo[1] /\ s \in InsertStmt
      /\ todo' \in Seq(LedgerStmt)
      /\ Len(todo') = Len(todo) - 1
      /\ \A k \in 1..(Len(todo) - 1) : todo'[k] = todo[k + 1]
  BY <1>1, HeadTailFacts, ShapeTypes DEF TypeOK, LedgerTypeOK
<1>3. n \notin Live /\ n \in Nat /\ n # 0 /\ \A i \in Live : i \in Nat /\ i < n
  BY DEF TypeOK, LedgerTypeOK
<1>4. /\ NextGlobalSeq \in Nat \ {0}
      /\ \A i \in Live : rows[i].seq < NextGlobalSeq
      /\ s.thread # NoThread =>
           /\ NextThreadSeq(s.thread) \in Nat \ {0}
           /\ \A i \in Live : rows[i].thread = s.thread =>
                rows[i].tseq < NextThreadSeq(s.thread)
  BY <1>2, NumbersFresh DEF InsertStmt, OfThread
<1>5. new \in Row
  BY <1>2, <1>4 DEF InsertStmt, Row
<1> HIDE DEF new, s
<1>6. Live' = Live \cup {n} /\ rows' \in [Live' -> Row]
  BY <1>1, <1>5 DEF Live, TypeOK, LedgerTypeOK
<1>7. peak' \in Nat
  <2>1. IsFiniteSet({peak, NextGlobalSeq}) /\ {peak, NextGlobalSeq} \in SUBSET Nat
    <3>1. IsFiniteSet({peak}) /\ {peak, NextGlobalSeq} = {peak} \cup {NextGlobalSeq}
      BY FS_Singleton
    <3>2. IsFiniteSet({peak} \cup {NextGlobalSeq})
      BY <3>1, FS_AddElement
    <3> QED BY <1>4, <3>1, <3>2 DEF TypeOK, LedgerTypeOK
  <2>2. Max({peak, NextGlobalSeq}) \in {peak, NextGlobalSeq}
    BY <2>1, MaxOfFinite
  <2> QED BY <1>1, <2>1, <2>2
<1>8. TypeOK'
  BY <1>1, <1>2, <1>3, <1>6, <1>7 DEF TypeOK, LedgerTypeOK
<1>9. WellShaped(todo)'
  <2> DEFINE L == Len(todo)
  <2>1. /\ L > 1 /\ todo[2].do = "index" /\ todo[2].ids = {n}
    <3>1. Fits(todo, 1) /\ todo[1].do = "insert"
      BY <1>1, <1>2 DEF WellShaped
    <3>2. L > 1 /\ todo[2].do = "index"
      BY <1>2, <3>1 DEF Fits
    <3>3. Fits(todo, 2)
      BY <1>2, <3>2 DEF WellShaped
    <3> QED BY <1>2, <3>1, <3>2, <3>3 DEF Fits
  <2>2. SUFFICES ASSUME NEW k \in 1..(L - 1)
                 PROVE  Fits(todo, k)'
    BY <1>2 DEF WellShaped
  <2>3. /\ k + 1 \in 1..L /\ todo'[k] = todo[k + 1] /\ Fits(todo, k + 1)
        /\ k < L - 1 => todo'[k + 1] = todo[k + 2]
        /\ k > 1 => todo'[k - 1] = todo[k]
    BY <1>2 DEF WellShaped
  <2>4. CASE k = 1
    <3>1. todo'[k].do = "index" /\ todo'[k].ids = {n}
      BY <2>1, <2>3, <2>4
    <3>2. {n} \subseteq Live' /\ {n} # {}
      BY <1>6
    <3> QED BY <2>4, <3>1, <3>2 DEF Fits
  <2>5. CASE k > 1
    <3>1. k = 2 => todo[k].do # "insert"
      BY <2>1
    <3>2. k \in Nat /\ k \in 1..L /\ Fits(todo, k)
      BY <2>5, <1>2 DEF WellShaped
    <3>3. /\ todo'[k].do = "insert" => /\ k <= 3 /\ k < L - 1
                                       /\ todo'[k + 1].do = "index"
                                       /\ todo'[k - 1].do = "index"
          /\ todo'[k].do # "wipe"
      <4>1. (k + 1) - 1 = k /\ (k + 1) + 1 = k + 2 /\ k + 1 # 1
        BY <2>5
      <4>2. todo[k + 1].do # "wipe"
        BY <2>3, <4>1 DEF Fits
      <4>3. todo[k + 1].do = "insert" =>
              /\ k + 1 <= 3 /\ k + 1 < L /\ todo[k + 2].do = "index"
              /\ k + 1 > 1 => todo[k].do = "index"
        BY <2>3, <4>1 DEF Fits
      <4> QED BY <1>2, <2>3, <2>5, <4>2, <4>3
    <3>4. ASSUME todo'[k].do = "index"
          PROVE  todo'[k - 1].do = "insert" /\ todo'[k].ids = {n + (k \div 2)}
      <4>1. todo[k].do = "insert" /\ todo[k + 1].ids = {born + ((k + 1) \div 2)}
        BY <2>3, <2>5, <3>2, <3>4 DEF Fits
      <4>2. k = 3
        BY <2>5, <3>1, <3>2, <4>1 DEF Fits
      <4>3. (k + 1) \div 2 = 2 /\ k \div 2 = 1
        BY <4>2
      <4> QED BY <2>3, <2>5, <4>1, <4>3 DEF TypeOK, LedgerTypeOK
    <3> QED BY <1>1, <1>2, <2>5, <3>2, <3>3, <3>4 DEF Fits
  <2> QED BY <2>4, <2>5
<1>10. ReplayOrder'
  <2> SUFFICES ASSUME NEW i \in Live', NEW j \in Live', i < j
               PROVE  /\ rows'[i].seq < rows'[j].seq
                      /\ rows'[i].thread = rows'[j].thread /\ rows'[i].thread # NoThread
                           => rows'[i].tseq < rows'[j].tseq
    BY DEF ReplayOrder, IsRaw
  <2>1. CASE j = n
    <3>1. i \in Live /\ rows'[i] = rows[i] /\ rows'[j] = new
      BY <1>1, <1>3, <1>6, <2>1
    <3> QED BY <1>4, <3>1 DEF new, s
  <2>2. CASE j # n
    <3>1. i \in Live /\ j \in Live /\ rows'[i] = rows[i] /\ rows'[j] = rows[j]
      BY <1>1, <1>3, <1>6, <2>2
    <3> QED BY <3>1 DEF ReplayOrder, IsRaw
  <2> QED BY <2>1, <2>2
<1> QED BY <1>8, <1>9, <1>10

\* A nonempty set of live rows has one with the least global_seq, the row the
\* rebuild indexes next.
LEMMA LeastBySeq ==
  ASSUME TypeOK, NEW S \in SUBSET Live, S # {}
  PROVE  \E i \in S : \A j \in S : rows[i].seq <= rows[j].seq
<1> DEFINE g == [i \in S |-> -rows[i].seq]
           T == {g[i] : i \in S}
<1>1. g \in [S -> Int]
  BY DEF TypeOK, LedgerTypeOK, Row
<1>2. IsFiniteSet(S)
  BY LiveFinite, FS_Subset
<1>3. IsFiniteSet(T) /\ T \in SUBSET Int /\ T # {}
  <2> HIDE DEF g
  <2> QED BY <1>1, <1>2, FiniteColumn
<1>4. Max(T) \in T /\ \A y \in T : y <= Max(T)
  <2> HIDE DEF T
  <2> QED BY <1>3, MaxOfFinite
<1>5. PICK i \in S : \A j \in S : g[j] <= g[i]
  BY <1>4
<1>6. \A j \in S : rows[i].seq <= rows[j].seq
  BY <1>5 DEF TypeOK, LedgerTypeOK, Row
<1> QED BY <1>6

\* Indexing one row keeps the invariant.
LEMMA IndexStep ==
  ASSUME IInv, IndexText
  PROVE  IInv'
<1> DEFINE S == Head(todo).ids
           i == CHOOSE i \in S : \A j \in S : rows[i].seq <= rows[j].seq
<1> USE DEF IInv
<1>1. /\ todo # <<>> /\ Head(todo).do = "index"
      /\ fts' = IF HasText(i) THEN fts \cup {i} ELSE fts \ {i}
      /\ todo' = IF S = {i} THEN Tail(todo) ELSE <<Index(S \ {i})>> \o Tail(todo)
      /\ UNCHANGED <<rows, up, born, crashes, orphaned, peak, recycled>>
  BY DEF IndexText, Doing, history
<1>2. /\ Len(todo) \in Nat \ {0} /\ Head(todo) = todo[1]
      /\ Tail(todo) \in Seq(LedgerStmt)
      /\ Len(Tail(todo)) = Len(todo) - 1
      /\ \A k \in 1..(Len(todo) - 1) : Tail(todo)[k] = todo[k + 1]
      /\ \A k \in 1..Len(todo) : todo[k] \in LedgerStmt /\ Fits(todo, k)
  BY <1>1, HeadTailFacts, ElementOfSeq DEF TypeOK, LedgerTypeOK, WellShaped
<1>3. todo[1].do = "index" /\ S \subseteq Live /\ S # {}
  BY <1>1, <1>2 DEF Fits
<1>4. i \in S /\ i \in Live
  BY <1>3, LeastBySeq
<1> HIDE DEF i, S
<1>5. fts' \subseteq 1..born'
  BY <1>1, <1>4 DEF TypeOK, LedgerTypeOK
<1>6. CASE S = {i}
  <2>1. ASSUME NEW k \in 1..(Len(todo) - 1)
        PROVE  Fits(todo', k)
    <3>1. /\ k \in Nat /\ k >= 1
          /\ (k + 1) - 1 = k /\ (k + 1) + 1 = k + 2 /\ k + 1 # 1 /\ k + 1 > 1
          /\ k + 1 \in 1..Len(todo) /\ k \in 1..Len(todo)
      BY <1>2
    <3>2. Fits(todo, k + 1) /\ Fits(todo, k)
      BY <1>2, <3>1
    <3>3. todo[k + 1].do = "insert" =>
            /\ k + 1 <= 3 /\ k + 1 < Len(todo)
            /\ todo[k + 2].do = "index" /\ todo[k].do = "index"
      BY <3>1, <3>2 DEF Fits
    <3>4. todo[k + 1].do # "wipe"
      BY <3>1, <3>2 DEF Fits
    <3>5. todo[k + 1].do = "index" =>
            todo[k].do = "insert" /\ todo[k + 1].ids = {born + ((k + 1) \div 2)}
      BY <1>3, <3>1, <3>2 DEF Fits
    <3>6. todo[k].do = "insert" => k \in {2, 3}
      BY <1>3, <3>1, <3>2 DEF Fits
    <3>7. ASSUME todo[k + 1].do = "index", k = 3
          PROVE  FALSE
      <4>1. todo[3].do = "insert" /\ Fits(todo, 3) /\ Fits(todo, 2) /\ 2 \in 1..Len(todo)
        BY <3>5, <3>7, <3>2, <1>2, <3>1
      <4>2. todo[2].do = "index"
        BY <4>1 DEF Fits
      <4> QED BY <1>3, <4>1, <4>2 DEF Fits
    <3>8. todo'[k] = todo[k + 1] /\ Len(todo') = Len(todo) - 1
      BY <1>1, <1>2, <1>6
    <3>9. k > 1 => todo'[k - 1] = todo[k]
      BY <1>1, <1>2, <1>6, <3>1
    <3>10. k < Len(todo) - 1 => todo'[k + 1] = todo[k + 2]
      BY <1>1, <1>2, <1>6, <3>1
    <3>11. todo[k + 1].do = "index" => k = 2 /\ todo[k + 1].ids = {born + 1}
      BY <3>1, <3>5, <3>6, <3>7
    <3>12. todo'[k].do = "insert" => /\ k <= 3 /\ k < Len(todo')
                                     /\ todo'[k + 1].do = "index"
                                     /\ k > 1 => todo'[k - 1].do = "index"
      BY <1>2, <3>1, <3>3, <3>8, <3>9, <3>10
    <3>13. todo'[k].do = "index" =>
             k > 1 /\ todo'[k - 1].do = "insert" /\ todo'[k].ids = {born + (k \div 2)}
      BY <3>5, <3>8, <3>9, <3>11 DEF TypeOK, LedgerTypeOK
    <3> QED BY <3>4, <3>8, <3>12, <3>13 DEF Fits
  <2>2. todo' \in Seq(LedgerStmt) /\ Len(todo') = Len(todo) - 1
    BY <1>1, <1>2, <1>6
  <2>3. WellShaped(todo)'
    BY <1>1, <2>1, <2>2 DEF WellShaped, Fits, Live
  <2> QED BY <1>1, <1>5, <2>2, <2>3 DEF TypeOK, LedgerTypeOK, ReplayOrder, Live, IsRaw
<1>7. CASE S # {i}
  <2> DEFINE s == Index(S \ {i})
  <2>1. s \in LedgerStmt /\ s.do = "index" /\ s.ids = S \ {i}
    BY <1>3, IndexType DEF TypeOK, LedgerTypeOK
  <2>2. S \ {i} # {} /\ S \ {i} \subseteq Live
    BY <1>3, <1>4, <1>7
  <2> HIDE DEF s
  <2>3. /\ todo' \in Seq(LedgerStmt) /\ Len(todo') = Len(todo) /\ todo'[1] = s
        /\ \A k \in 2..Len(todo) : todo'[k] = todo[k]
    BY <1>1, <1>2, <1>7, <2>1 DEF s
  <2>4. ASSUME NEW k \in 1..Len(todo)
        PROVE  Fits(todo', k)
    <3>1. CASE k = 1
      BY <2>1, <2>2, <2>3, <3>1 DEF Fits
    <3>2. CASE k > 1
      <4>1. /\ todo'[k] = todo[k] /\ Fits(todo, k)
            /\ k < Len(todo) => todo'[k + 1] = todo[k + 1]
        BY <1>2, <2>3, <3>2
      <4>2. todo'[k - 1].do = todo[k - 1].do /\ todo'[1].do = todo[1].do
        BY <1>3, <2>1, <2>3, <3>2
      <4> QED BY <1>2, <2>3, <3>2, <4>1, <4>2 DEF Fits
    <3> QED BY <3>1, <3>2
  <2>5. WellShaped(todo)'
    BY <1>1, <2>3, <2>4 DEF WellShaped, Fits, Live
  <2> QED BY <1>1, <1>5, <2>3, <2>5 DEF TypeOK, LedgerTypeOK, ReplayOrder, Live, IsRaw
<1> QED BY <1>6, <1>7

\* updateNextEventId keeps the invariant: it touches no number.
LEMMA LinkStep ==
  ASSUME IInv, LinkNext
  PROVE  IInv'
<1> DEFINE s == Head(todo)
<1> USE DEF IInv
<1>1. /\ todo # <<>> /\ s.do = "link"
      /\ rows' = [i \in Live |-> IF i = s.id THEN [rows[i] EXCEPT !.next = s.to]
                                             ELSE rows[i]]
      /\ todo' = Tail(todo)
      /\ UNCHANGED <<fts, up, born, crashes, orphaned, peak, recycled>>
  BY DEF LinkNext, Doing, history
<1>2. /\ Len(todo) \in Nat \ {0} /\ s = todo[1] /\ s \in LinkStmt
      /\ todo' \in Seq(LedgerStmt)
      /\ Len(todo') = Len(todo) - 1
      /\ \A k \in 1..(Len(todo) - 1) : todo'[k] = todo[k + 1]
      /\ \A k \in 1..Len(todo) : todo[k] \in LedgerStmt /\ Fits(todo, k)
  BY <1>1, HeadTailFacts, ShapeTypes, ElementOfSeq DEF TypeOK, LedgerTypeOK, WellShaped
<1>3. /\ Live' = Live
      /\ \A i \in Live : /\ rows'[i] \in Row
                         /\ rows'[i].seq = rows[i].seq /\ rows'[i].tseq = rows[i].tseq
                         /\ rows'[i].thread = rows[i].thread
  <2> HIDE DEF s
  <2>1. s.to \in Nat
    BY <1>2 DEF LinkStmt
  <2> QED BY <1>1, <2>1 DEF TypeOK, LedgerTypeOK, Row, Live
<1>4. TypeOK'
  BY <1>1, <1>2, <1>3 DEF TypeOK, LedgerTypeOK, Live
<1>5. ASSUME NEW k \in 2..Len(todo)
      PROVE  todo[k].do = "link"
  <2>1. todo[2].do = "link" \/ Len(todo) < 2
    <3>1. Fits(todo, 1) /\ (Len(todo) >= 2 => Fits(todo, 2) /\ todo[2] \in LedgerStmt)
      BY <1>2
    <3> QED BY <1>1, <1>2, <3>1, ShapeTypes DEF Fits
  <2>2. (todo[3].do # "insert" /\ todo[3].do # "index") \/ Len(todo) < 3
    <3>1. Len(todo) >= 3 => Fits(todo, 3)
      BY <1>2
    <3> QED BY <1>2, <2>1, <3>1 DEF Fits
  <2>3. Fits(todo, k) /\ todo[k] \in LedgerStmt /\ k \in Nat /\ k - 1 \in 1..Len(todo)
    BY <1>2
  <2>4. Fits(todo, k - 1)
    BY <1>2, <2>3
  <2>5. todo[k].do # "insert" /\ todo[k].do # "wipe"
    BY <1>1, <1>2, <2>1, <2>2, <2>3 DEF Fits
  <2>6. todo[k - 1].do # "insert"
    BY <1>1, <1>2, <2>1, <2>2, <2>3, <2>4 DEF Fits
  <2>7. todo[k].do # "index"
    BY <1>1, <1>2, <2>3, <2>6 DEF Fits
  <2> QED BY <2>3, <2>5, <2>7, ShapeTypes
<1>6. WellShaped(todo)'
  BY <1>1, <1>2, <1>5 DEF WellShaped, Fits
<1>7. ReplayOrder'
  BY <1>3 DEF ReplayOrder, IsRaw
<1> QED BY <1>4, <1>6, <1>7

\* Emptying the index keeps the invariant.
LEMMA WipeStep ==
  ASSUME IInv, WipeIndex
  PROVE  IInv'
<1> USE DEF IInv
<1>1. /\ todo # <<>> /\ Head(todo).do = "wipe"
      /\ fts' = {} /\ orphaned' = FALSE /\ todo' = Tail(todo)
      /\ UNCHANGED <<rows, up, born, crashes, peak, recycled>>
  BY DEF WipeIndex, Doing, history
<1>2. /\ Len(todo) \in Nat \ {0} /\ Head(todo) = todo[1]
      /\ todo' \in Seq(LedgerStmt)
      /\ Len(todo') = Len(todo) - 1
      /\ \A k \in 1..(Len(todo) - 1) : todo'[k] = todo[k + 1]
      /\ \A k \in 1..Len(todo) : todo[k] \in LedgerStmt /\ Fits(todo, k)
  BY <1>1, HeadTailFacts, ElementOfSeq DEF TypeOK, LedgerTypeOK, WellShaped
<1>3. Len(todo) = 2
  BY <1>1, <1>2 DEF Fits
<1>4. /\ Len(todo') = 1 /\ todo'[1] = todo[2] /\ todo[2].do \notin {"insert", "wipe"}
      /\ todo[2].do = "index" => todo[2].ids \subseteq Live /\ todo[2].ids # {}
  <2>1. Fits(todo, 2)
    BY <1>2, <1>3
  <2> QED BY <1>1, <1>2, <1>3, <2>1 DEF Fits
<1>5. WellShaped(todo)'
  <2>1. Fits(todo, 1)'
    BY <1>1, <1>4 DEF Fits, Live
  <2> QED BY <1>4, <2>1 DEF WellShaped
<1> QED BY <1>1, <1>2, <1>5 DEF TypeOK, LedgerTypeOK, ReplayOrder, Live, IsRaw

\* A privacy deletion keeps the invariant: the rows left keep their order.
LEMMA ForgetStep ==
  ASSUME IInv, NEW p, ForgetUser(p)
  PROVE  IInv'
<1> DEFINE K == {i \in Live : rows[i].project # p}
<1> USE DEF IInv
<1>1. /\ rows' = [i \in K |-> rows[i]]
      /\ orphaned' = TRUE /\ todo = <<>>
      /\ UNCHANGED <<fts, todo, up, born, crashes, peak, recycled>>
  BY DEF ForgetUser, Idle, history, Restrict
<1>2. Live' = K /\ K \subseteq Live /\ \A i \in K : rows'[i] = rows[i]
  BY <1>1 DEF Live
<1> HIDE DEF K
<1>3. TypeOK'
  BY <1>1, <1>2 DEF TypeOK, LedgerTypeOK
<1>4. ReplayOrder'
  BY <1>2 DEF ReplayOrder, IsRaw
<1>5. WellShaped(todo)'
  BY <1>1 DEF WellShaped
<1> QED BY <1>3, <1>4, <1>5

\* A crash establishes the invariant again whatever call it cut: no statement
\* is left, and the order of the rows was right after each of them.
LEMMA CrashStep ==
  ASSUME LedgerTypeOK, ReplayOrder, Crash
  PROVE  IInv'
<1>1. todo' = <<>> /\ up' = FALSE /\ crashes' = crashes + 1
      /\ UNCHANGED <<rows, fts, born, orphaned, peak, recycled>>
  BY DEF Crash, history
<1>2. todo' \in Seq(LedgerStmt) /\ WellShaped(todo)'
  BY <1>1 DEF WellShaped
<1>3. LedgerTypeOK'
  <2>1. Live' = Live
    BY <1>1 DEF Live
  <2>2. up' \in BOOLEAN /\ orphaned' \in BOOLEAN /\ crashes' \in Nat
    <3>1. up \in BOOLEAN /\ orphaned \in BOOLEAN
      BY DEF LedgerTypeOK
    <3>2. up' \in BOOLEAN /\ orphaned' \in BOOLEAN
      BY ONLY <1>1, <3>1, Zenon
    <3>3. crashes' \in Nat
      BY <1>1 DEF LedgerTypeOK
    <3> QED BY <3>2, <3>3
  <2>3. /\ rows' \in [Live' -> Row] /\ Live' \subseteq 1..born' /\ fts' \subseteq 1..born'
        /\ born' \in Nat /\ peak' \in Nat /\ recycled' \subseteq 1..born'
    BY <1>1, <2>1 DEF LedgerTypeOK
  <2> QED BY <2>2, <2>3 DEF LedgerTypeOK
<1> QED BY <1>1, <1>2, <1>3 DEF IInv, TypeOK, ReplayOrder, Live, IsRaw

\* Opening the store keeps the invariant, with or without a rebuild.
LEMMA OpenStep ==
  ASSUME IInv, Open
  PROVE  IInv'
<1> USE DEF IInv
<1>1. /\ up' = TRUE
      /\ UNCHANGED <<rows, fts, born, crashes, orphaned, peak, recycled>>
  BY DEF Open, history
<1>2. CASE Cardinality(fts) >= Cardinality(Live)
  <2>1. todo' = <<>>
    BY <1>2 DEF Open
  <2> QED BY <1>1, <2>1 DEF TypeOK, LedgerTypeOK, WellShaped, ReplayOrder, Live, IsRaw
<1>3. CASE ~(Cardinality(fts) >= Cardinality(Live))
  <2>1. todo' = <<Wipe, Index(Live)>>
    BY <1>3 DEF Open
  <2>2. Live # {}
    <3>1. IsFiniteSet(fts) /\ IsFiniteSet(1..born)
      <4>1. IsFiniteSet(1..born)
        BY FS_Interval DEF TypeOK, LedgerTypeOK
      <4> QED BY <4>1, FS_Subset DEF TypeOK, LedgerTypeOK
    <3>2. Cardinality(fts) \in Nat
      BY <3>1, FS_CardinalityType
    <3>3. Live = {} => Cardinality(Live) = 0
      BY FS_EmptySet
    <3> QED BY <1>3, <3>2, <3>3
  <2>3. /\ Wipe \in LedgerStmt /\ Wipe.do = "wipe"
        /\ Index(Live) \in LedgerStmt /\ Index(Live).do = "index" /\ Index(Live).ids = Live
    BY IndexType DEF TypeOK, LedgerTypeOK, LedgerStmt, WipeStmt, Wipe
  <2> DEFINE w == Wipe
             x == Index(Live)
  <2>4. todo' = <<w, x>>
    BY <2>1
  <2> HIDE DEF w, x
  <2>5. Len(<<w, x>>) = 2 /\ <<w, x>> \in Seq(LedgerStmt)
    BY <2>3 DEF w, x
  <2>6. Fits(<<w, x>>, 1) /\ Fits(<<w, x>>, 2)
    BY <2>2, <2>3 DEF Fits, w, x
  <2>7. WellShaped(<<w, x>>)
    BY <2>5, <2>6 DEF WellShaped
  <2> QED BY <1>1, <2>4, <2>5, <2>7 DEF TypeOK, LedgerTypeOK, WellShaped, Fits, ReplayOrder, Live, IsRaw
<1> QED BY <1>2, <1>3

-----------------------------------------------------------------------------

\* Every step of the ledger keeps the invariant.
LEMMA LedgerPreserves ==
  ASSUME IInv, [LedgerNext]_ledgerVars
  PROVE  IInv'
<1>1. CASE Record
  BY <1>1, RecordStep
<1>2. CASE Statement
  BY <1>2, InsertStep, IndexStep, LinkStep, WipeStep DEF Statement
<1>3. CASE \E p \in Forgettable : ForgetUser(p)
  BY <1>3, ForgetStep
<1>4. CASE Crash
  BY <1>4, CrashStep DEF IInv, TypeOK
<1>5. CASE Open
  BY <1>5, OpenStep
<1>6. CASE UNCHANGED ledgerVars
  BY <1>6 DEF IInv, TypeOK, LedgerTypeOK, WellShaped, Fits, ReplayOrder, Live, IsRaw, ledgerVars, history
<1> QED BY <1>1, <1>2, <1>3, <1>4, <1>5, <1>6 DEF LedgerNext

\* The empty ledger satisfies the invariant.
LEMMA LedgerStart == LedgerInit => IInv
<1> SUFFICES ASSUME LedgerInit PROVE IInv
  OBVIOUS
<1>1. Live = {} /\ todo = <<>> /\ born = 0 /\ fts = {} /\ recycled = {}
      /\ up = TRUE /\ crashes = 0 /\ orphaned = FALSE /\ peak = 0
  BY DEF LedgerInit, Live
<1>2. todo \in Seq(LedgerStmt) /\ WellShaped(todo)
  BY <1>1 DEF WellShaped
<1>3. rows \in [Live -> Row]
  BY <1>1 DEF LedgerInit
<1>4. TypeOK
  BY <1>1, <1>2, <1>3 DEF TypeOK, LedgerTypeOK
<1> QED BY <1>1, <1>2, <1>4 DEF IInv, ReplayOrder

\* The inductive invariant holds in every reachable state.
THEOREM LedgerInvariant == LedgerSpec => []IInv
BY LedgerStart, LedgerPreserves, PTL DEF LedgerSpec

\* Type correctness of the ledger: rows, index and the statements of the call
\* in progress, through every recorder, deletion, crash and restart.
THEOREM LedgerTypes == LedgerSpec => []TypeOK
BY LedgerInvariant, PTL DEF IInv

\* Replay by global_seq and by thread_seq is the order of recording, whatever
\* projects were deleted and wherever crashes cut the calls
\* (getNextGlobalSeq, getNextThreadSeq).
THEOREM LedgerReplay == LedgerSpec => []ReplayOrder
BY LedgerInvariant, PTL DEF IInv

-----------------------------------------------------------------------------
(* Links, turns and the search index. *)

\* A turn number no event of the thread has yet.
FreshTurn(t, n) == \A i \in OfThread(t) : rows[i].turn < n

\* The INSERT of a reply: an imported message answers none.
Answers(s) == s.kind = "assistant" /\ s.prev # 0

\* What the k-th statement left in a call will do to the links and the turns.
\* A link comes last and joins the event the last INSERT makes, or has made, to
\* the one it names as its previous.  A reply's INSERT is the second of its
\* call: the user's, with the same turn, comes or came just before it.  A number
\* the ledger gave is new to the thread.
LinkPlanned(s, k) ==
  s[k].do = "link" =>
    /\ k = Len(s) /\ s[k].to = born + ((k - 1) \div 2) /\ s[k].id < s[k].to
    /\ k <= 2 => born \in Live /\ rows[born].prev = s[k].id
    /\ k > 2 => s[k - 2].do = "insert" /\ s[k - 2].prev = s[k].id

InsertPlanned(s, k) ==
  s[k].do = "insert" =>
    /\ ~ Answers(s[k]) => k = 1 /\ s[k].prev <= born
    /\ ~ Answers(s[k]) /\ s[k].by = "ledger" => FreshTurn(s[k].thread, s[k].turn)
    /\ Answers(s[k]) /\ k > 2 =>
         /\ k = 3 /\ s[1].do = "insert" /\ s[1].kind = "user" /\ s[1].by = s[k].by
         /\ s[1].thread = s[k].thread /\ s[1].turn = s[k].turn /\ s[k].prev = born + 1
    /\ Answers(s[k]) /\ k <= 2 =>
         /\ s[k].prev = born
         /\ born \in Live /\ rows[born].kind = "user"
         /\ rows[born].thread = s[k].thread /\ rows[born].turn = s[k].turn
         /\ s[k].by = "ledger" =>
              \A i \in OfThread(s[k].thread) \ {born} : rows[i].turn < s[k].turn

Planned(s) == \A k \in 1..Len(s) : LinkPlanned(s, k) /\ InsertPlanned(s, k)

\* The links of a row lead to events inserted by now, the backward one to an
\* earlier one.
RowsOrderly == \A i \in Live : rows[i].prev < i /\ rows[i].next <= born

Texts == {i \in Live : HasText(i)}

\* The rows that the statement at hand has still to index.
Unindexed == IF todo # <<>> /\ todo[1].do = "index" THEN todo[1].ids ELSE {}

\* Unless rows were deleted under it, the index names events with text only and
\* lacks none but those the statement at hand will add; a rebuild, which wipes
\* the index first, then goes through all rows.
Searchable ==
  /\ ~orphaned => fts \subseteq Texts
  /\ ~orphaned /\ up /\ (todo = <<>> \/ todo[1].do # "wipe") => Texts \ Unindexed \subseteq fts
  /\ todo # <<>> /\ todo[1].do = "wipe" => todo[2].do = "index" /\ todo[2].ids = Live

\* The inductive invariant of the links, the turns and the index.
LInv == Planned(todo) /\ RowsOrderly /\ LinksAgree /\ TurnWhole /\ Searchable

\* What TypeOK says of one row.
LEMMA RowTypes ==
  ASSUME TypeOK
  PROVE  /\ born \in Nat /\ Live \subseteq 1..born /\ 0 \notin Live
         /\ \A i \in Live : /\ rows[i] \in Row /\ i \in Nat
                            /\ rows[i].turn \in Nat /\ rows[i].prev \in Nat /\ rows[i].next \in Nat
BY DEF TypeOK, LedgerTypeOK, Row

\* A call of one append plans rightly, with or without a link to it.
LEMMA OnePlanned ==
  ASSUME TypeOK, NEW insert \in InsertStmt, ~ Answers(insert), insert.prev <= born,
         insert.by = "ledger" => FreshTurn(insert.thread, insert.turn)
  PROVE  /\ Planned(<<insert, Index({born + 1})>>)
         /\ Planned(<<insert, Index({born + 1}), Link(insert.prev, born + 1)>>)
<1> DEFINE index == Index({born + 1})
           link  == Link(insert.prev, born + 1)
<1>1. /\ insert.do = "insert" /\ index.do = "index" /\ insert.prev \in Nat
      /\ link.do = "link" /\ link.id = insert.prev /\ link.to = born + 1
  BY DEF InsertStmt, Index, Link
<1>2. born \in Nat
  BY RowTypes
<1> HIDE DEF index, link
<1>3. Len(<<insert, index>>) = 2 /\ Len(<<insert, index, link>>) = 3
  OBVIOUS
<1>4. \A k \in 1..2 : LinkPlanned(<<insert, index>>, k) /\ InsertPlanned(<<insert, index>>, k)
  BY <1>1 DEF LinkPlanned, InsertPlanned
<1>5. \A k \in 1..3 : InsertPlanned(<<insert, index, link>>, k)
  BY <1>1 DEF InsertPlanned
<1>6. \A k \in 1..2 : LinkPlanned(<<insert, index, link>>, k)
  BY <1>1 DEF LinkPlanned
<1>7. LinkPlanned(<<insert, index, link>>, 3)
  <2>1. (3 - 1) \div 2 = 1 /\ insert.prev < born + 1
    BY <1>1, <1>2
  <2> QED BY <1>1, <1>2, <2>1 DEF LinkPlanned
<1>8. \A k \in 1..3 : LinkPlanned(<<insert, index, link>>, k)
  BY <1>6, <1>7
<1> QED BY <1>3, <1>4, <1>5, <1>8 DEF Planned, index, link

\* Starting a call that plans rightly keeps the invariant.
LEMMA CallPlans ==
  ASSUME LInv, NEW n, NEW stmts \in Seq(LedgerStmt), stmts # <<>>, stmts[1].do = "insert",
         Planned(stmts), Call(n, stmts)
  PROVE  LInv'
<1>1. /\ todo = <<>> /\ up = TRUE /\ up' = up /\ todo' = stmts
      /\ UNCHANGED <<rows, fts, born, orphaned>>
  BY DEF Call, Idle, history
<1>2. Planned(todo)'
  BY <1>1 DEF Planned, LinkPlanned, InsertPlanned, Answers, FreshTurn, OfThread, Live
<1>3. RowsOrderly' /\ LinksAgree' /\ TurnWhole'
  BY <1>1 DEF LInv, RowsOrderly, LinksAgree, TurnWhole, OfThread, Live
<1>4. Unindexed = {} /\ Unindexed' = {}
  BY <1>1 DEF Unindexed
<1>5. Texts' = Texts /\ Live' = Live
  BY <1>1 DEF Texts, HasText, Live
<1>6. Searchable'
  BY <1>1, <1>4, <1>5 DEF LInv, Searchable
<1> QED BY <1>2, <1>3, <1>6 DEF LInv

\* A call of one append keeps the invariant.
LEMMA OneAppendPlans ==
  ASSUME IInv, LInv, NEW insert \in InsertStmt, ~ Answers(insert), insert.prev <= born,
         insert.by = "ledger" => FreshTurn(insert.thread, insert.turn)
  PROVE  /\ Call(1, AppendEvent(1, insert)) => LInv'
         /\ Call(1, AppendEvent(1, insert) \o <<Link(insert.prev, born + 1)>>) => LInv'
<1> DEFINE index == Index({born + 1})
           link  == Link(insert.prev, born + 1)
<1>1. TypeOK /\ born \in Nat /\ insert.prev \in Nat
  BY RowTypes DEF IInv, InsertStmt
<1>2. /\ insert \in LedgerStmt /\ index \in LedgerStmt /\ link \in LedgerStmt
      /\ insert.do = "insert"
  <2>1. insert \in LedgerStmt /\ insert.do = "insert"
    BY DEF LedgerStmt, InsertStmt
  <2>2. {born + 1} \in SUBSET Nat /\ born + 1 \in Nat
    BY <1>1
  <2> QED BY <1>1, <2>1, <2>2, IndexType, LinkType
<1>3. Planned(<<insert, index>>) /\ Planned(<<insert, index, link>>)
  BY <1>1, OnePlanned
<1>4. AppendEvent(1, insert) = <<insert, index>>
  BY DEF AppendEvent
<1>5. AppendEvent(1, insert) \o <<link>> = <<insert, index, link>>
  BY <1>4, TripleConcat
<1> HIDE DEF index, link
<1>6. /\ <<insert, index>> \in Seq(LedgerStmt) /\ <<insert, index, link>> \in Seq(LedgerStmt)
      /\ <<insert, index>> # <<>> /\ <<insert, index, link>> # <<>>
      /\ <<insert, index>>[1] = insert /\ <<insert, index, link>>[1] = insert
  BY <1>2
<1> QED BY <1>2, <1>3, <1>4, <1>5, <1>6, CallPlans DEF link

\* rememberTurnWithResult plans a whole turn, linked as recorded.
LEMMA TurnPlans ==
  ASSUME IInv, LInv, NEW p \in Projects, NEW t \in Threads, NEW said \in Bodies,
         NEW answered \in BOOLEAN, NEW given \in HostTurns \cup {NotGiven},
         RecordTurn(p, t, said, answered, given)
  PROVE  LInv'
<1> DEFINE by   == IF given = NotGiven THEN "ledger" ELSE "host"
           turn == IF given = NotGiven THEN NextTurnSeq(t) ELSE given
           u == born + 1
           ins1 == InsertOf(p, t, "user", said, turn, by, 0)
           ins2 == InsertOf(p, t, "assistant", "said", turn, by, u)
           idx1 == Index({born + 1})
           idx2 == Index({born + 2})
           link == Link(u, u + 1)
<1>1. born \in Nat /\ turn \in Nat /\ said \in Body /\ (by = "ledger" => FreshTurn(t, turn))
  BY NumbersFresh, BodiesAssumption, TurnsAssumption DEF IInv, TypeOK, LedgerTypeOK, FreshTurn
<1>2. ins1 \in InsertStmt /\ ins2 \in InsertStmt
  BY <1>1 DEF InsertStmt, InsertOf, Kind, Body
<1>3. /\ ins1.do = "insert" /\ ins1.kind = "user" /\ ins1.thread = t /\ ins1.turn = turn
      /\ ins1.by = by /\ ins1.prev = 0 /\ ~ Answers(ins1)
      /\ ins2.do = "insert" /\ ins2.kind = "assistant" /\ ins2.thread = t /\ ins2.turn = turn
      /\ ins2.by = by /\ ins2.prev = born + 1 /\ Answers(ins2)
  BY <1>1 DEF InsertOf, Answers
<1>4. /\ idx1.do = "index" /\ idx2.do = "index"
      /\ link.do = "link" /\ link.id = born + 1 /\ link.to = (born + 1) + 1
  BY DEF Index, Link
<1>5. /\ ins1 \in LedgerStmt /\ ins2 \in LedgerStmt /\ idx1 \in LedgerStmt /\ idx2 \in LedgerStmt
      /\ link \in LedgerStmt
  <2>1. ins1 \in LedgerStmt /\ ins2 \in LedgerStmt
    BY <1>2 DEF LedgerStmt
  <2>2. /\ {born + 1} \in SUBSET Nat /\ {born + 2} \in SUBSET Nat
        /\ born + 1 \in Nat /\ (born + 1) + 1 \in Nat
    BY <1>1
  <2> QED BY <2>1, <2>2, IndexType, LinkType
<1>6. CASE answered
  <2>1. Call(2, AppendEvent(1, ins1) \o AppendEvent(2, ins2) \o <<link>>)
    BY <1>6 DEF RecordTurn
  <2>2. AppendEvent(1, ins1) = <<ins1, idx1>> /\ AppendEvent(2, ins2) = <<ins2, idx2>>
    BY DEF AppendEvent
  <2> HIDE DEF ins1, ins2, idx1, idx2, link, turn, by
  <2> DEFINE s == <<ins1, idx1, ins2, idx2, link>>
  <2>3. Call(2, s)
    <3>1. <<ins1, idx1>> \o <<ins2, idx2>> \o <<link>> = s
      BY QuintConcat
    <3>2. Call(2, <<ins1, idx1>> \o <<ins2, idx2>> \o <<link>>)
      BY <2>1, <2>2
    <3> QED BY ONLY <3>1, <3>2
  <2>4. s \in Seq(LedgerStmt) /\ s # <<>> /\ Len(s) = 5
    BY <1>5
  <2>5. s[1] = ins1 /\ s[2] = idx1 /\ s[3] = ins2 /\ s[4] = idx2 /\ s[5] = link
    OBVIOUS
  <2> HIDE DEF s
  <2>6. \A k \in 1..4 : LinkPlanned(s, k)
    BY <1>3, <1>4, <2>5 DEF LinkPlanned
  <2>7. LinkPlanned(s, 5)
    <3>1. (5 - 1) \div 2 = 2 /\ (born + 1) + 1 = born + 2 /\ born + 1 < (born + 1) + 1
      BY <1>1
    <3> QED BY <1>1, <1>3, <1>4, <2>4, <2>5, <3>1 DEF LinkPlanned
  <2>8. InsertPlanned(s, 1)
    BY <1>1, <1>3, <2>5 DEF InsertPlanned
  <2>9. InsertPlanned(s, 2) /\ InsertPlanned(s, 4) /\ InsertPlanned(s, 5)
    BY <1>4, <2>5 DEF InsertPlanned
  <2>10. InsertPlanned(s, 3)
    BY <1>3, <2>5 DEF InsertPlanned
  <2>11. Planned(s)
    BY <2>4, <2>6, <2>7, <2>8, <2>9, <2>10 DEF Planned
  <2> QED BY <1>3, <2>3, <2>4, <2>5, <2>11, CallPlans
<1>7. CASE ~answered
  <2>1. Call(1, AppendEvent(1, ins1))
    BY <1>7 DEF RecordTurn
  <2> HIDE DEF ins1, turn, by
  <2>2. ins1.prev <= born
    BY <1>1, <1>3
  <2> QED BY <1>1, <1>2, <1>3, <2>1, <2>2, OneAppendPlans
<1> QED BY <1>6, <1>7

\* recordToolCall and recordToolResult link the event they name to theirs.
LEMMA ToolPlans ==
  ASSUME IInv, LInv, NEW p \in Projects, NEW t \in Threads
  PROVE  \A turn \in HostTurn :
           /\ \A a \in Live \cup {0} : RecordToolCall(p, t, a, turn) => LInv'
           /\ \A c \in 1..born : RecordToolResult(p, t, c, turn) => LInv'
<1> TAKE turn \in HostTurn
<1>1. born \in Nat /\ Live \subseteq 1..born /\ turn \in Nat
  BY RowTypes, TurnsAssumption DEF IInv, HostTurn
<1>2. ASSUME NEW a \in Live \cup {0}, RecordToolCall(p, t, a, turn) PROVE LInv'
  <2> DEFINE ins == InsertOf(p, t, "tool_call", "said", turn, "host", a)
  <2>1. a \in Nat /\ a <= born
    BY <1>1
  <2>2. \/ Call(1, AppendEvent(1, ins))
        \/ Call(1, AppendEvent(1, ins) \o <<Link(a, born + 1)>>)
    BY <1>2 DEF RecordToolCall
  <2>3. ins \in InsertStmt /\ ~ Answers(ins) /\ ins.by = "host" /\ ins.prev = a
    BY <1>1, <2>1 DEF InsertStmt, InsertOf, Kind, Body, Answers
  <2> HIDE DEF ins
  <2> QED BY <2>1, <2>2, <2>3, OneAppendPlans
<1>3. ASSUME NEW c \in 1..born, RecordToolResult(p, t, c, turn) PROVE LInv'
  <2> DEFINE ins == InsertOf(p, t, "tool_result", "said", turn, "host", c)
  <2>1. c \in Nat /\ c <= born
    BY <1>1
  <2>2. Call(1, AppendEvent(1, ins) \o <<Link(c, born + 1)>>)
    BY <1>3 DEF RecordToolResult
  <2>3. ins \in InsertStmt /\ ~ Answers(ins) /\ ins.by = "host" /\ ins.prev = c
    BY <1>1, <2>1 DEF InsertStmt, InsertOf, Kind, Body, Answers
  <2> HIDE DEF ins
  <2> QED BY <2>1, <2>2, <2>3, OneAppendPlans
<1> QED BY <1>2, <1>3

\* Every recorder keeps the invariant.
LEMMA RecordPlans ==
  ASSUME IInv, LInv, Record
  PROVE  LInv'
<1>1. PICK p \in Projects :
        \/ \E t \in Threads, said \in Bodies, answered \in BOOLEAN,
              given \in HostTurns \cup {NotGiven} : RecordTurn(p, t, said, answered, given)
        \/ \E t \in Threads, turn \in HostTurn :
             \/ \E a \in Live \cup {0} : RecordToolCall(p, t, a, turn)
             \/ \E c \in 1..born : RecordToolResult(p, t, c, turn)
        \/ \E t \in Threads, i \in Live \cup {0}, turn \in HostTurn :
             RecordTaskEvent(p, t, i, turn)
        \/ \E t \in Threads, k \in {"user", "assistant"}, said \in Bodies, turn \in HostTurn :
             RecordImported(p, t, k, said, turn)
        \/ AppendInternal(p)
  BY DEF Record
<1>2. born \in Nat /\ Live \subseteq 1..born
  BY RowTypes DEF IInv
<1>3. ASSUME NEW t \in Threads, NEW i \in Live \cup {0}, NEW turn \in HostTurn,
             RecordTaskEvent(p, t, i, turn)
      PROVE  LInv'
  <2>1. i \in Nat /\ i <= born /\ turn \in Nat
    BY <1>2, TurnsAssumption DEF HostTurn
  <2> DEFINE ins == InsertOf(p, t, "task", "said", turn, "host", i)
  <2>2. ins \in InsertStmt /\ ~ Answers(ins) /\ ins.by = "host" /\ ins.prev = i
    BY <2>1 DEF InsertStmt, InsertOf, Kind, Body, Answers
  <2>3. Call(1, AppendEvent(1, ins))
    BY <1>3 DEF RecordTaskEvent
  <2> HIDE DEF ins
  <2> QED BY <2>1, <2>2, <2>3, OneAppendPlans
<1>4. ASSUME AppendInternal(p) PROVE LInv'
  <2> DEFINE ins == InsertOf(p, NoThread, "internal", "blank", 0, "host", 0)
  <2>1. ins \in InsertStmt /\ ~ Answers(ins) /\ ins.by = "host" /\ ins.prev = 0
    BY DEF InsertStmt, InsertOf, Kind, Body, Answers
  <2>2. Call(1, AppendEvent(1, ins))
    BY <1>4 DEF AppendInternal
  <2> HIDE DEF ins
  <2>3. ins.prev <= born
    BY <1>2, <2>1
  <2> QED BY <2>1, <2>2, <2>3, OneAppendPlans
<1>5. ASSUME NEW t \in Threads, NEW k \in {"user", "assistant"}, NEW said \in Bodies,
             NEW turn \in HostTurn, RecordImported(p, t, k, said, turn)
      PROVE  LInv'
  <2>1. turn \in Nat /\ said \in Body /\ k \in Kind
    BY TurnsAssumption, BodiesAssumption DEF HostTurn, Kind
  <2> DEFINE ins == InsertOf(p, t, k, said, turn, "host", 0)
  <2>2. ins \in InsertStmt /\ ~ Answers(ins) /\ ins.by = "host" /\ ins.prev = 0
    BY <2>1 DEF InsertStmt, InsertOf, Answers
  <2>3. Call(1, AppendEvent(1, ins))
    BY <1>5 DEF RecordImported
  <2> HIDE DEF ins
  <2>4. ins.prev <= born
    BY <1>2, <2>2
  <2> QED BY <2>2, <2>3, <2>4, OneAppendPlans
<1> QED BY <1>1, <1>3, <1>4, <1>5, TurnPlans, ToolPlans

-----------------------------------------------------------------------------

\* The INSERT keeps the plan of the statements after it: what it has recorded
\* is what they refer to.
LEMMA InsertPlans ==
  ASSUME IInv, LInv, Insert
  PROVE  Planned(todo)' /\ RowsOrderly' /\ LinksAgree' /\ TurnWhole'
<1> DEFINE s == todo[1]
           n == born + 1
<1>1. todo # <<>> /\ todo \in Seq(LedgerStmt) /\ TypeOK
  BY DEF Insert, Doing, IInv, TypeOK
<1>2. /\ Len(todo) \in Nat \ {0} /\ Head(todo) = s /\ s \in LedgerStmt
      /\ Len(Tail(todo)) = Len(todo) - 1
      /\ \A k \in 1..(Len(todo) - 1) : Tail(todo)[k] = todo[k + 1]
  BY <1>1, HeadTailFacts
<1>3. /\ s.do = "insert" /\ s \in InsertStmt
      /\ s.prev \in Nat /\ s.turn \in Nat /\ todo' = Tail(todo) /\ born' = n
  <2>1. s.do = "insert"
    BY <1>2 DEF Insert, Doing
  <2>2. s \in InsertStmt
    BY <1>2, <2>1, ShapeTypes
  <2> QED BY <1>2, <2>1, <2>2 DEF Insert, InsertStmt
<1>4. /\ Live' = Live \cup {n}
      /\ \A i \in Live : i # n => rows'[i] = rows[i]
      /\ rows'[n].thread = s.thread /\ rows'[n].kind = s.kind /\ rows'[n].turn = s.turn
      /\ rows'[n].by = s.by /\ rows'[n].prev = s.prev /\ rows'[n].next = 0
  <2> DEFINE new == [project |-> s.project, thread |-> s.thread, kind |-> s.kind,
                     body |-> s.body, seq |-> NextGlobalSeq,
                     tseq |-> IF s.thread = NoThread THEN 0 ELSE NextThreadSeq(s.thread),
                     turn |-> s.turn, by |-> s.by, prev |-> s.prev, next |-> 0]
  <2>1. rows' = [i \in Live \cup {n} |-> IF i = n THEN new ELSE rows[i]]
    BY <1>2 DEF Insert
  <2>2. /\ new.thread = s.thread /\ new.kind = s.kind /\ new.turn = s.turn
        /\ new.by = s.by /\ new.prev = s.prev /\ new.next = 0
    OBVIOUS
  <2> HIDE DEF new
  <2> QED BY <2>1, <2>2 DEF Live
<1>5. /\ born \in Nat /\ n \notin Live /\ 0 \notin Live'
      /\ \A i \in Live : /\ i \in Nat /\ i < n /\ i <= born
                         /\ rows[i].turn \in Nat /\ rows[i].prev \in Nat /\ rows[i].next \in Nat
  BY <1>1, <1>4, RowTypes
<1>6. \A k \in 1..Len(todo) : /\ Fits(todo, k) /\ LinkPlanned(todo, k) /\ InsertPlanned(todo, k)
                              /\ todo[k] \in LedgerStmt
  BY <1>1, ElementOfSeq DEF IInv, WellShaped, LInv, Planned
<1>7. Len(todo) > 1 /\ todo[2].do = "index"
  <2>1. Fits(todo, 1)
    BY <1>2, <1>6
  <2> QED BY <1>3, <2>1 DEF Fits
<1>8. \A k \in 1..(Len(todo) - 1) : k \in Nat /\ k + 1 \in 1..Len(todo) /\ todo'[k] = todo[k + 1]
  BY <1>2, <1>3
<1>9. Len(todo') = Len(todo) - 1
  BY <1>2, <1>3
<1> HIDE DEF s
<1>10. /\ ~ Answers(s) => s.prev <= born
       /\ ~ Answers(s) /\ s.by = "ledger" => FreshTurn(s.thread, s.turn)
       /\ Answers(s) =>
            /\ s.prev = born
            /\ born \in Live /\ rows[born].kind = "user"
            /\ rows[born].thread = s.thread /\ rows[born].turn = s.turn
            /\ s.by = "ledger" =>
                 \A i \in OfThread(s.thread) \ {born} : rows[i].turn < s.turn
  <2>1. InsertPlanned(todo, 1)
    BY <1>2, <1>6
  <2> QED BY <1>3, <2>1 DEF InsertPlanned, s
<1>11. ASSUME NEW k \in 1..(Len(todo) - 1), todo[k + 1].do = "insert"
       PROVE  /\ k = 2 /\ Answers(todo[3]) /\ ~ Answers(s)
              /\ s.kind = "user" /\ s.by = todo[3].by /\ s.thread = todo[3].thread /\ s.turn = todo[3].turn
              /\ todo[3].prev = n
  <2>1. k + 1 \in 1..Len(todo) /\ k \in Nat
    BY <1>8
  <2>2. Fits(todo, k + 1) /\ InsertPlanned(todo, k + 1)
    BY <1>6, <2>1
  <2>3. k + 1 <= 3
    BY <1>11, <2>2 DEF Fits
  <2>4. k = 2
    BY <1>7, <1>11, <2>1, <2>3
  <2>5. InsertPlanned(todo, 3) /\ todo[3].do = "insert"
    BY <1>11, <2>2, <2>4
  <2> QED BY <2>4, <2>5 DEF InsertPlanned, Answers, s
<1>12. ASSUME NEW k \in 1..(Len(todo) - 1), todo[k + 1].do = "link"
       PROVE  /\ k + 1 = Len(todo) /\ k \in {2, 4}
              /\ k = 2 => todo[3].to = n /\ s.prev = todo[3].id
              /\ k = 4 => /\ todo[5].to = n + 1 /\ todo[3].do = "insert" /\ todo[3].prev = todo[5].id
              /\ todo[k + 1].id < todo[k + 1].to
  <2>1. k + 1 \in 1..Len(todo) /\ k \in Nat /\ k # 1
    BY <1>7, <1>8, <1>12
  <2>2. LinkPlanned(todo, k + 1)
    BY <1>6, <2>1
  <2>3. /\ k + 1 = Len(todo) /\ todo[k + 1].to = born + (k \div 2) /\ todo[k + 1].id < todo[k + 1].to
        /\ todo[k - 1].do = "insert" /\ todo[k - 1].prev = todo[k + 1].id
    <3>1. (k + 1) - 1 = k /\ (k + 1) - 2 = k - 1 /\ k + 1 > 2
      BY <2>1
    <3> QED BY <1>12, <2>2, <3>1 DEF LinkPlanned
  <2>4. k = 2 \/ k = 4
    <3>1. CASE k = 2
      BY <3>1
    <3>2. CASE k # 2
      <4>1. k - 2 \in 1..(Len(todo) - 1) /\ (k - 2) + 1 = k - 1
        BY <2>1, <3>2, <1>2
      <4>2. k - 2 = 2
        BY <1>11, <2>3, <4>1
      <4> QED BY <2>1, <4>2
    <3> QED BY <3>1, <3>2
  <2>5. 2 \div 2 = 1 /\ 4 \div 2 = 2 /\ 2 + 1 = 3 /\ 4 + 1 = 5 /\ 2 - 1 = 1 /\ 4 - 1 = 3
        /\ born + 2 = n + 1
    BY <1>5
  <2>6. CASE k = 2
    BY <2>3, <2>5, <2>6 DEF s
  <2>7. CASE k = 4
    BY <2>3, <2>5, <2>7
  <2> QED BY <2>4, <2>6, <2>7
<1>13. Planned(todo)'
  <2> SUFFICES ASSUME NEW k \in 1..(Len(todo) - 1)
               PROVE  LinkPlanned(todo, k)' /\ InsertPlanned(todo, k)'
    BY <1>9 DEF Planned, LinkPlanned, InsertPlanned
  <2>1. k \in Nat /\ todo'[k] = todo[k + 1]
    BY <1>8
  <2>2. ASSUME todo[k + 1].do = "link"
        PROVE  LinkPlanned(todo, k)'
    <3>1. CASE k = 2
      <4>1. (2 - 1) \div 2 = 0 /\ n + 0 = n
        BY <1>5
      <4>2. todo'[2] = todo[3] /\ Len(todo') = 2
        <5>1. k + 1 = Len(todo) /\ 2 + 1 = 3 /\ 3 - 1 = 2
          BY <1>12, <2>2
        <5>2. Len(todo') = Len(todo) - 1 /\ todo'[k] = todo[k + 1]
          BY <1>8, <1>9, <2>1
        <5> QED BY ONLY <3>1, <5>1, <5>2
      <4>3. todo[3].to = n /\ s.prev = todo[3].id /\ todo[3].id < todo[3].to
        BY <1>12, <2>2, <3>1
      <4>4. n \in Live' /\ rows'[n].prev = todo[3].id
        BY <1>4, <4>3
      <4> QED BY <1>3, <3>1, <4>1, <4>2, <4>3, <4>4 DEF LinkPlanned
    <3>2. CASE k = 4
      <4>1. (4 - 1) \div 2 = 1
        OBVIOUS
      <4>2. todo'[4] = todo[5] /\ Len(todo') = 4 /\ todo'[2] = todo[3]
        BY <1>8, <1>9, <1>12, <2>1, <2>2, <3>2
      <4>3. /\ todo[5].to = n + 1 /\ todo[3].do = "insert" /\ todo[3].prev = todo[5].id
            /\ todo[5].id < todo[5].to
        BY <1>12, <2>2, <3>2
      <4> QED BY <1>3, <3>2, <4>1, <4>2, <4>3 DEF LinkPlanned
    <3> QED BY <1>12, <2>2, <3>1, <3>2
  <2>3. todo[k + 1].do # "link" => LinkPlanned(todo, k)'
    BY <2>1 DEF LinkPlanned
  <2>4. ASSUME todo[k + 1].do = "insert"
        PROVE  InsertPlanned(todo, k)'
    <3>1. /\ k = 2 /\ todo'[2] = todo[3] /\ Answers(todo[3]) /\ ~ Answers(s)
          /\ s.kind = "user" /\ s.by = todo[3].by
          /\ s.thread = todo[3].thread /\ s.turn = todo[3].turn /\ todo[3].prev = n
      BY <1>11, <2>1, <2>4
    <3>2. s.by = "ledger" => FreshTurn(s.thread, s.turn)
      BY <1>10, <3>1
    <3>3. /\ n \in Live' /\ rows'[n].kind = "user" /\ rows'[n].thread = todo[3].thread
          /\ rows'[n].turn = todo[3].turn
      BY <1>4, <3>1
    <3>4. ASSUME todo[3].by = "ledger", NEW i \in Live', rows'[i].thread = todo[3].thread, i # n
          PROVE  rows'[i].turn < todo[3].turn
      <4>1. i \in OfThread(s.thread) /\ rows'[i] = rows[i]
        BY <1>4, <3>1, <3>4 DEF OfThread
      <4> QED BY <3>1, <3>2, <3>4, <4>1 DEF FreshTurn
    <3> QED BY <1>3, <3>1, <3>3, <3>4 DEF InsertPlanned, OfThread, Answers
  <2>5. todo[k + 1].do # "insert" => InsertPlanned(todo, k)'
    BY <2>1 DEF InsertPlanned
  <2> QED BY <2>2, <2>3, <2>4, <2>5
<1>14. RowsOrderly'
  <2> SUFFICES ASSUME NEW i \in Live'
               PROVE  rows'[i].prev < i /\ rows'[i].next <= n
    BY <1>3 DEF RowsOrderly
  <2>1. CASE i = n
    <3>1. s.prev < n /\ 0 <= n
      BY <1>3, <1>5, <1>10
    <3> QED BY <1>4, <2>1, <3>1
  <2>2. CASE i # n
    <3>1. i \in Live /\ rows'[i] = rows[i]
      BY <1>4, <2>2
    <3> QED BY <1>5, <3>1 DEF LInv, RowsOrderly
  <2> QED BY <2>1, <2>2
<1>15. LinksAgree'
  <2> SUFFICES ASSUME NEW i \in Live', rows'[i].next \in Live'
               PROVE  rows'[i].next > i /\ rows'[rows'[i].next].prev = i
    BY DEF LinksAgree
  <2>1. i # n
    BY <1>4, <1>5
  <2>2. i \in Live /\ rows'[i] = rows[i] /\ rows[i].next <= born
    BY <1>4, <2>1 DEF LInv, RowsOrderly
  <2>3. rows[i].next # n /\ rows[i].next \in Live
    BY <1>4, <1>5, <2>2
  <2>4. rows'[rows[i].next] = rows[rows[i].next]
    BY <1>4, <2>3
  <2> QED BY <2>2, <2>3, <2>4 DEF LInv, LinksAgree
<1>16. ASSUME NEW a \in Live', rows'[a].kind = "assistant", rows'[a].prev \in Live'
       PROVE  /\ rows'[rows'[a].prev].kind = "user"
              /\ rows'[rows'[a].prev].turn = rows'[a].turn
              /\ \A i \in Live' : rows'[i].thread = rows'[a].thread => i <= rows'[a].prev \/ i >= a
  <2>1. CASE a = n
    <3>1. rows'[a].prev = born /\ rows'[a].turn = s.turn
      <4>1. s.kind = "assistant" /\ s.prev # 0
        BY <1>4, <1>5, <1>16, <2>1
      <4> QED BY <1>4, <1>10, <2>1, <4>1 DEF Answers
    <3>2. born \in Live /\ rows[born].kind = "user" /\ rows[born].turn = s.turn
      BY <1>4, <1>5, <1>10, <1>16, <2>1 DEF Answers
    <3>3. \A i \in Live' : i <= born \/ i >= n
      BY <1>4, <1>5
    <3> QED BY <1>4, <1>5, <2>1, <3>1, <3>2, <3>3
  <2>2. CASE a # n
    <3>1. a \in Live /\ rows'[a] = rows[a]
      BY <1>4, <2>2
    <3>2. rows[a].prev < a
      BY <3>1 DEF LInv, RowsOrderly
    <3>3. rows[a].prev \in Live /\ rows'[rows[a].prev] = rows[rows[a].prev]
      BY <1>4, <1>5, <1>16, <3>1, <3>2
    <3>4. /\ rows[rows[a].prev].kind = "user" /\ rows[rows[a].prev].turn = rows[a].turn
          /\ \A i \in OfThread(rows[a].thread) : i <= rows[a].prev \/ i >= a
      BY <1>16, <3>1, <3>3 DEF LInv, TurnWhole
    <3>5. ASSUME NEW i \in Live', rows'[i].thread = rows[a].thread
          PROVE  i <= rows[a].prev \/ i >= a
      <4>1. CASE i = n
        <5>1. a \in Nat /\ a < n /\ n \in Nat
          BY <1>5, <3>1
        <5>2. n >= a
          BY ONLY <5>1
        <5> QED BY <4>1, <5>2
      <4>2. CASE i # n
        <5>1. i \in Live /\ rows'[i] = rows[i]
          BY <1>4, <3>5, <4>2
        <5>2. i \in OfThread(rows[a].thread)
          BY <3>5, <5>1 DEF OfThread
        <5> QED BY <3>4, <5>2
      <4> QED BY <4>1, <4>2
    <3> QED BY <3>1, <3>3, <3>4, <3>5
  <2> QED BY <2>1, <2>2
<1>17. ASSUME NEW j \in Live', rows'[j].by = "ledger", NEW i \in Live', i < j,
              rows'[i].thread = rows'[j].thread, rows'[i].turn = rows'[j].turn
       PROVE  rows'[j].kind = "assistant" /\ rows'[j].prev = i
  <2>1. CASE j = n
    <3>1. i \in Live /\ rows'[i] = rows[i] /\ rows[i].turn \in Nat
      BY <1>4, <1>5, <1>17, <2>1
    <3>2. i \in OfThread(s.thread) /\ rows[i].turn = s.turn /\ s.by = "ledger"
      BY <1>4, <1>17, <2>1, <3>1 DEF OfThread
    <3>3. Answers(s)
      BY <1>3, <1>10, <3>1, <3>2 DEF FreshTurn
    <3>4. i = born
      BY <1>3, <1>10, <3>1, <3>2, <3>3
    <3> QED BY <1>4, <1>10, <2>1, <3>3, <3>4 DEF Answers
  <2>2. CASE j # n
    <3>1. j \in Live /\ rows'[j] = rows[j]
      BY <1>4, <2>2
    <3>2. i \in Live /\ rows'[i] = rows[i]
      <4>1. i # n
        BY <1>5, <1>17, <3>1
      <4> QED BY <1>4, <4>1
    <3> QED BY <1>17, <3>1, <3>2 DEF LInv, TurnWhole, OfThread
  <2> QED BY <2>1, <2>2
<1>18. TurnWhole'
  BY <1>16, <1>17 DEF TurnWhole, OfThread
<1> QED BY <1>13, <1>14, <1>15, <1>18

\* Indexing keeps the plan; if its statement is done, the ones after it move up.
LEMMA IndexPlans ==
  ASSUME IInv, LInv, IndexText
  PROVE  Planned(todo)' /\ RowsOrderly' /\ LinksAgree' /\ TurnWhole'
<1>1. /\ todo # <<>> /\ todo \in Seq(LedgerStmt) /\ TypeOK
      /\ UNCHANGED <<rows, born>>
  BY DEF IndexText, Doing, IInv, TypeOK
<1>2. /\ Len(todo) \in Nat \ {0} /\ Head(todo) = todo[1]
      /\ Tail(todo) \in Seq(LedgerStmt)
      /\ Len(Tail(todo)) = Len(todo) - 1
      /\ \A k \in 1..(Len(todo) - 1) : Tail(todo)[k] = todo[k + 1]
  BY <1>1, HeadTailFacts
<1>3. todo[1].do = "index" /\ born \in Nat
  BY <1>1, <1>2, RowTypes DEF IndexText, Doing
<1>4. \A k \in 1..Len(todo) : Fits(todo, k) /\ LinkPlanned(todo, k) /\ InsertPlanned(todo, k)
  BY DEF IInv, WellShaped, LInv, Planned
<1>5. \/ todo' = Tail(todo)
      \/ \E S : todo' = <<Index(S)>> \o Tail(todo)
  BY DEF IndexText
<1>6. Live' = Live /\ \A t : OfThread(t)' = OfThread(t)
  BY <1>1 DEF Live, OfThread
<1>7. RowsOrderly' /\ LinksAgree' /\ TurnWhole'
  BY <1>1, <1>6 DEF LInv, RowsOrderly, LinksAgree, TurnWhole
<1>8. ASSUME NEW k \in 1..Len(todo), todo[k].do = "insert"
      PROVE  k = 2 /\ Answers(todo[2])
  <2>1. k <= 3 /\ k # 1 /\ InsertPlanned(todo, k)
    BY <1>3, <1>4, <1>8 DEF Fits
  <2>2. Answers(todo[k]) /\ (k > 2 => todo[1].do = "insert")
    BY <1>8, <2>1 DEF InsertPlanned
  <2> QED BY <1>3, <2>1, <2>2
<1>9. ASSUME NEW k \in 1..Len(todo), todo[k].do = "link"
      PROVE  /\ k = Len(todo) /\ k \in {2, 4} /\ todo[k].id < todo[k].to
             /\ k = 2 => todo[2].to = born /\ born \in Live /\ rows[born].prev = todo[2].id
             /\ k = 4 => todo[4].to = born + 1 /\ todo[2].do = "insert" /\ todo[2].prev = todo[4].id
  <2>1. LinkPlanned(todo, k) /\ k # 1 /\ k \in Nat
    BY <1>2, <1>3, <1>4, <1>9
  <2>2. k > 2 => k - 2 \in 1..Len(todo)
    BY <2>1, <1>2
  <2>3. k > 2 => k - 2 = 2
    BY <1>8, <1>9, <2>1, <2>2 DEF LinkPlanned
  <2>4. k = 2 \/ k = 4
    BY <2>1, <2>3
  <2>5. (2 - 1) \div 2 = 0 /\ (4 - 1) \div 2 = 1 /\ 4 - 2 = 2 /\ born + 0 = born
    BY <1>3
  <2> QED BY <1>9, <2>1, <2>4, <2>5 DEF LinkPlanned
<1>10. CASE todo' = Tail(todo)
  <2> SUFFICES ASSUME NEW k \in 1..(Len(todo) - 1)
               PROVE  LinkPlanned(todo, k)' /\ InsertPlanned(todo, k)'
    BY <1>2, <1>7, <1>10 DEF Planned
  <2>1. /\ k \in Nat /\ k + 1 \in 1..Len(todo) /\ todo'[k] = todo[k + 1]
        /\ Len(todo') = Len(todo) - 1
    BY <1>2, <1>10
  <2>2. ASSUME todo[k + 1].do = "link"
        PROVE  LinkPlanned(todo, k)'
    <3>1. /\ k + 1 = Len(todo) /\ k + 1 \in {2, 4} /\ todo[k + 1].id < todo[k + 1].to
          /\ k + 1 = 2 => todo[2].to = born /\ born \in Live /\ rows[born].prev = todo[2].id
          /\ k + 1 = 4 => todo[4].to = born + 1 /\ todo[2].do = "insert" /\ todo[2].prev = todo[4].id
      BY <1>9, <2>1, <2>2
    <3>2. k = 1 \/ k = 3
      BY <2>1, <3>1
    <3>3. (1 - 1) \div 2 = 0 /\ (3 - 1) \div 2 = 1 /\ born + 0 = born
      BY <1>3
    <3>4. CASE k = 1
      <4>1. /\ todo'[1] = todo[2] /\ Len(todo') = 1 /\ todo[2].to = born /\ todo[2].id < todo[2].to
            /\ born \in Live /\ rows[born].prev = todo[2].id
        BY <2>1, <3>1, <3>4
      <4> QED BY <1>1, <1>6, <3>3, <3>4, <4>1 DEF LinkPlanned
    <3>5. CASE k = 3
      <4>1. /\ todo'[1] = todo[2] /\ todo'[3] = todo[4] /\ Len(todo') = 3
            /\ todo[4].to = born + 1 /\ todo[4].id < todo[4].to
            /\ todo[2].do = "insert" /\ todo[2].prev = todo[4].id
        BY <1>2, <1>10, <2>1, <3>1, <3>5
      <4>2. 3 - 2 = 1
        OBVIOUS
      <4> QED BY <1>1, <3>3, <3>5, <4>1, <4>2 DEF LinkPlanned
    <3> QED BY <3>2, <3>4, <3>5
  <2>3. todo[k + 1].do # "link" => LinkPlanned(todo, k)'
    BY <2>1 DEF LinkPlanned
  <2>4. ASSUME todo[k + 1].do = "insert"
        PROVE  InsertPlanned(todo, k)'
    <3>1. k + 1 = 2 /\ Answers(todo[2])
      BY <1>8, <2>1, <2>4
    <3>2. k = 1 /\ InsertPlanned(todo, 2)
      BY <1>4, <2>1, <3>1
    <3>3. /\ todo[2].prev = born
          /\ born \in Live /\ rows[born].kind = "user"
          /\ rows[born].thread = todo[2].thread /\ rows[born].turn = todo[2].turn
          /\ todo[2].by = "ledger" =>
               \A i \in OfThread(todo[2].thread) \ {born} : rows[i].turn < todo[2].turn
      BY <2>4, <3>1, <3>2 DEF InsertPlanned
    <3>4. OfThread(todo[2].thread) = {i \in Live : rows[i].thread = todo[2].thread}
      BY DEF OfThread
    <3> QED BY <1>1, <1>6, <2>1, <3>1, <3>2, <3>3, <3>4 DEF InsertPlanned, OfThread, Answers
  <2>5. todo[k + 1].do # "insert" => InsertPlanned(todo, k)'
    BY <2>1 DEF InsertPlanned
  <2> QED BY <2>2, <2>3, <2>4, <2>5
<1>11. ASSUME NEW S, todo' = <<Index(S)>> \o Tail(todo)
       PROVE  Planned(todo)'
  <2> DEFINE s == Index(S)
  <2>1. s.do = "index"
    BY DEF Index
  <2> HIDE DEF s
  <2>2. todo' = <<s>> \o Tail(todo)
    BY <1>11 DEF s
  <2>3. Len(todo') = Len(todo) /\ todo'[1] = s /\ \A k \in 2..Len(todo) : todo'[k] = todo[k]
    BY <1>2, <2>2
  <2> SUFFICES ASSUME NEW k \in 1..Len(todo)
               PROVE  LinkPlanned(todo, k)' /\ InsertPlanned(todo, k)'
    BY <2>3 DEF Planned
  <2>4. CASE k = 1
    BY <2>1, <2>3, <2>4 DEF LinkPlanned, InsertPlanned
  <2>5. CASE k > 1
    <3>1. todo'[k] = todo[k] /\ LinkPlanned(todo, k) /\ InsertPlanned(todo, k)
      BY <1>4, <2>3, <2>5
    <3>2. ASSUME todo[k].do = "link"
          PROVE  LinkPlanned(todo, k)'
      <4>1. k \in {2, 4} /\ (k = 4 => todo'[2] = todo[2])
        BY <1>9, <2>3, <3>2
      <4>2. 4 - 2 = 2 /\ born' = born
        BY <1>1
      <4>3. CASE k = 2
        BY <1>1, <1>6, <2>3, <3>1, <3>2, <4>2, <4>3 DEF LinkPlanned
      <4>4. CASE k = 4
        <5>1. LinkPlanned(todo, 4)
          BY <1>4, <4>4
        <5> QED BY <2>3, <3>1, <3>2, <4>1, <4>2, <4>4, <5>1 DEF LinkPlanned
      <4> QED BY <4>1, <4>3, <4>4
    <3>3. ASSUME todo[k].do = "insert"
          PROVE  InsertPlanned(todo, k)'
      <4>1. k = 2 /\ Answers(todo[2])
        BY <1>8, <3>3
      <4> QED BY <1>1, <1>6, <3>1, <3>3, <4>1 DEF InsertPlanned, OfThread, Answers
    <3> QED BY <3>1, <3>2, <3>3 DEF LinkPlanned, InsertPlanned
  <2> QED BY <2>4, <2>5
<1> QED BY <1>5, <1>7, <1>10, <1>11

\* updateNextEventId keeps the links in agreement: it joins an event to the
\* one just recorded that names it, if it is still there.
LEMMA LinkPlans ==
  ASSUME IInv, LInv, LinkNext
  PROVE  Planned(todo)' /\ RowsOrderly' /\ LinksAgree' /\ TurnWhole'
<1> DEFINE s == todo[1]
<1>1. todo # <<>> /\ todo \in Seq(LedgerStmt) /\ TypeOK /\ born' = born
  BY DEF LinkNext, Doing, IInv, TypeOK
<1>2. /\ Len(todo) \in Nat \ {0} /\ Head(todo) = s
      /\ Len(Tail(todo)) = Len(todo) - 1
  BY <1>1, HeadTailFacts
<1>3. /\ s.do = "link" /\ todo' = Tail(todo)
      /\ rows' = [i \in Live |-> IF i = s.id THEN [rows[i] EXCEPT !.next = s.to] ELSE rows[i]]
  BY <1>2 DEF LinkNext, Doing
<1>4. Len(todo) = 1 /\ s.to = born /\ s.id < s.to /\ born \in Live /\ rows[born].prev = s.id
  <2>1. LinkPlanned(todo, 1)
    BY <1>2 DEF LInv, Planned
  <2>2. (1 - 1) \div 2 = 0 /\ born + 0 = born /\ 1 <= 2
    BY <1>1, RowTypes
  <2> QED BY <1>3, <2>1, <2>2 DEF LinkPlanned
<1> HIDE DEF s
<1>5. Len(todo') = 0
  BY <1>2, <1>3, <1>4
<1>6. Planned(todo)'
  BY <1>5 DEF Planned
<1>7. /\ born \in Nat /\ 0 \notin Live
      /\ \A i \in Live : rows[i] \in Row
  BY <1>1, RowTypes
<1>8. /\ Live' = Live
      /\ \A i \in Live : /\ rows'[i].prev = rows[i].prev /\ rows'[i].thread = rows[i].thread
                         /\ rows'[i].kind = rows[i].kind /\ rows'[i].turn = rows[i].turn
                         /\ rows'[i].by = rows[i].by
                         /\ rows'[i].next = IF i = s.id THEN born ELSE rows[i].next
  BY <1>3, <1>4, <1>7 DEF Live, Row
<1>9. RowsOrderly'
  BY <1>1, <1>7, <1>8 DEF LInv, RowsOrderly
<1>10. LinksAgree'
  <2> SUFFICES ASSUME NEW i \in Live, rows'[i].next \in Live
               PROVE  rows'[i].next > i /\ rows'[rows'[i].next].prev = i
    BY <1>8 DEF LinksAgree
  <2>1. CASE i = s.id
    BY <1>4, <1>8, <2>1
  <2>2. CASE i # s.id
    BY <1>8, <2>2 DEF LInv, LinksAgree
  <2> QED BY <2>1, <2>2
<1>11. TurnWhole'
  BY <1>8 DEF LInv, TurnWhole, OfThread
<1> QED BY <1>6, <1>9, <1>10, <1>11

\* The steps that leave no insertion or link to do keep the rest.
LEMMA OtherPlans ==
  ASSUME IInv, LInv, WipeIndex \/ Crash \/ Open
  PROVE  Planned(todo)' /\ RowsOrderly' /\ LinksAgree' /\ TurnWhole'
<1>1. UNCHANGED <<rows, born>>
  BY DEF WipeIndex, Crash, Open, history
<1>2. RowsOrderly' /\ LinksAgree' /\ TurnWhole'
  BY <1>1 DEF LInv, RowsOrderly, LinksAgree, TurnWhole, OfThread, Live
<1>3. \A k \in 1..Len(todo') : todo'[k].do \notin {"insert", "link"}
  <2>1. CASE todo' = <<>>
    BY <2>1
  <2>2. CASE todo' = <<Wipe, Index(Live)>>
    <3>1. Wipe.do = "wipe" /\ Index(Live).do = "index"
      BY DEF Wipe, Index
    <3> DEFINE w == Wipe
               x == Index(Live)
    <3> HIDE DEF w, x
    <3>2. todo' = <<w, x>> /\ w.do = "wipe" /\ x.do = "index"
      BY <2>2, <3>1 DEF w, x
    <3> QED BY <3>2
  <2>3. CASE WipeIndex
    <3>1. /\ todo # <<>> /\ todo \in Seq(LedgerStmt)
          /\ Head(todo).do = "wipe" /\ todo' = Tail(todo)
      BY <2>3 DEF WipeIndex, Doing, IInv, TypeOK
    <3>2. /\ Len(todo) \in Nat \ {0} /\ Head(todo) = todo[1]
          /\ Len(Tail(todo)) = Len(todo) - 1
          /\ \A k \in 1..(Len(todo) - 1) : Tail(todo)[k] = todo[k + 1]
      BY <3>1, HeadTailFacts
    <3>3. Len(todo) = 2 /\ todo[2].do = "index"
      <4>1. Fits(todo, 1)
        BY <3>2 DEF IInv, WellShaped
      <4> QED BY <3>1, <3>2, <4>1 DEF Fits, LInv, Searchable
    <3> QED BY <3>1, <3>2, <3>3
  <2> QED BY <2>1, <2>2, <2>3 DEF Crash, Open
<1>4. Planned(todo)'
  BY <1>3 DEF Planned, LinkPlanned, InsertPlanned
<1> QED BY <1>2, <1>4

\* A privacy deletion takes rows away and lets no link lead elsewhere.
LEMMA ForgetPlans ==
  ASSUME IInv, LInv, NEW p, ForgetUser(p)
  PROVE  LInv'
<1> DEFINE K == {i \in Live : rows[i].project # p}
<1>1. /\ rows' = [i \in K |-> rows[i]]
      /\ orphaned' = TRUE /\ todo = <<>> /\ todo' = <<>> /\ born' = born
  BY DEF ForgetUser, Idle, history, Restrict
<1>2. Live' = K /\ K \subseteq Live /\ \A i \in K : rows'[i] = rows[i]
  BY <1>1 DEF Live
<1> HIDE DEF K
<1>3. Planned(todo)'
  BY <1>1 DEF Planned
<1>4. RowsOrderly'
  BY <1>1, <1>2 DEF LInv, RowsOrderly
<1>5. LinksAgree'
  BY <1>2 DEF LInv, LinksAgree
<1>6. TurnWhole'
  <2>1. ASSUME NEW a \in K, rows[a].kind = "assistant", rows[a].prev \in K
        PROVE  /\ rows'[rows[a].prev].kind = "user"
               /\ rows'[rows[a].prev].turn = rows[a].turn
               /\ \A i \in K : rows[i].thread = rows[a].thread => i <= rows[a].prev \/ i >= a
    BY <1>2, <2>1 DEF LInv, TurnWhole, OfThread
  <2>2. ASSUME NEW j \in K, rows[j].by = "ledger", NEW i \in K, i < j,
               rows[i].thread = rows[j].thread, rows[i].turn = rows[j].turn
        PROVE  rows[j].kind = "assistant" /\ rows[j].prev = i
    BY <1>2, <2>2 DEF LInv, TurnWhole, OfThread
  <2> QED BY <1>2, <2>1, <2>2 DEF TurnWhole, OfThread
<1>7. Searchable'
  BY <1>1 DEF Searchable
<1> QED BY <1>3, <1>4, <1>5, <1>6, <1>7 DEF LInv

-----------------------------------------------------------------------------

\* The event an INSERT makes is the one the statement after it indexes.
LEMMA InsertSearch ==
  ASSUME IInv, LInv, Insert
  PROVE  Searchable'
<1> DEFINE n == born + 1
<1>1. todo # <<>> /\ todo \in Seq(LedgerStmt) /\ TypeOK /\ up = TRUE
  BY DEF Insert, Doing, IInv, TypeOK, LedgerTypeOK
<1>2. /\ Len(todo) \in Nat \ {0} /\ Head(todo) = todo[1]
      /\ Len(Tail(todo)) = Len(todo) - 1
      /\ \A k \in 1..(Len(todo) - 1) : Tail(todo)[k] = todo[k + 1]
  BY <1>1, HeadTailFacts
<1>3. /\ todo[1].do = "insert" /\ todo' = Tail(todo) /\ up' = TRUE
      /\ UNCHANGED <<fts, orphaned>>
  BY <1>1, <1>2 DEF Insert, Doing
<1>4. Live' = Live \cup {n} /\ \A i \in Live : i # n => rows'[i] = rows[i]
  BY DEF Insert, Live
<1>5. n \notin Live /\ born \in Nat
  BY <1>1, RowTypes
<1>6. Len(todo) > 1 /\ todo[2].do = "index" /\ todo[2].ids = {n}
  <2>1. Fits(todo, 1)
    BY <1>2 DEF IInv, WellShaped
  <2>2. Len(todo) > 1 /\ todo[2].do = "index"
    BY <1>3, <2>1 DEF Fits
  <2>3. Fits(todo, 2) /\ 2 \div 2 = 1
    BY <1>2, <2>2 DEF IInv, WellShaped
  <2> QED BY <1>3, <2>2, <2>3 DEF Fits
<1>7. todo' # <<>> /\ todo'[1].do = "index" /\ todo'[1].ids = {n}
  <2>1. Len(todo') >= 1 /\ todo'[1] = todo[2]
    BY <1>2, <1>3, <1>6
  <2>2. todo' # <<>>
    BY ONLY <2>1, EmptySeq
  <2> QED BY <1>6, <2>1, <2>2
<1>8. Unindexed = {} /\ Unindexed' = {n}
  BY <1>3, <1>7 DEF Unindexed
<1>9. Texts \subseteq Texts' /\ Texts' \ {n} = Texts
  BY <1>4, <1>5 DEF Texts, HasText
<1> QED BY <1>1, <1>3, <1>7, <1>8, <1>9 DEF LInv, Searchable

\* Indexing an event takes it off the rows still to index.
LEMMA IndexSearch ==
  ASSUME IInv, LInv, IndexText
  PROVE  Searchable'
<1> DEFINE S == Head(todo).ids
           i == CHOOSE i \in S : \A j \in S : rows[i].seq <= rows[j].seq
<1>1. /\ todo # <<>> /\ todo \in Seq(LedgerStmt) /\ TypeOK /\ up = TRUE /\ up' = up
      /\ fts' = IF HasText(i) THEN fts \cup {i} ELSE fts \ {i}
      /\ todo' = IF S = {i} THEN Tail(todo) ELSE <<Index(S \ {i})>> \o Tail(todo)
      /\ UNCHANGED <<rows, orphaned>>
  BY DEF IndexText, Doing, IInv, TypeOK, LedgerTypeOK
<1>2. /\ Len(todo) \in Nat \ {0} /\ Head(todo) = todo[1]
      /\ Tail(todo) \in Seq(LedgerStmt)
      /\ Len(Tail(todo)) = Len(todo) - 1
      /\ \A k \in 1..(Len(todo) - 1) : Tail(todo)[k] = todo[k + 1]
      /\ \A k \in 1..Len(todo) : Fits(todo, k)
  BY <1>1, HeadTailFacts DEF IInv, WellShaped
<1>3. todo[1].do = "index" /\ S = todo[1].ids /\ S \subseteq Live /\ S # {}
  <2>1. todo[1].do = "index" /\ Fits(todo, 1)
    BY <1>2 DEF IndexText, Doing
  <2> QED BY <1>2, <2>1 DEF Fits
<1>4. i \in S /\ i \in Live
  BY <1>1, <1>3, LeastBySeq
<1> HIDE DEF i, S
<1>5. Unindexed = S /\ Texts' = Texts
  BY <1>1, <1>3 DEF Unindexed, Texts, HasText, Live
<1>6. Unindexed' = S \ {i} /\ (todo' # <<>> => todo'[1].do # "wipe")
  <2>1. CASE S = {i}
    <3>1. CASE Len(todo) = 1
      <4>1. todo' = <<>>
        BY <1>1, <1>2, <2>1, <3>1
      <4> QED BY <2>1, <4>1 DEF Unindexed
    <3>2. CASE Len(todo) > 1
      <4>1. todo'[1] = todo[2] /\ todo' # <<>> /\ Fits(todo, 2)
        <5>1. Len(todo') >= 1 /\ todo'[1] = todo[2] /\ Fits(todo, 2)
          BY <1>1, <1>2, <2>1, <3>2
        <5>2. todo' # <<>>
          BY ONLY <5>1, EmptySeq
        <5> QED BY <5>1, <5>2
      <4>2. todo[2].do # "index" /\ todo[2].do # "wipe"
        BY <1>3, <4>1 DEF Fits
      <4> QED BY <2>1, <4>1, <4>2 DEF Unindexed
    <3> QED BY <1>2, <3>1, <3>2
  <2>2. CASE S # {i}
    <3> DEFINE s == Index(S \ {i})
    <3>1. s.do = "index" /\ s.ids = S \ {i}
      BY DEF Index
    <3> HIDE DEF s
    <3>2. todo' = <<s>> \o Tail(todo)
      BY <1>1, <2>2 DEF s
    <3>3. todo' # <<>> /\ todo'[1] = s
      BY <1>2, <3>2
    <3> QED BY <3>1, <3>3 DEF Unindexed
  <2> QED BY <2>1, <2>2
<1>7. ASSUME ~ orphaned
      PROVE  fts' \subseteq Texts /\ Texts \ (S \ {i}) \subseteq fts'
  <2>1. fts \subseteq Texts /\ Texts \ S \subseteq fts
    BY <1>1, <1>3, <1>5, <1>7 DEF LInv, Searchable
  <2>2. HasText(i) <=> i \in Texts
    BY <1>4 DEF Texts
  <2> QED BY <1>1, <2>1, <2>2
<1> QED BY <1>1, <1>5, <1>6, <1>7 DEF Searchable

\* A link changes no text, and it is the last of its call.
LEMMA LinkSearch ==
  ASSUME IInv, LInv, LinkNext
  PROVE  Searchable'
<1>1. todo # <<>> /\ todo \in Seq(LedgerStmt) /\ TypeOK /\ up = TRUE
  BY DEF LinkNext, Doing, IInv, TypeOK, LedgerTypeOK
<1>2. /\ Len(todo) \in Nat \ {0} /\ Head(todo) = todo[1]
      /\ Tail(todo) \in Seq(LedgerStmt) /\ Len(Tail(todo)) = Len(todo) - 1
  BY <1>1, HeadTailFacts
<1>3. /\ todo[1].do = "link" /\ todo' = Tail(todo) /\ UNCHANGED <<fts, up, orphaned>>
      /\ rows' = [i \in Live |-> IF i = todo[1].id THEN [rows[i] EXCEPT !.next = todo[1].to] ELSE rows[i]]
  BY <1>2 DEF LinkNext, Doing
<1>4. Len(todo) = 1
  <2>1. LinkPlanned(todo, 1)
    BY <1>2 DEF LInv, Planned
  <2> QED BY <1>3, <2>1 DEF LinkPlanned
<1>5. todo' = <<>>
  BY <1>2, <1>3, <1>4
<1>6. Texts' = Texts
  <2>1. \A i \in Live : rows[i] \in Row
    BY <1>1, RowTypes
  <2>2. Live' = Live /\ \A i \in Live : rows'[i].body = rows[i].body
    BY <1>3, <2>1 DEF Live, Row
  <2> QED BY <2>2 DEF Texts, HasText
<1>7. Unindexed = {} /\ Unindexed' = {}
  BY <1>3, <1>5 DEF Unindexed
<1> QED BY <1>1, <1>3, <1>5, <1>6, <1>7 DEF LInv, Searchable

\* A rebuild begins with an empty index and all the rows to index.
LEMMA WipeSearch ==
  ASSUME IInv, LInv, WipeIndex
  PROVE  Searchable'
<1>1. /\ todo # <<>> /\ todo \in Seq(LedgerStmt) /\ rows' = rows
      /\ Head(todo).do = "wipe" /\ fts' = {} /\ todo' = Tail(todo)
  BY DEF WipeIndex, Doing, IInv, TypeOK
<1>2. /\ Len(todo) \in Nat \ {0} /\ Head(todo) = todo[1]
      /\ Len(Tail(todo)) = Len(todo) - 1
      /\ \A k \in 1..(Len(todo) - 1) : Tail(todo)[k] = todo[k + 1]
  BY <1>1, HeadTailFacts
<1>3. Len(todo) = 2 /\ todo[2].do = "index" /\ todo[2].ids = Live
  <2>1. Fits(todo, 1)
    BY <1>2 DEF IInv, WellShaped
  <2> QED BY <1>1, <1>2, <2>1 DEF Fits, LInv, Searchable
<1>4. todo' # <<>> /\ todo'[1].do = "index" /\ todo'[1].ids = Live
  <2>1. Len(todo') >= 1 /\ todo'[1] = todo[2]
    BY <1>1, <1>2, <1>3
  <2>2. todo' # <<>>
    BY ONLY <2>1, EmptySeq
  <2> QED BY <1>3, <2>1, <2>2
<1>5. Texts' \subseteq Live /\ Unindexed' = Live
  BY <1>1, <1>4 DEF Texts, Live, Unindexed
<1> QED BY <1>1, <1>4, <1>5 DEF Searchable

\* A crash may leave events out of the index, but puts none in.
LEMMA CrashSearch ==
  ASSUME LInv, Crash
  PROVE  Searchable'
BY DEF Crash, LInv, Searchable, Texts, HasText, Live

\* The constructor skips the rebuild only if the index has as many rows as the
\* ledger; unless rows were deleted, it then has all of them.
LEMMA OpenSearch ==
  ASSUME IInv, LInv, Open
  PROVE  Searchable'
<1>1. UNCHANGED <<rows, fts, orphaned>>
  BY DEF Open
<1>2. Texts' = Texts /\ Texts \subseteq Live /\ Live' = Live
  BY <1>1 DEF Texts, HasText, Live
<1>3. CASE Cardinality(fts) >= Cardinality(Live)
  <2>1. todo' = <<>>
    BY <1>3 DEF Open
  <2>2. ASSUME ~ orphaned
        PROVE  fts = Texts
    <3>1. fts \subseteq Live /\ fts \subseteq Texts
      BY <1>2, <2>2 DEF LInv, Searchable
    <3>2. IsFiniteSet(Live)
      BY LiveFinite DEF IInv
    <3>3. fts = Live
      <4>1. Cardinality(fts) <= Cardinality(Live) /\ (Cardinality(fts) = Cardinality(Live) => fts = Live)
        BY <3>1, <3>2, FS_Subset
      <4>2. Cardinality(fts) \in Nat /\ Cardinality(Live) \in Nat
        BY <3>1, <3>2, FS_Subset, FS_CardinalityType
      <4> QED BY <1>3, <4>1, <4>2
    <3> QED BY <1>2, <3>1, <3>3
  <2> QED BY <1>1, <1>2, <2>1, <2>2 DEF Searchable, Unindexed
<1>4. CASE ~(Cardinality(fts) >= Cardinality(Live))
  <2> DEFINE w == Wipe
             x == Index(Live)
  <2>1. w.do = "wipe" /\ x.do = "index" /\ x.ids = Live
    BY DEF Wipe, Index
  <2>2. todo' = <<w, x>>
    BY <1>4 DEF Open
  <2> HIDE DEF w, x
  <2>3. todo' # <<>> /\ todo'[1] = w /\ todo'[2] = x
    BY <2>2
  <2> QED BY <1>1, <1>2, <2>1, <2>3 DEF LInv, Searchable
<1> QED BY <1>3, <1>4

-----------------------------------------------------------------------------

\* Every step of the ledger keeps links, turns and index right.
LEMMA PlansPreserved ==
  ASSUME IInv, LInv, [LedgerNext]_ledgerVars
  PROVE  LInv'
<1>1. CASE Record
  BY <1>1, RecordPlans
<1>2. CASE Insert
  BY <1>2, InsertPlans, InsertSearch DEF LInv
<1>3. CASE IndexText
  BY <1>3, IndexPlans, IndexSearch DEF LInv
<1>4. CASE LinkNext
  BY <1>4, LinkPlans, LinkSearch DEF LInv
<1>5. CASE WipeIndex
  BY <1>5, OtherPlans, WipeSearch DEF LInv
<1>6. CASE \E p \in Forgettable : ForgetUser(p)
  BY <1>6, ForgetPlans
<1>7. CASE Crash
  BY <1>7, OtherPlans, CrashSearch DEF LInv
<1>8. CASE Open
  BY <1>8, OtherPlans, OpenSearch DEF LInv
<1>9. CASE UNCHANGED ledgerVars
  <2>1. UNCHANGED <<rows, fts, todo, up, born, orphaned>>
    BY <1>9 DEF ledgerVars
  <2>2. Planned(todo)' /\ RowsOrderly' /\ LinksAgree' /\ TurnWhole'
    BY <2>1 DEF LInv, Planned, LinkPlanned, InsertPlanned, Answers, FreshTurn, RowsOrderly, LinksAgree,
                TurnWhole, OfThread, Live
  <2>3. Searchable'
    BY <2>1 DEF LInv, Searchable, Texts, HasText, Unindexed, Live
  <2> QED BY <2>2, <2>3 DEF LInv
<1> QED BY <1>1, <1>2, <1>3, <1>4, <1>5, <1>6, <1>7, <1>8, <1>9 DEF LedgerNext, Statement

\* The empty ledger has right links, turns and index.
LEMMA PlansBegin == LedgerInit => LInv
<1> SUFFICES ASSUME LedgerInit PROVE LInv
  OBVIOUS
<1>1. Live = {} /\ todo = <<>> /\ fts = {} /\ Texts = {}
  BY DEF LedgerInit, Live, Texts
<1> QED BY <1>1 DEF LInv, Planned, RowsOrderly, LinksAgree, TurnWhole, Searchable

LEMMA PlansInvariant == LedgerSpec => [](IInv /\ LInv)
<1>1. LedgerInit => IInv /\ LInv
  BY LedgerStart, PlansBegin
<1>2. (IInv /\ LInv) /\ [LedgerNext]_ledgerVars => (IInv /\ LInv)'
  BY LedgerPreserves, PlansPreserved
<1> QED BY <1>1, <1>2, PTL DEF LedgerSpec

\* A forward link leads to a later event that names this one as its previous,
\* whatever was deleted and whichever calls were cut (updateNextEventId).
THEOREM LedgerLinks == LedgerSpec => []LinksAgree
<1>1. LInv => LinksAgree
  BY DEF LInv
<1> QED BY <1>1, PlansInvariant, PTL

\* A turn is recorded without anything of its thread in between, and a number
\* the ledger gives a turn is new to its thread, whatever numbers hosts and
\* imports have given, for any threads, projects, deletions and crashes
\* (rememberTurnWithResult, getNextTurnSeq).
THEOREM LedgerTurns == LedgerSpec => []TurnWhole
<1>1. LInv => TurnWhole
  BY DEF LInv
<1> QED BY <1>1, PlansInvariant, PTL

\* Between calls the search index has every event with text, unless rows were
\* deleted under it: a cut call is made up for by the constructor, which
\* compares nothing but two counts (rebuildRawEventFtsIfNeeded).
THEOREM LedgerSearch == LedgerSpec => []IndexComplete
<1>1. LInv => IndexComplete
  BY DEF LInv, Searchable, IndexComplete, Idle, Unindexed, Texts
<1> QED BY <1>1, PlansInvariant, PTL

=============================================================================
