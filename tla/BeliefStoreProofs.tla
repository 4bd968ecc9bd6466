--------------------------- MODULE BeliefStoreProofs ---------------------------
(***************************************************************************)
(* Theorems about BeliefStore for every value of its constants.            *)
(*                                                                         *)
(* Lineage is inductive once the rows have their types: a statement only   *)
(* marks active rows, which no row names as replaced yet, and the row it   *)
(* appends holds a value none of them has.  SilentOnlyAfterWindow needs    *)
(* more: a key that has rows has an active one, no row begins after today, *)
(* and an active row without a window of its own has no end (Standing).    *)
(* LatestPreferenceWins is inductive; the work is in the arithmetic of     *)
(* Strength.                                                               *)
(***************************************************************************)
EXTENDS BeliefStore, SetLemmas, SequenceTheorems

\* FirstOf is one of the rows it is given: among finitely many rows there is
\* one that comes last by validity, then by insertion.
LEMMA FirstOfMember ==
  ASSUME NEW S \in SUBSET Rows, beliefs \in Seq(Belief), S # {}
  PROVE  FirstOf(S) \in S
<1> DEFINE Above(i, j) == \/ beliefs[i].from > beliefs[j].from
                          \/ beliefs[i].from = beliefs[j].from /\ i >= j
           HasTop(T) == \E x \in T : \A y \in T : Above(x, y)
           Bad == {T \in SUBSET S : T # {} /\ ~HasTop(T)}
           R   == StrictSubsetOrdering(S)
<1>1. IsFiniteSet(S)
  <2>1. Len(beliefs) \in Nat /\ Rows = 1..Len(beliefs)
    BY LenProperties DEF Rows
  <2>2. IsFiniteSet(1..Len(beliefs))
    BY <2>1, FS_Interval
  <2> QED BY <2>1, <2>2, FS_Subset
<1>2. IsWellFoundedOn(R, SUBSET S)
  BY <1>1, FS_StrictSubsetOrderingWellFounded, FS_FiniteSubsetsOfFinite
<1>3. \A i \in S : i \in Nat /\ beliefs[i].from \in Nat
  <2>1. Len(beliefs) \in Nat /\ Rows = 1..Len(beliefs)
    BY LenProperties DEF Rows
  <2>2. \A i \in Rows : i \in Nat /\ beliefs[i] \in Belief
    BY <2>1, ElementOfSeq
  <2> QED BY <2>2 DEF Belief
<1>4. \A i, j, k \in S : /\ ~Above(i, j) => Above(j, i)
                         /\ Above(i, j) /\ Above(j, k) => Above(i, k)
                         /\ Above(i, i)
  BY <1>3
<1> HIDE DEF Above
<1>5. Bad = {}
  <2> SUFFICES ASSUME Bad # {} PROVE FALSE
    OBVIOUS
  <2>1. PICK T \in Bad : \A U \in Bad : ~(<<U, T>> \in R)
    <3> HIDE DEF R
    <3>1. Bad \subseteq SUBSET S
      OBVIOUS
    <3> HIDE DEF Bad
    <3> QED BY <1>2, <3>1, WFMin
  <2>2. PICK x \in T : TRUE
    OBVIOUS
  <2> DEFINE U == {y \in T : ~Above(x, y)}
  <2>3. U # {}
    OBVIOUS
  <2>4. ~HasTop(U)
    <3> SUFFICES ASSUME NEW u \in U, \A y \in U : Above(u, y) PROVE FALSE
      OBVIOUS
    <3>1. Above(u, x)
      BY <1>4
    <3>2. \A y \in T : Above(u, y)
      BY <1>4, <3>1
    <3> QED BY <3>2
  <2>5. U \in Bad
    BY <2>3, <2>4
  <2>6. <<U, T>> \in R
    <3>1. U \subseteq T /\ x \notin U
      BY <1>4
    <3>2. U \in SUBSET S /\ T \in SUBSET S
      OBVIOUS
    <3> HIDE DEF U
    <3> QED BY <2>2, <3>1, <3>2 DEF StrictSubsetOrdering
  <2> QED BY <2>1, <2>5, <2>6
<1>6. HasTop(S)
  BY <1>5
<1> QED BY <1>6 DEF FirstOf, Above

\* The rows a statement replaces are active and hold another value.
LEMMA ReplacedRows ==
  ASSUME NEW c, NEW now, Resolve(c, now).store
  PROVE  /\ Resolve(c, now).replace \subseteq Rivals
         /\ \A i \in Resolve(c, now).replace : beliefs[i].value # c.value
BY DEF Resolve

\* What a candidate is, extracted or promoted.
LEMMA CandidateType ==
  ASSUME NEW now \in Nat, NEW c \in Candidates(now)
  PROVE  /\ c.value \in BeliefValues
         /\ c.project \in BeliefProjects
         /\ c.source \in Source
         /\ c.conf \in 0..100
         /\ c.trust \in 100..1000
         /\ c.from \in 0..now
         /\ c.window \in Nat
<1>1. CASE c \in Extracted(now)
  <2>1. PICK v \in BeliefValues, p \in BeliefProjects, s \in Claims, x \in (0..now) \X Windows :
          c = [value |-> v, project |-> p, source |-> s[1], conf |-> s[2],
               trust |-> SourceTrust(s[1]), from |-> x[1], window |-> x[2]]
    BY <1>1 DEF Extracted
  <2>2. s[1] \in Source /\ s[2] \in 0..100
    BY BeliefAssumption
  <2>3. SourceTrust(s[1]) \in 100..1000
    BY <2>2 DEF Source, SourceTrust
  <2>4. x[1] \in 0..now /\ x[2] \in Nat
    BY BeliefAssumption
  <2> QED BY <2>1, <2>2, <2>3, <2>4
<1>2. ASSUME NEW v \in BeliefValues, NEW p \in BeliefProjects, NEW conf \in Promotions,
             c = Promotion(v, p, conf, now)
      PROVE  /\ c.value \in BeliefValues /\ c.project \in BeliefProjects
             /\ c.source \in Source /\ c.conf \in 0..100 /\ c.trust \in 100..1000
             /\ c.from \in 0..now /\ c.window \in Nat
  <2>1. conf \in 0..100
    BY BeliefAssumption
  <2> QED BY <1>2, <2>1 DEF Promotion, Source
<1> QED BY <1>1, <1>2 DEF Candidates

-----------------------------------------------------------------------------

\* Marking a row as superseded, or moving its trust, keeps its type.
LEMMA MarkedRow ==
  ASSUME NEW b \in Belief, NEW x \in Nat, NEW y \in Nat
  PROVE  [b EXCEPT !.by = x, !.to = y] \in Belief
<1>1. [b EXCEPT !.by = x] \in Belief
  BY DEF Belief
<1>2. ASSUME NEW d \in Belief PROVE [d EXCEPT !.to = y] \in Belief
  BY DEF Belief
<1>3. [b EXCEPT !.by = x, !.to = y] = [[b EXCEPT !.by = x] EXCEPT !.to = y]
  OBVIOUS
<1> QED BY <1>1, <1>2, <1>3

LEMMA CalibratedRow ==
  ASSUME NEW b \in Belief, NEW t \in 100..1000
  PROVE  [b EXCEPT !.trust = t] \in Belief
<1>1. Belief =
        [value : BeliefValues, project : BeliefProjects, source : Source, conf : 0..100,
         trust : 100..1000, from : Nat, to : Nat, window : BOOLEAN, by : Nat, replaces : Nat]
  BY DEF Belief
<1>2. b \in
        [value : BeliefValues, project : BeliefProjects, source : Source, conf : 0..100,
         trust : 100..1000, from : Nat, to : Nat, window : BOOLEAN, by : Nat, replaces : Nat]
  BY <1>1
<1>3. [b EXCEPT !.trust = t] \in
        [value : BeliefValues, project : BeliefProjects, source : Source, conf : 0..100,
         trust : 100..1000, from : Nat, to : Nat, window : BOOLEAN, by : Nat, replaces : Nat]
  BY ONLY <1>2, t \in 100..1000
<1> QED BY <1>1, <1>3

\* What storing a candidate makes of the rows, one row at a time.
Revised(c, now, replaced) ==
  /\ replaced = Resolve(c, now).replace
  /\ \A i \in replaced : beliefs[i].value # c.value
  /\ Len(beliefs') = Len(beliefs) + 1
  /\ \A i \in Rows :
       /\ i \notin replaced => beliefs'[i] = beliefs[i]
       /\ i \in replaced =>
            beliefs'[i] = [beliefs[i] EXCEPT !.by = Len(beliefs) + 1, !.to = c.from]
  /\ beliefs'[Len(beliefs) + 1] = NewBelief(c, replaced)
  /\ NewBelief(c, replaced) \in Belief
  /\ NewBelief(c, replaced).replaces \in replaced \cup {0}
  /\ beliefs' \in Seq(Belief)

\* What Upsert stores.
LEMMA UpsertRows ==
  ASSUME BeliefTypeOK, NEW now \in 0..today, NEW c \in Candidates(now), Upsert(c, now)
  PROVE  \E replaced \in SUBSET Rivals : Revised(c, now, replaced)
<1> DEFINE r == Resolve(c, now).replace
<1>1. r \in SUBSET Rivals /\ \A i \in r : beliefs[i].value # c.value
  BY ReplacedRows DEF Upsert
<1>2. beliefs' = Append(Marked(r, c.from), NewBelief(c, r)) /\ r = Resolve(c, now).replace
  BY DEF Upsert
<1> HIDE DEF r
<1>3. beliefs \in Seq(Belief) /\ Len(beliefs) \in Nat /\ Rows = 1..Len(beliefs)
  BY LenProperties DEF BeliefTypeOK, Rows
<1>4. now \in Nat
  BY BeliefAssumption DEF BeliefTypeOK
<1>5. /\ c.value \in BeliefValues /\ c.project \in BeliefProjects
      /\ c.source \in Source /\ c.conf \in 0..100 /\ c.trust \in 100..1000
      /\ c.from \in Nat /\ c.window \in Nat
  BY <1>4, CandidateType
<1>6. FirstOf(r) \in r \cup {0}
  <2>1. r \in SUBSET Rows
    BY <1>1 DEF Rivals, Rows
  <2>2. CASE r = {}
    BY <2>2 DEF FirstOf
  <2>3. CASE r # {}
    BY <2>1, <2>3, <1>3, FirstOfMember
  <2> QED BY <2>2, <2>3
<1>7. FirstOf(r) \in Nat
  BY <1>1, <1>3, <1>6 DEF Rivals, Rows
<1>8. NewBelief(c, r) \in Belief /\ NewBelief(c, r).replaces \in r \cup {0}
  BY <1>5, <1>6, <1>7 DEF NewBelief, Belief, NoEnd
<1>9. \A i \in Rows : beliefs[i] \in Belief
  BY <1>3, ElementOfSeq
<1>10. /\ Marked(r, c.from) \in Seq(Belief)
       /\ Len(Marked(r, c.from)) = Len(beliefs)
       /\ \A i \in Rows :
            /\ i \notin r => Marked(r, c.from)[i] = beliefs[i]
            /\ i \in r =>
                 Marked(r, c.from)[i] = [beliefs[i] EXCEPT !.by = Len(beliefs) + 1, !.to = c.from]
  <2>1. \A i \in Rows : [beliefs[i] EXCEPT !.by = Len(beliefs) + 1, !.to = c.from] \in Belief
    <3> SUFFICES ASSUME NEW i \in Rows
                 PROVE  [beliefs[i] EXCEPT !.by = Len(beliefs) + 1, !.to = c.from] \in Belief
      OBVIOUS
    <3>1. beliefs[i] \in Belief /\ Len(beliefs) + 1 \in Nat /\ c.from \in Nat
      BY <1>3, <1>5, <1>9
    <3> QED BY ONLY <3>1, MarkedRow
  <2>2. Marked(r, c.from) \in [1..Len(beliefs) -> Belief]
    BY <1>3, <1>9, <2>1 DEF Marked
  <2>3. Marked(r, c.from) \in Seq(Belief) /\ Len(Marked(r, c.from)) = Len(beliefs)
    BY <1>3, <2>2
  <2> QED BY <2>3 DEF Marked
<1> DEFINE m == Marked(r, c.from)
           n == NewBelief(c, r)
<1>11. m \in Seq(Belief) /\ Len(m) = Len(beliefs) /\ n \in Belief /\ beliefs' = Append(m, n)
  BY <1>2, <1>8, <1>10
<1>12. \A i \in Rows :
         /\ i \notin r => m[i] = beliefs[i]
         /\ i \in r => m[i] = [beliefs[i] EXCEPT !.by = Len(beliefs) + 1, !.to = c.from]
  BY <1>10
<1>13. n.replaces \in r \cup {0} /\ n = NewBelief(c, r)
  BY <1>8
<1> HIDE DEF m, n
<1>14. /\ Len(beliefs') = Len(beliefs) + 1
       /\ \A i \in 1..Len(beliefs) : beliefs'[i] = m[i]
       /\ beliefs'[Len(beliefs) + 1] = n
       /\ beliefs' \in Seq(Belief)
  BY <1>3, <1>11, AppendProperties
<1>15. \A i \in Rows :
         /\ i \notin r => beliefs'[i] = beliefs[i]
         /\ i \in r => beliefs'[i] = [beliefs[i] EXCEPT !.by = Len(beliefs) + 1, !.to = c.from]
  BY <1>3, <1>12, <1>14
<1>16. beliefs'[Len(beliefs) + 1] = NewBelief(c, r) /\ NewBelief(c, r) \in Belief
  BY <1>11, <1>13, <1>14
<1> r \in SUBSET Rivals
  BY <1>1
<1> WITNESS r \in SUBSET Rivals
<1> QED BY <1>1, <1>2, <1>13, <1>14, <1>15, <1>16 DEF Revised

\* Only the trust of row i moves, and it is active.
OnlyTrustMoves(i) ==
  /\ Active(i)
  /\ beliefs' \in Seq(Belief)
  /\ Len(beliefs') = Len(beliefs)
  /\ \A j \in Rows : j # i => beliefs'[j] = beliefs[j]
  /\ \E t \in 100..1000 : beliefs'[i] = [beliefs[i] EXCEPT !.trust = t]

\* What Calibrate makes of the rows.
LEMMA CalibrateRows ==
  ASSUME BeliefTypeOK, NEW i \in Rows, NEW f \in Feedback, Calibrate(i, f)
  PROVE  OnlyTrustMoves(i)
<1> DEFINE t == Clamp(beliefs[i].trust + 20 * f[1] - 30 * f[2])
<1>1. beliefs \in Seq(Belief) /\ Len(beliefs) \in Nat /\ Rows = 1..Len(beliefs)
  BY LenProperties DEF BeliefTypeOK, Rows
<1>2. \A j \in Rows : beliefs[j] \in Belief
  BY <1>1, ElementOfSeq
<1>3. t \in 100..1000
  <2>1. f[1] \in Nat /\ f[2] \in Nat
    BY BeliefAssumption
  <2>2. beliefs[i].trust \in 100..1000
    BY <1>2 DEF Belief
  <2>3. beliefs[i].trust + 20 * f[1] - 30 * f[2] \in Int
    <3>1. \A x \in 100..1000, m \in Nat, k \in Nat : x + 20 * m - 30 * k \in Int
      OBVIOUS
    <3> HIDE DEF t
    <3> QED BY ONLY <2>1, <2>2, <3>1, Zenon
  <2>4. \A z \in Int : Clamp(z) \in 100..1000
    BY DEF Clamp
  <2> HIDE DEF t
  <2>5. t = Clamp(beliefs[i].trust + 20 * f[1] - 30 * f[2])
    BY DEF t
  <2> QED BY ONLY <2>3, <2>4, <2>5, Zenon
<1>4. beliefs' = [beliefs EXCEPT ![i].trust = t] /\ Active(i)
  BY DEF Calibrate
<1> HIDE DEF t
<1> DEFINE b == [beliefs[i] EXCEPT !.trust = t]
<1>5. b \in Belief
  BY ONLY <1>2, <1>3, i \in Rows, CalibratedRow
<1>6. beliefs' = [beliefs EXCEPT ![i] = b]
  BY <1>4
<1>7. b = [beliefs[i] EXCEPT !.trust = t]
  OBVIOUS
<1> HIDE DEF b
<1>8. /\ beliefs' \in Seq(Belief) /\ Len(beliefs') = Len(beliefs)
      /\ \A j \in 1..Len(beliefs) : j # i => beliefs'[j] = beliefs[j]
      /\ beliefs'[i] = b
  BY <1>1, <1>5, <1>6, ExceptSeq
<1> QED BY <1>1, <1>3, <1>4, <1>7, <1>8 DEF OnlyTrustMoves

-----------------------------------------------------------------------------

\* The variables have their types in every reachable state.
THEOREM TypeCorrect == BeliefSpec => []BeliefTypeOK
<1>1. BeliefInit => BeliefTypeOK
  BY BeliefAssumption, EmptySeq DEF BeliefInit, BeliefTypeOK
<1>2. BeliefTypeOK /\ [BeliefNext]_beliefVars => BeliefTypeOK'
  <2> SUFFICES ASSUME BeliefTypeOK, [BeliefNext]_beliefVars PROVE BeliefTypeOK'
    OBVIOUS
  <2>1. ASSUME NEW now \in 0..today, NEW c \in Candidates(now), Upsert(c, now)
        PROVE  BeliefTypeOK'
    <3>1. beliefs' \in Seq(Belief)
      BY <2>1, UpsertRows DEF Revised
    <3>2. UNCHANGED <<kind, today, calibrations>>
      BY <2>1 DEF Upsert
    <3> QED BY <3>1, <3>2 DEF BeliefTypeOK, Belief
  <2>2. ASSUME NEW i \in Rows, NEW f \in Feedback, Calibrate(i, f)
        PROVE  BeliefTypeOK'
    <3>1. beliefs' \in Seq(Belief)
      BY <2>2, CalibrateRows DEF OnlyTrustMoves
    <3>2. UNCHANGED <<kind, today>> /\ calibrations < MaxCalibrations
          /\ calibrations' = calibrations + 1
      BY <2>2 DEF Calibrate
    <3>3. calibrations' \in 0..MaxCalibrations
      BY <3>2, BeliefAssumption DEF BeliefTypeOK
    <3> QED BY <3>1, <3>2, <3>3 DEF BeliefTypeOK, Belief
  <2>3. ASSUME TimePasses PROVE BeliefTypeOK'
    BY <2>3, BeliefAssumption DEF TimePasses, BeliefTypeOK, Belief
  <2>4. CASE UNCHANGED beliefVars
    BY <2>4 DEF beliefVars, BeliefTypeOK, Belief
  <2> QED BY <2>1, <2>2, <2>3, <2>4 DEF BeliefNext
<1> QED BY <1>1, <1>2, PTL DEF BeliefSpec

\* Storing a candidate keeps the lineage: the rows it marks were active, so
\* no row named them and the new row is their successor.
LEMMA UpsertKeepsLineage ==
  ASSUME BeliefTypeOK, Lineage, NEW now \in 0..today, NEW c \in Candidates(now), Upsert(c, now)
  PROVE  Lineage'
<1> PICK replaced \in SUBSET Rivals : Revised(c, now, replaced)
  BY UpsertRows
<1>1. /\ \A i \in replaced : beliefs[i].value # c.value
      /\ Len(beliefs') = Len(beliefs) + 1
      /\ \A i \in Rows :
           /\ i \notin replaced => beliefs'[i] = beliefs[i]
           /\ i \in replaced =>
                beliefs'[i] = [beliefs[i] EXCEPT !.by = Len(beliefs) + 1, !.to = c.from]
      /\ beliefs'[Len(beliefs) + 1] = NewBelief(c, replaced)
      /\ NewBelief(c, replaced) \in Belief
      /\ NewBelief(c, replaced).replaces \in replaced \cup {0}
      /\ beliefs' \in Seq(Belief)
  BY DEF Revised
<1>2. PICK n \in Nat : n = Len(beliefs)
  BY LenProperties DEF BeliefTypeOK
<1>3. Rows = 1..n /\ Rows' = 1..(n + 1)
  BY <1>1, <1>2, LenProperties DEF BeliefTypeOK, Rows
<1>4. \A i \in Rows : beliefs[i] \in Belief
  BY <1>2, <1>3, ElementOfSeq DEF BeliefTypeOK
<1>5. PICK new : /\ new = beliefs'[n + 1]
                 /\ new.value = c.value /\ new.from = c.from /\ new.by = 0
                 /\ new.replaces \in replaced \cup {0}
  BY <1>1, <1>2 DEF NewBelief
<1>6. \A i \in Rows \ replaced : beliefs'[i] = beliefs[i]
  BY <1>1
<1>7. \A i \in replaced : /\ i \in Rows /\ beliefs[i].by = 0
                          /\ beliefs'[i].by = n + 1 /\ beliefs'[i].to = c.from
                          /\ beliefs'[i].value = beliefs[i].value
                          /\ beliefs'[i].replaces = beliefs[i].replaces
                          /\ beliefs'[i].from = beliefs[i].from
  <2> SUFFICES ASSUME NEW i \in replaced
               PROVE  /\ i \in Rows /\ beliefs[i].by = 0
                      /\ beliefs'[i].by = n + 1 /\ beliefs'[i].to = c.from
                      /\ beliefs'[i].value = beliefs[i].value
                      /\ beliefs'[i].replaces = beliefs[i].replaces
                      /\ beliefs'[i].from = beliefs[i].from
    OBVIOUS
  <2>1. i \in Rows /\ beliefs[i].by = 0
    BY <1>1 DEF Rivals, Active
  <2>2. beliefs'[i] = [beliefs[i] EXCEPT !.by = n + 1, !.to = c.from]
    BY <1>1, <1>2, <2>1
  <2>3. beliefs[i] \in Belief
    BY <1>4, <2>1
  <2> QED BY <2>1, <2>2, <2>3 DEF Belief
<1>8. \A i \in Rows : /\ beliefs'[i].value = beliefs[i].value
                      /\ beliefs'[i].from = beliefs[i].from
                      /\ beliefs'[i].replaces = beliefs[i].replaces
                      /\ beliefs[i].by # 0 => i \notin replaced
  BY <1>6, <1>7
<1>9. \A i \in Rows : /\ ~ Active(i) => LET b == beliefs[i].by
                                        IN  /\ b \in Rows
                                            /\ b > i
                                            /\ beliefs[b].value # beliefs[i].value
                                            /\ beliefs[i].to = beliefs[b].from
                      /\ beliefs[i].replaces # 0 => /\ beliefs[i].replaces \in Rows
                                                    /\ beliefs[beliefs[i].replaces].by = i
  BY DEF Lineage
<1>10. ASSUME NEW i \in Rows', ~ Active(i)'
       PROVE  LET b == beliefs[i].by IN
              (/\ b \in Rows
               /\ b > i
               /\ beliefs[b].value # beliefs[i].value
               /\ beliefs[i].to = beliefs[b].from)'
  <2>1. beliefs'[i].by # 0
    BY <1>10 DEF Active
  <2>2. CASE i \in replaced
    <3>1. /\ beliefs'[i].by = n + 1 /\ n + 1 > i /\ n + 1 \in Rows'
          /\ beliefs'[n + 1].value # beliefs'[i].value
          /\ beliefs'[i].to = beliefs'[n + 1].from
      <4>1. beliefs'[i].by = n + 1 /\ beliefs'[i].to = c.from /\ i \in 1..n
        BY <1>3, <1>7, <2>2
      <4>2. beliefs'[i].value = beliefs[i].value /\ beliefs[i].value # c.value
        BY <1>1, <1>7, <2>2
      <4>3. beliefs'[n + 1].value = c.value /\ beliefs'[n + 1].from = c.from
        BY <1>5
      <4> QED BY <1>3, <4>1, <4>2, <4>3
    <3> QED BY <3>1
  <2>3. CASE i \in Rows \ replaced
    <3>1. beliefs'[i] = beliefs[i]
      BY <1>6, <2>3
    <3>2. PICK b \in Rows : /\ b = beliefs[i].by /\ b > i
                            /\ beliefs[b].value # beliefs[i].value
                            /\ beliefs[i].to = beliefs[b].from
      BY <1>9, <2>1, <2>3, <3>1 DEF Active
    <3>3. b \in Rows' /\ beliefs'[b].value # beliefs'[i].value /\ beliefs'[i].to = beliefs'[b].from
      BY <1>3, <1>8, <3>1, <3>2
    <3> QED BY <3>1, <3>2, <3>3
  <2>4. CASE i = n + 1
    BY <1>5, <2>1, <2>4
  <2> QED BY <1>3, <2>2, <2>3, <2>4
<1>11. ASSUME NEW i \in Rows', beliefs'[i].replaces # 0
       PROVE  beliefs'[i].replaces \in Rows' /\ beliefs'[beliefs'[i].replaces].by = i
  <2>1. CASE i = n + 1
    <3>1. PICK r \in replaced : r = beliefs'[i].replaces
      BY <1>5, <1>11, <2>1
    <3> QED BY <1>3, <1>7, <2>1, <3>1
  <2>2. CASE i \in Rows
    <3>1. PICK r \in Rows : r = beliefs[i].replaces /\ beliefs[r].by = i
      BY <1>8, <1>9, <1>11, <2>2
    <3>2. beliefs'[r] = beliefs[r]
      BY <1>3, <1>6, <1>7, <2>2, <3>1
    <3> QED BY <1>3, <1>8, <2>2, <3>1, <3>2
  <2> QED BY <1>3, <2>1, <2>2
<1> QED BY <1>10, <1>11 DEF Lineage

\* A calibration touches neither successors nor values nor dates.
LEMMA CalibrateKeepsLineage ==
  ASSUME BeliefTypeOK, Lineage, NEW i \in Rows, NEW f \in Feedback, Calibrate(i, f)
  PROVE  Lineage'
<1>0. /\ beliefs' \in Seq(Belief) /\ Len(beliefs') = Len(beliefs)
      /\ \A j \in Rows : j # i => beliefs'[j] = beliefs[j]
      /\ \E t \in 100..1000 : beliefs'[i] = [beliefs[i] EXCEPT !.trust = t]
  <2>1. OnlyTrustMoves(i)
    BY CalibrateRows
  <2> QED BY ONLY <2>1 DEF OnlyTrustMoves
<1>1. PICK n \in Nat : n = Len(beliefs)
  BY LenProperties DEF BeliefTypeOK
<1>2. Rows = 1..n /\ Rows' = 1..n
  BY <1>0, <1>1, LenProperties DEF BeliefTypeOK, Rows
<1>3. \A j \in Rows : beliefs[j] \in Belief
  BY <1>1, <1>2, ElementOfSeq DEF BeliefTypeOK
<1>4. \A j \in Rows : /\ beliefs'[j].value = beliefs[j].value
                      /\ beliefs'[j].from = beliefs[j].from
                      /\ beliefs'[j].to = beliefs[j].to
                      /\ beliefs'[j].by = beliefs[j].by
                      /\ beliefs'[j].replaces = beliefs[j].replaces
  <2>1. PICK t \in 100..1000 : beliefs'[i] = [beliefs[i] EXCEPT !.trust = t]
    BY <1>0
  <2>2. beliefs[i] \in Belief
    BY <1>3
  <2>3. /\ beliefs'[i].value = beliefs[i].value
        /\ beliefs'[i].from = beliefs[i].from
        /\ beliefs'[i].to = beliefs[i].to
        /\ beliefs'[i].by = beliefs[i].by
        /\ beliefs'[i].replaces = beliefs[i].replaces
    BY <2>1, <2>2 DEF Belief
  <2>4. \A j \in Rows : j # i => beliefs'[j] = beliefs[j]
    BY <1>0
  <2> QED BY <2>3, <2>4
<1> QED BY <1>2, <1>4 DEF Lineage, Active

\* Every superseded belief was replaced by a later row of another value whose
\* validity begins where its own ends, and a row that names a predecessor is
\* that row's successor: upsert's transaction keeps the history one story.
THEOREM LineageHolds == BeliefSpec => []Lineage
<1>1. BeliefInit => Lineage
  BY DEF BeliefInit, Lineage, Rows
<1>2. BeliefTypeOK /\ Lineage /\ [BeliefNext]_beliefVars => Lineage'
  <2> SUFFICES ASSUME BeliefTypeOK, Lineage, [BeliefNext]_beliefVars PROVE Lineage'
    OBVIOUS
  <2>1. ASSUME NEW now \in 0..today, NEW c \in Candidates(now), Upsert(c, now)
        PROVE  Lineage'
    BY <2>1, UpsertKeepsLineage
  <2>2. ASSUME NEW i \in Rows, NEW f \in Feedback, Calibrate(i, f)
        PROVE  Lineage'
    BY <2>2, CalibrateKeepsLineage
  <2>3. CASE TimePasses \/ UNCHANGED beliefVars
    BY <2>3 DEF TimePasses, beliefVars, Lineage, Rows, Active
  <2> QED BY <2>1, <2>2, <2>3 DEF BeliefNext
<1> QED BY <1>1, <1>2, TypeCorrect, PTL DEF BeliefSpec

-----------------------------------------------------------------------------

\* A project that stated the key and has no active belief of it was silenced by
\* another one: the successor of its latest row comes later, so it is not its
\* own (BeliefStore.upsert, whose canonical key names no project).
THEOREM OnlyOthersSilence == BeliefSpec => []SilencedFromOutside
<1>1. ASSUME BeliefTypeOK, Lineage PROVE SilencedFromOutside
  <2> SUFFICES ASSUME NEW p \in BeliefProjects,
                      {i \in Rows : beliefs[i].project = p} # {},
                      \A i \in {i \in Rows : beliefs[i].project = p} : ~ Active(i)
               PROVE  \E i \in {i \in Rows : beliefs[i].project = p} :
                        beliefs[beliefs[i].by].project # p
    BY DEF SilencedFromOutside
  <2> DEFINE own == {i \in Rows : beliefs[i].project = p}
             last == Max(own)
  <2>1. IsFiniteSet(Rows) /\ Rows \in SUBSET Nat
    BY <1>1, FinitePlaces DEF BeliefTypeOK, Rows
  <2>2. own \in SUBSET Rows /\ own # {}
    OBVIOUS
  <2> HIDE DEF own
  <2>3. IsFiniteSet(own) /\ own \in SUBSET Nat
    BY <2>1, <2>2, FS_Subset
  <2>4. last \in own /\ \A i \in own : i <= last
    BY <2>2, <2>3, MaxOfFinite
  <2> HIDE DEF last
  <2>5. beliefs[last].by \in Rows /\ beliefs[last].by > last
    <3>1. last \in Rows /\ ~ Active(last)
      BY <2>2, <2>4 DEF own
    <3> QED BY <1>1, <3>1 DEF Lineage
  <2>6. last \in Nat /\ beliefs[last].by \in Nat
    BY <2>1, <2>3, <2>4, <2>5
  <2>7. beliefs[last].by \notin own
    BY <2>4, <2>5, <2>6
  <2> QED BY <2>4, <2>5, <2>7 DEF own
<1> QED BY <1>1, TypeCorrect, LineageHolds, PTL

-----------------------------------------------------------------------------

\* A superseded belief is history: upsert marks active rows only and a
\* calibration selects active rows, so neither writes to it.
THEOREM HistoryIsFixed == BeliefSpec => HistoryFixed
<1> DEFINE Keeps == \A i \in Rows : ~ Active(i) => i \in DOMAIN beliefs' /\ beliefs'[i] = beliefs[i]
<1>1. BeliefTypeOK /\ [BeliefNext]_beliefVars => [Keeps]_beliefVars
  <2> SUFFICES ASSUME BeliefTypeOK, [BeliefNext]_beliefVars PROVE [Keeps]_beliefVars
    OBVIOUS
  <2>1. ASSUME NEW now \in 0..today, NEW c \in Candidates(now), Upsert(c, now)
        PROVE  Keeps
    <3> PICK replaced \in SUBSET Rivals : Revised(c, now, replaced)
      BY <2>1, UpsertRows
    <3>1. /\ Len(beliefs') = Len(beliefs) + 1
          /\ \A i \in Rows : i \notin replaced => beliefs'[i] = beliefs[i]
          /\ beliefs' \in Seq(Belief)
      BY DEF Revised
    <3>2. \A i \in Rows : ~ Active(i) => i \notin replaced
      BY DEF Rivals
    <3>3. Rows \subseteq DOMAIN beliefs'
      BY <3>1, LenProperties DEF BeliefTypeOK, Rows
    <3> QED BY <3>1, <3>2, <3>3
  <2>2. ASSUME NEW i \in Rows, NEW f \in Feedback, Calibrate(i, f)
        PROVE  Keeps
    <3>1. OnlyTrustMoves(i)
      BY <2>2, CalibrateRows
    <3>2. Rows = DOMAIN beliefs'
      BY <3>1, LenProperties DEF BeliefTypeOK, Rows, OnlyTrustMoves
    <3> QED BY <3>1, <3>2 DEF OnlyTrustMoves
  <2>3. CASE TimePasses \/ UNCHANGED beliefVars
    BY <2>3 DEF TimePasses, beliefVars, Rows
  <2> QED BY <2>1, <2>2, <2>3 DEF BeliefNext
<1> QED BY <1>1, TypeCorrect, PTL DEF BeliefSpec, HistoryFixed

-----------------------------------------------------------------------------

\* What SilentOnlyAfterWindow rests on: a key with rows has an active one, the
\* dates are past, and only statements about a window end by themselves.
Standing ==
  /\ Rows # {} => \E i \in Rows : Active(i)
  /\ \A i \in Rows : /\ beliefs[i].from <= today
                     /\ Active(i) /\ ~ beliefs[i].window => beliefs[i].to = NoEnd

LEMMA UpsertKeepsStanding ==
  ASSUME BeliefTypeOK, Standing, NEW now \in 0..today, NEW c \in Candidates(now), Upsert(c, now)
  PROVE  Standing'
<1> PICK replaced \in SUBSET Rivals : Revised(c, now, replaced)
  BY UpsertRows
<1>1. /\ Len(beliefs') = Len(beliefs) + 1
      /\ \A i \in Rows :
           /\ i \notin replaced => beliefs'[i] = beliefs[i]
           /\ i \in replaced =>
                beliefs'[i] = [beliefs[i] EXCEPT !.by = Len(beliefs) + 1, !.to = c.from]
      /\ beliefs'[Len(beliefs) + 1] = NewBelief(c, replaced)
      /\ beliefs' \in Seq(Belief)
  BY DEF Revised
<1>2. PICK n \in Nat : n = Len(beliefs)
  BY LenProperties DEF BeliefTypeOK
<1>3. Rows = 1..n /\ Rows' = 1..(n + 1)
  BY <1>1, <1>2, LenProperties DEF BeliefTypeOK, Rows
<1>4. \A i \in Rows : beliefs[i] \in Belief
  BY <1>2, <1>3, ElementOfSeq DEF BeliefTypeOK
<1>5. today \in Nat /\ today' = today /\ now \in Nat /\ now <= today
  BY BeliefAssumption DEF BeliefTypeOK, Upsert
<1>6. c.from \in Nat /\ c.from <= today /\ c.window \in Nat
  BY <1>5, CandidateType
<1>7. PICK new : /\ new = beliefs'[n + 1]
                 /\ new.from = c.from /\ new.by = 0
                 /\ ~ new.window => new.to = NoEnd
  <2>1. NewBelief(c, replaced).from = c.from /\ NewBelief(c, replaced).by = 0
    BY DEF NewBelief
  <2>2. ~ NewBelief(c, replaced).window => NewBelief(c, replaced).to = NoEnd
    BY DEF NewBelief
  <2> QED BY <1>1, <1>2, <2>1, <2>2
<1>8. \A i \in Rows' : beliefs'[i].from <= today
  <2> SUFFICES ASSUME NEW i \in Rows' PROVE beliefs'[i].from <= today
    OBVIOUS
  <2>1. CASE i = n + 1
    BY <1>6, <1>7, <2>1
  <2>2. CASE i \in Rows \ replaced
    BY <1>1, <2>2 DEF Standing
  <2>3. CASE i \in replaced
    <3>1. i \in Rows
      BY <2>3 DEF Rivals
    <3>2. beliefs'[i].from = beliefs[i].from
      <4>1. beliefs'[i] = [beliefs[i] EXCEPT !.by = Len(beliefs) + 1, !.to = c.from]
        BY <1>1, <2>3, <3>1
      <4>2. beliefs[i] \in Belief
        BY <1>4, <3>1
      <4> QED BY <4>1, <4>2 DEF Belief
    <3> QED BY <3>1, <3>2 DEF Standing
  <2> QED BY <1>3, <2>1, <2>2, <2>3
<1>9. \A i \in Rows' : beliefs'[i].by = 0 /\ ~ beliefs'[i].window => beliefs'[i].to = NoEnd
  <2> SUFFICES ASSUME NEW i \in Rows', beliefs'[i].by = 0, ~ beliefs'[i].window
               PROVE  beliefs'[i].to = NoEnd
    OBVIOUS
  <2>1. CASE i = n + 1
    BY <1>7, <2>1
  <2>2. CASE i \in Rows \ replaced
    BY <1>1, <2>2 DEF Standing, Active
  <2>3. CASE i \in replaced
    <3>1. i \in Rows
      BY <2>3 DEF Rivals
    <3>2. beliefs'[i].by = n + 1
      <4>1. beliefs'[i] = [beliefs[i] EXCEPT !.by = n + 1, !.to = c.from]
        BY <1>1, <1>2, <2>3, <3>1
      <4>2. beliefs[i] \in Belief
        BY <1>4, <3>1
      <4> QED BY <4>1, <4>2 DEF Belief
    <3> QED BY <3>2
  <2> QED BY <1>3, <2>1, <2>2, <2>3
<1>10. n + 1 \in Rows' /\ beliefs'[n + 1].by = 0
  BY <1>3, <1>7
<1> QED BY <1>5, <1>8, <1>9, <1>10 DEF Standing, Active

LEMMA CalibrateKeepsStanding ==
  ASSUME BeliefTypeOK, Standing, NEW i \in Rows, NEW f \in Feedback, Calibrate(i, f)
  PROVE  Standing'
<1>1. /\ beliefs' \in Seq(Belief) /\ Len(beliefs') = Len(beliefs)
      /\ \A j \in Rows : j # i => beliefs'[j] = beliefs[j]
      /\ \E t \in 100..1000 : beliefs'[i] = [beliefs[i] EXCEPT !.trust = t]
  <2>1. OnlyTrustMoves(i)
    BY CalibrateRows
  <2> QED BY ONLY <2>1 DEF OnlyTrustMoves
<1>2. Rows' = Rows /\ today' = today
  BY <1>1, LenProperties DEF BeliefTypeOK, Rows, Calibrate
<1>3. \A j \in Rows : beliefs[j] \in Belief
  <2>1. Rows = 1..Len(beliefs)
    BY LenProperties DEF BeliefTypeOK, Rows
  <2> QED BY <2>1, ElementOfSeq DEF BeliefTypeOK
<1>4. \A j \in Rows : /\ beliefs'[j].from = beliefs[j].from
                      /\ beliefs'[j].to = beliefs[j].to
                      /\ beliefs'[j].by = beliefs[j].by
                      /\ beliefs'[j].window = beliefs[j].window
  <2>1. PICK t \in 100..1000 : beliefs'[i] = [beliefs[i] EXCEPT !.trust = t]
    BY <1>1
  <2>2. beliefs[i] \in Belief
    BY <1>3
  <2>3. /\ beliefs'[i].from = beliefs[i].from
        /\ beliefs'[i].to = beliefs[i].to
        /\ beliefs'[i].by = beliefs[i].by
        /\ beliefs'[i].window = beliefs[i].window
    BY <2>1, <2>2 DEF Belief
  <2>4. \A j \in Rows : j # i => beliefs'[j] = beliefs[j]
    BY <1>1
  <2> QED BY <2>3, <2>4
<1> QED BY <1>2, <1>4 DEF Standing, Active

\* Every reachable state has it.
LEMMA StandingHolds == BeliefSpec => []Standing
<1>1. BeliefInit => Standing
  BY DEF BeliefInit, Standing, Rows
<1>2. BeliefTypeOK /\ Standing /\ [BeliefNext]_beliefVars => Standing'
  <2> SUFFICES ASSUME BeliefTypeOK, Standing, [BeliefNext]_beliefVars PROVE Standing'
    OBVIOUS
  <2>1. ASSUME NEW now \in 0..today, NEW c \in Candidates(now), Upsert(c, now)
        PROVE  Standing'
    BY <2>1, UpsertKeepsStanding
  <2>2. ASSUME NEW i \in Rows, NEW f \in Feedback, Calibrate(i, f)
        PROVE  Standing'
    BY <2>2, CalibrateKeepsStanding
  <2>3. CASE TimePasses
    <3>1. beliefs' = beliefs /\ today' = today + 1 /\ today \in Nat
      BY <2>3, BeliefAssumption DEF TimePasses, BeliefTypeOK
    <3>2. Rows' = Rows
      BY <3>1 DEF Rows
    <3>3. \A i \in Rows : beliefs[i].from \in Nat
      <4>1. Rows = 1..Len(beliefs)
        BY LenProperties DEF BeliefTypeOK, Rows
      <4>2. \A i \in Rows : beliefs[i] \in Belief
        BY <4>1, ElementOfSeq DEF BeliefTypeOK
      <4> QED BY <4>2 DEF Belief
    <3>4. \A i \in Rows : beliefs[i].from <= today + 1
      BY <3>1, <3>3 DEF Standing
    <3> QED BY <3>1, <3>2, <3>4 DEF Standing, Active
  <2>4. CASE UNCHANGED beliefVars
    BY <2>4 DEF beliefVars, Standing, Rows, Active
  <2> QED BY <2>1, <2>2, <2>3, <2>4 DEF BeliefNext
<1> QED BY <1>1, <1>2, TypeCorrect, PTL DEF BeliefSpec

\* A key that was ever stated has an answer today, unless a statement about a
\* passing window replaced the standing one: revision alone silences no key.
THEOREM SilenceNeedsAWindow == BeliefSpec => []SilentOnlyAfterWindow
<1>1. Standing => SilentOnlyAfterWindow
  BY DEF Standing, SilentOnlyAfterWindow, Believed
<1> QED BY <1>1, StandingHolds, PTL

-----------------------------------------------------------------------------
(* The latest preference.  What a newer preference lacks in confidence, at
   most 17 points of weight 28, is less than the margin it may lack; and it is
   never less fresh than an older one. *)

\* How fresh a preference is after some units of its half-life.
LEMMA PreferenceFreshness ==
  ASSUME NEW age \in Nat
  PROVE  Freshness(age, 1) =
           IF age >= 10 THEN 0 ELSE 1000 \div (<<1, 2, 4, 8, 16, 32, 64, 128, 256, 512>>[age + 1])
<1> DEFINE ninths  == IF age <= 0 THEN 0 ELSE (age * 9) \div 1
           partial == <<1000, 926, 857, 794, 735, 680, 630, 583, 540>>
           halves  == <<1, 2, 4, 8, 16, 32, 64, 128, 256, 512>>
<1>1. ninths = 9 * age
  OBVIOUS
<1>2. partial[1] = 1000
  OBVIOUS
<1>3. Freshness(age, 1) = IF ninths >= 90 THEN 0
                          ELSE partial[(ninths % 9) + 1] \div halves[(ninths \div 9) + 1]
  BY DEF Freshness
<1> HIDE DEF ninths, partial
<1>4. (9 * age) % 9 = 0 /\ (9 * age) \div 9 = age
  OBVIOUS
<1>5. ninths >= 90 <=> age >= 10
  BY <1>1
<1>6. partial[(ninths % 9) + 1] = 1000 /\ ninths \div 9 = age
  BY <1>1, <1>2, <1>4
<1> HIDE DEF halves
<1>7. Freshness(age, 1) = IF age >= 10 THEN 0 ELSE 1000 \div halves[age + 1]
  BY <1>3, <1>5, <1>6
<1> QED BY <1>7 DEF halves

\* A preference fades.
LEMMA FreshnessFalls ==
  ASSUME NEW a \in Nat, NEW b \in Nat, a <= b
  PROVE  /\ Freshness(a, 1) \in Nat /\ Freshness(b, 1) \in Nat
         /\ Freshness(b, 1) <= Freshness(a, 1)
<1> DEFINE halves == <<1, 2, 4, 8, 16, 32, 64, 128, 256, 512>>
           left(x) == CASE x = 0 -> 1000 [] x = 1 -> 500 [] x = 2 -> 250 [] x = 3 -> 125
                        [] x = 4 -> 62 [] x = 5 -> 31 [] x = 6 -> 15 [] x = 7 -> 7
                        [] x = 8 -> 3 [] x = 9 -> 1
<1>1. /\ 1000 \div 1 = 1000 /\ 1000 \div 2 = 500 /\ 1000 \div 4 = 250 /\ 1000 \div 8 = 125
      /\ 1000 \div 16 = 62 /\ 1000 \div 32 = 31 /\ 1000 \div 64 = 15 /\ 1000 \div 128 = 7
      /\ 1000 \div 256 = 3 /\ 1000 \div 512 = 1
  OBVIOUS
<1>2. ASSUME NEW x \in 0..9 PROVE 1000 \div halves[x + 1] = left(x)
  <2>1. /\ halves[1] = 1 /\ halves[2] = 2 /\ halves[3] = 4 /\ halves[4] = 8 /\ halves[5] = 16
        /\ halves[6] = 32 /\ halves[7] = 64 /\ halves[8] = 128 /\ halves[9] = 256 /\ halves[10] = 512
    OBVIOUS
  <2> HIDE DEF halves
  <2>2. x \in {0, 1, 2, 3, 4, 5, 6, 7, 8, 9}
    OBVIOUS
  <2> QED BY <1>1, <2>1, <2>2
<1>3. ASSUME NEW x \in Nat PROVE Freshness(x, 1) = IF x >= 10 THEN 0 ELSE left(x)
  <2>1. Freshness(x, 1) = IF x >= 10 THEN 0 ELSE 1000 \div halves[x + 1]
    BY PreferenceFreshness
  <2>2. x >= 10 \/ x \in 0..9
    OBVIOUS
  <2> HIDE DEF halves, left
  <2> QED BY <1>2, <2>1, <2>2
<1>4. \A x, y \in 0..9 : left(x) \in Nat /\ (x <= y => left(y) <= left(x))
  <2>1. ASSUME NEW x \in 0..9 PROVE x \in {0, 1, 2, 3, 4, 5, 6, 7, 8, 9}
    OBVIOUS
  <2> QED BY <2>1
<1> HIDE DEF left
<1> QED BY <1>3, <1>4

\* The newer of two preferences of a source wins, if its confidence is at most
\* 17 points lower and neither trust was calibrated.
LEMMA NewerBeats ==
  ASSUME kind = "preference", NEW now \in Nat, NEW c, NEW b,
         c.source = b.source, c.from \in Nat, b.from \in Nat, b.from < c.from, c.from <= now,
         c.conf \in 0..100, b.conf \in 0..100, b.conf - c.conf <= 17,
         c.trust = SourceTrust(c.source), b.trust = SourceTrust(b.source),
         c.trust \in Nat
  PROVE  Beats(c, b, now)
<1>1. Weights(c.source) = <<28, 22, 38, 12>> /\ HalfLife(c.source) = 1
  BY DEF Weights, HalfLife
<1>2. PICK f \in Nat, g \in Nat :
        f = Freshness(now - c.from, 1) /\ g = Freshness(now - b.from, 1) /\ g <= f
  <2>1. now - c.from \in Nat /\ now - b.from \in Nat /\ now - c.from <= now - b.from
    OBVIOUS
  <2> QED BY <2>1, FreshnessFalls
<1>3. PICK t \in Nat : t = c.trust /\ t = SourceTrust(c.source) /\ t = b.trust
  OBVIOUS
<1>4. PICK x \in 0..100, y \in 0..100 : x = c.conf /\ y = b.conf /\ y - x <= 17
  OBVIOUS
<1>5. Strength(c, now) = 20 * x * 28 + (t + t) * 22 + 2 * f * 38 + 2 * 680 * 12
  BY <1>1, <1>2, <1>3, <1>4 DEF Strength, ProjectScopeWeight
<1>6. Strength(b, now) = 20 * y * 28 + (t + t) * 22 + 2 * g * 38 + 2 * 680 * 12
  BY <1>1, <1>2, <1>3, <1>4 DEF Strength, ProjectScopeWeight
<1>7. Strength(c, now) - Strength(b, now) > -10000
  BY <1>2, <1>4, <1>5, <1>6
<1> QED BY <1>7 DEF Beats

\* When every rival holds another value and is beaten, all are replaced.
LEMMA AllReplaced ==
  ASSUME NEW c, NEW now, Rivals # {},
         \A i \in Rivals : beliefs[i].value # c.value /\ Beats(c, beliefs[i], now)
  PROVE  Resolve(c, now).replace = Rivals
<1> DEFINE same     == {i \in Rivals : beliefs[i].value = c.value}
           beaten   == {i \in Rivals \ same : Beats(c, beliefs[i], now)}
           stronger == {i \in Rivals \ same : IsBeatenBy(c, beliefs[i], now)}
<1>1. same = {}
  OBVIOUS
<1>2. beaten = Rivals
  BY <1>1
<1>3. stronger = {}
  BY <1>2 DEF IsBeatenBy
<1>4. Resolve(c, now) =
        CASE Rivals = {} -> [store |-> TRUE, replace |-> {}]
          [] Rivals # {} /\ same = Rivals -> [store |-> Strength(c, now) >= 144000, replace |-> {}]
          [] beaten # {} /\ stronger = {} -> [store |-> TRUE, replace |-> beaten]
          [] Rivals # {} /\ stronger = Rivals -> [store |-> FALSE, replace |-> {}]
          [] OTHER -> [store |-> TRUE, replace |-> {}]
  BY DEF Resolve
<1> HIDE DEF same, beaten, stronger
<1> QED BY <1>1, <1>2, <1>3, <1>4

\* Storing a candidate keeps the invariant: a newer preference either repeats
\* the value that is active or replaces every row that holds it.
LEMMA UpsertKeepsPreference ==
  ASSUME BeliefTypeOK, LatestPreferenceWins, NEW now \in 0..today, NEW c \in Candidates(now), Upsert(c, now)
  PROVE  LatestPreferenceWins'
<1> PICK replaced \in SUBSET Rivals : Revised(c, now, replaced)
  BY UpsertRows
<1>1. /\ replaced = Resolve(c, now).replace
      /\ Len(beliefs') = Len(beliefs) + 1
      /\ \A i \in Rows :
           /\ i \notin replaced => beliefs'[i] = beliefs[i]
           /\ i \in replaced =>
                beliefs'[i] = [beliefs[i] EXCEPT !.by = Len(beliefs) + 1, !.to = c.from]
      /\ beliefs'[Len(beliefs) + 1] = NewBelief(c, replaced)
      /\ beliefs' \in Seq(Belief)
  BY DEF Revised
<1>2. PICK n \in Nat : n = Len(beliefs) /\ Rows = 1..n
  BY LenProperties DEF BeliefTypeOK, Rows
<1>3. Rows' = 1..(n + 1) /\ Len(beliefs') = n + 1
  BY <1>1, <1>2, LenProperties DEF Rows
<1>4. \A i \in 1..n : beliefs[i] \in Belief
  BY <1>2, ElementOfSeq DEF BeliefTypeOK
<1>5. ASSUME NEW i \in 1..n
      PROVE  /\ beliefs'[i].source = beliefs[i].source /\ beliefs'[i].conf = beliefs[i].conf
             /\ beliefs'[i].from = beliefs[i].from /\ beliefs'[i].value = beliefs[i].value
             /\ beliefs'[i].trust = beliefs[i].trust
             /\ i \notin replaced => beliefs'[i].by = beliefs[i].by
             /\ i \in replaced => beliefs'[i].by = n + 1
  <2>1. beliefs[i] \in Belief
    BY <1>4
  <2>2. \/ i \notin replaced /\ beliefs'[i] = beliefs[i]
        \/ i \in replaced /\ beliefs'[i] = [beliefs[i] EXCEPT !.by = n + 1, !.to = c.from]
    BY <1>1, <1>2
  <2>3. CASE i \notin replaced /\ beliefs'[i] = beliefs[i]
    BY <2>3
  <2>4. CASE i \in replaced /\ beliefs'[i] = [beliefs[i] EXCEPT !.by = n + 1, !.to = c.from]
    BY <2>1, <2>4 DEF Belief
  <2> QED BY <2>2, <2>3, <2>4
<1>6. /\ beliefs'[n + 1].source = c.source /\ beliefs'[n + 1].conf = c.conf
      /\ beliefs'[n + 1].from = c.from /\ beliefs'[n + 1].value = c.value
      /\ beliefs'[n + 1].trust = c.trust
  <2>1. beliefs'[n + 1] = NewBelief(c, replaced)
    BY <1>1, <1>2
  <2>2. \A b : b = NewBelief(c, replaced) =>
          /\ b.source = c.source /\ b.conf = c.conf /\ b.from = c.from
          /\ b.value = c.value /\ b.trust = c.trust
    BY DEF NewBelief
  <2> QED BY <2>1, <2>2
<1>7. now \in Nat /\ c.conf \in 0..100 /\ c.trust \in Nat /\ c.from \in Nat /\ c.from <= now
  <2>1. now \in Nat
    BY BeliefAssumption DEF BeliefTypeOK
  <2>2. c.trust \in 100..1000 /\ c.from \in 0..now /\ c.conf \in 0..100
    BY <2>1, CandidateType
  <2> QED BY <2>1, <2>2
<1>8. UNCHANGED <<kind, calibrations>>
  BY DEF Upsert
<1>9. ASSUME kind = "preference", calibrations = 0,
             \A i, j \in 1..(n + 1) :
               /\ beliefs'[i].trust = SourceTrust(beliefs'[i].source)
               /\ beliefs'[i].source = beliefs'[j].source
               /\ beliefs'[i].conf - beliefs'[j].conf <= 17
               /\ i < j => beliefs'[i].from < beliefs'[j].from,
             NEW i \in 1..n, i \notin replaced, Active(i)
      PROVE  beliefs[i].value = c.value
  <2>1. n > 0 /\ n + 1 \in 1..(n + 1) /\ 1..n \subseteq 1..(n + 1)
    BY <1>2
  <2>2. \A j \in 1..n : Active(j) => beliefs[j].value = beliefs[n].value
    <3>1. \A j, k \in Rows : /\ beliefs[j].trust = SourceTrust(beliefs[j].source)
                             /\ beliefs[j].source = beliefs[k].source
                             /\ beliefs[j].conf - beliefs[k].conf <= 17
                             /\ j < k => beliefs[j].from < beliefs[k].from
      BY <1>2, <1>5, <1>9, <2>1
    <3> QED BY <1>2, <1>9, <3>1 DEF LatestPreferenceWins
  <2>3. SUFFICES ASSUME beliefs[i].value # c.value PROVE FALSE
    OBVIOUS
  <2>4. ASSUME NEW j \in Rivals
        PROVE  beliefs[j].value # c.value /\ Beats(c, beliefs[j], now)
    <3>1. j \in 1..n /\ Active(j)
      BY <1>2 DEF Rivals
    <3>2. beliefs[j].value # c.value
      BY <1>9, <2>2, <2>3, <3>1
    <3>3. PICK b : b = beliefs[j]
      OBVIOUS
    <3>4. b.source = c.source /\ b.conf - c.conf <= 17 /\ b.from < c.from
      BY <1>2, <1>5, <1>6, <1>9, <2>1, <3>1, <3>3
    <3>5. b.from \in Nat /\ b.conf \in 0..100
      <4>1. b \in Belief
        BY <1>4, <3>1, <3>3
      <4> QED BY <4>1 DEF Belief
    <3>6. b.trust = SourceTrust(b.source) /\ c.trust = SourceTrust(c.source)
      BY <1>5, <1>6, <1>9, <2>1, <3>1, <3>3
    <3>7. Beats(c, b, now)
      BY <1>7, <1>9, <3>4, <3>5, <3>6, NewerBeats
    <3> QED BY <3>2, <3>3, <3>7
  <2>5. i \in Rivals
    BY <1>2, <1>9 DEF Rivals
  <2>6. replaced = Rivals
    BY <1>1, <2>4, <2>5, AllReplaced
  <2> QED BY <1>9, <2>5, <2>6
<1>10. LatestPreferenceWins'
  <2> SUFFICES ASSUME kind = "preference", calibrations = 0,
                      \A i, j \in 1..(n + 1) :
                        /\ beliefs'[i].trust = SourceTrust(beliefs'[i].source)
                        /\ beliefs'[i].source = beliefs'[j].source
                        /\ beliefs'[i].conf - beliefs'[j].conf <= 17
                        /\ i < j => beliefs'[i].from < beliefs'[j].from,
                      NEW i \in 1..(n + 1), beliefs'[i].by = 0
               PROVE  beliefs'[i].value = beliefs'[n + 1].value
    BY <1>3, <1>8 DEF LatestPreferenceWins, Active
  <2>1. CASE i = n + 1
    BY <2>1
  <2>2. CASE i \in 1..n
    <3>1. i \notin replaced /\ Active(i)
      BY <1>2, <1>5, <2>2 DEF Active
    <3>2. beliefs[i].value = c.value
      BY <1>9, <2>2, <3>1
    <3> QED BY <1>5, <1>6, <2>2, <3>2
  <2> QED BY <1>2, <2>1, <2>2
<1> QED BY <1>10

\* A newer preference wins: as long as no trust was calibrated, preferences
\* of one source, in the order of their dates and with confidences within 17
\* points, leave only the latest value active (BeliefStore.upsert).
THEOREM LatestPreference == BeliefSpec => []LatestPreferenceWins
<1>1. BeliefInit => LatestPreferenceWins
  BY DEF BeliefInit, LatestPreferenceWins, Rows
<1>2. BeliefTypeOK /\ LatestPreferenceWins /\ [BeliefNext]_beliefVars => LatestPreferenceWins'
  <2> SUFFICES ASSUME BeliefTypeOK, LatestPreferenceWins, [BeliefNext]_beliefVars PROVE LatestPreferenceWins'
    OBVIOUS
  <2>1. ASSUME NEW now \in 0..today, NEW c \in Candidates(now), Upsert(c, now)
        PROVE  LatestPreferenceWins'
    BY <2>1, UpsertKeepsPreference
  <2>2. ASSUME NEW i \in Rows, NEW f \in Feedback, Calibrate(i, f)
        PROVE  LatestPreferenceWins'
    <3>1. calibrations' = calibrations + 1 /\ calibrations \in Nat
      BY <2>2, BeliefAssumption DEF Calibrate, BeliefTypeOK
    <3>2. calibrations' # 0
      BY <3>1
    <3> QED BY <3>2 DEF LatestPreferenceWins
  <2>3. CASE UNCHANGED <<kind, beliefs, calibrations>>
    BY <2>3 DEF LatestPreferenceWins, Rows, Active
  <2> QED BY <2>1, <2>2, <2>3 DEF BeliefNext, TimePasses, beliefVars
<1> QED BY <1>1, <1>2, TypeCorrect, PTL DEF BeliefSpec

=============================================================================
