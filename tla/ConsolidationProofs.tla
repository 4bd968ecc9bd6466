------------------------- MODULE ConsolidationProofs -------------------------
(***************************************************************************)
(* Theorems about Proposals and OfflineConsolidation, the two components   *)
(* that change what is already in force, for every value of their          *)
(* constants.                                                              *)
(*                                                                         *)
(* Proposals.  What the configuration file holds follows from the ledger:  *)
(* each applied proposal has saved the file as it was, and the saved files *)
(* lie on each other like the applications did.  The invariant says so of  *)
(* every place of the stack of applied proposals, and of the call that is  *)
(* under way.                                                              *)
(*                                                                         *)
(* OfflineConsolidation.  A run decides from what it read before its       *)
(* reviews.  The invariant says what may have changed of that meanwhile    *)
(* (Reviewed: nothing but a deletion), that only a retired fact has a      *)
(* successor (Replaced), that a fact was moved only off a merged instance  *)
(* or bound where it was bound to none (Moved), and that a high confidence *)
(* needs the grounds a verification needs (Strong), since the next run     *)
(* verifies by confidence alone.                                           *)
(***************************************************************************)
EXTENDS Proposals, OfflineConsolidation, SetLemmas, TLAPS

CallStates ==
  {NoCall} \cup [phase : {"reading", "restoring", "restored"}]
           \cup [phase : {"writing", "written"}, previous : Files]

ProposalTypes ==
  /\ ProposalTypeOK
  /\ calls \in [ProposalIds -> CallStates]
  /\ \A p \in ProposalIds : ledger[p].status = "applied" =>
                              \E n \in DOMAIN inForce : inForce[n] = p

\* The value of a key after the first n applications of a sequence.
After(s, n, k) ==
  LET setters == {m \in 1..n : k \in Change[s[m]]}
  IN  IF setters = {} THEN Original
      ELSE s[CHOOSE m \in setters : \A i \in setters : i <= m]

Laid(file) == \A k \in Keys : file[k] = After(inForce, Len(inForce), k)

\* The applied proposals, each with the file below it.
Stacked ==
  \A n \in DOMAIN inForce :
    /\ ledger[inForce[n]].status = "applied"
    /\ \A k \in Keys : ledger[inForce[n]].previous[k] = After(inForce, n - 1, k)
    /\ \A m \in DOMAIN inForce : inForce[m] = inForce[n] => m = n

\* How far a call has come.
Underway(p) ==
  LET phase == calls[p].phase
  IN  /\ phase \in {"reading", "writing", "written"} => ledger[p].status = "approved"
      /\ phase \in {"writing", "written"} => Laid(calls[p].previous)
      /\ phase = "written" => config = Merged(p, calls[p].previous)
      /\ phase \in {"restoring", "restored"} => /\ Len(inForce) # 0
                                                /\ inForce[Len(inForce)] = p
      /\ phase = "restored" => config = ledger[p].previous

Changed(p) == calls[p].phase \in {"written", "restored"}

InOrder ==
  /\ \A p, q \in Busy : p = q
  /\ Stacked
  /\ \A p \in ProposalIds : Underway(p)
  /\ (\A p \in ProposalIds : ~ Changed(p)) => Laid(config)

PropInv == ProposalTypes /\ (orderly => InOrder)

-----------------------------------------------------------------------------
(* What a sequence of applications leaves. *)

LEMMA AfterNone == \A s, k : After(s, 0, k) = Original
<1>1. 1..0 = {}
  OBVIOUS
<1> QED BY <1>1 DEF After

\* One application sets the keys it changes and leaves the others.
LEMMA AfterOneMore ==
  ASSUME NEW s, NEW n \in Nat, NEW k
  PROVE  After(s, n + 1, k) = IF k \in Change[s[n + 1]] THEN s[n + 1] ELSE After(s, n, k)
<1> DEFINE below == {m \in 1..n : k \in Change[s[m]]}
           upto  == {m \in 1..(n + 1) : k \in Change[s[m]]}
<1>1. CASE k \in Change[s[n + 1]]
  <2>1. n + 1 \in upto /\ \A i \in upto : i <= n + 1
    BY <1>1
  <2>2. \A m \in upto : (\A i \in upto : i <= m) => m = n + 1
    BY <2>1
  <2> DEFINE last == CHOOSE m \in upto : \A i \in upto : i <= m
  <2>3. last = n + 1
    <3> HIDE DEF upto
    <3> QED BY <2>1, <2>2
  <2>4. upto # {}
    BY <2>1
  <2>5. After(s, n + 1, k) = IF upto = {} THEN Original ELSE s[last]
    BY DEF After
  <2> HIDE DEF upto, last
  <2> QED BY <1>1, <2>3, <2>4, <2>5
<1>2. CASE k \notin Change[s[n + 1]]
  <2>1. upto = below
    BY <1>2
  <2>2. After(s, n + 1, k) = IF upto = {} THEN Original
                             ELSE s[CHOOSE m \in upto : \A i \in upto : i <= m]
    BY DEF After
  <2>3. After(s, n, k) = IF below = {} THEN Original
                         ELSE s[CHOOSE m \in below : \A i \in below : i <= m]
    BY DEF After
  <2> HIDE DEF upto, below
  <2> QED BY <1>2, <2>1, <2>2, <2>3
<1> QED BY <1>1, <1>2

\* Only the applications counted matter.
LEMMA AfterSame ==
  ASSUME NEW s, NEW t, NEW n \in Nat, \A m \in 1..n : s[m] = t[m], NEW k
  PROVE  After(s, n, k) = After(t, n, k)
<1> DEFINE of(u) == {m \in 1..n : k \in Change[u[m]]}
<1>1. of(s) = of(t)
  OBVIOUS
<1> DEFINE last == CHOOSE m \in of(s) : \A i \in of(s) : i <= m
<1>2. CASE of(s) = {}
  BY <1>1, <1>2 DEF After
<1>3. CASE of(s) # {}
  <2>1. After(s, n, k) = s[last] /\ After(t, n, k) = t[last]
    BY <1>1, <1>3 DEF After
  <2>2. of(s) \in SUBSET (1..n) /\ IsFiniteSet(1..n) /\ 1..n \in SUBSET Int
    BY FS_Interval
  <2>3. IsFiniteSet(of(s)) /\ of(s) \in SUBSET Int
    BY <2>2, FS_Subset
  <2>4. \E m \in of(s) : \A i \in of(s) : i <= m
    <3> HIDE DEF of
    <3> QED BY <1>3, <2>3, MaxOfFinite
  <2>5. last \in of(s)
    <3> HIDE DEF of
    <3> QED BY <2>4
  <2>6. last \in 1..n
    BY <2>2, <2>5
  <2> QED BY <2>1, <2>6
<1> QED BY <1>2, <1>3

LEMMA NewestIsAfter ==
  ASSUME inForce \in Seq(ProposalIds), NEW k
  PROVE  Newest(k) = After(inForce, Len(inForce), k)
<1>1. DOMAIN inForce = 1..Len(inForce)
  BY LenProperties
<1> QED BY <1>1 DEF Newest, After

-----------------------------------------------------------------------------
(* Types. *)

LEMMA CallFacts ==
  ASSUME ProposalTypes, NEW p \in ProposalIds
  PROVE  /\ calls[p].phase \in {"none", "reading", "writing", "written", "restoring", "restored"}
         /\ p \notin Busy <=> calls[p].phase = "none"
         /\ calls[p].phase \in {"writing", "written"} =>
              /\ calls[p].previous \in Files
              /\ calls[p] = [phase |-> calls[p].phase, previous |-> calls[p].previous]
<1>1. calls[p] \in CallStates
  BY DEF ProposalTypes
<1>2. NoCall.phase = "none"
  BY DEF NoCall
<1>3. CASE calls[p] = NoCall
  BY <1>2, <1>3 DEF Busy
<1>4. CASE calls[p] \in [phase : {"reading", "restoring", "restored"}]
  BY <1>2, <1>4 DEF Busy
<1>5. CASE calls[p] \in [phase : {"writing", "written"}, previous : Files]
  BY <1>2, <1>5 DEF Busy
<1> QED BY <1>1, <1>3, <1>4, <1>5 DEF CallStates

LEMMA PhasesOf ==
  \A state \in CallStates :
    state.phase \in {"none", "reading", "writing", "written", "restoring", "restored"}
<1> SUFFICES ASSUME NEW state \in CallStates
             PROVE  state.phase \in {"none", "reading", "writing", "written", "restoring", "restored"}
  OBVIOUS
<1>1. CASE state = NoCall
  BY <1>1 DEF NoCall
<1>2. CASE state \in [phase : {"reading", "restoring", "restored"}]
  BY <1>2
<1>3. CASE state \in [phase : {"writing", "written"}, previous : Files]
  BY <1>3
<1> QED BY <1>1, <1>2, <1>3 DEF CallStates

\* The types after a step follow from those of the variables it changes.
LEMMA TypesAfter ==
  ASSUME ledger' \in [ProposalIds -> [status : Statuses, previous : Files]],
         config' \in Files, evaluating' \subseteq ProposalIds,
         calls' \in [ProposalIds -> CallStates], inForce' \in Seq(ProposalIds), orderly' \in BOOLEAN,
         \A p \in ProposalIds : ledger'[p].status = "applied" => \E n \in DOMAIN inForce' : inForce'[n] = p
  PROVE  ProposalTypes'
BY PhasesOf DEF ProposalTypes, ProposalTypeOK

\* A step that only gives a proposal another status.
LEMMA StatusTyped ==
  ASSUME ProposalTypes, NEW p \in ProposalIds, NEW status \in Statuses, SetStatus(p, status),
         status # "applied" \/ status = ledger[p].status,
         evaluating' \subseteq ProposalIds, orderly' \in BOOLEAN, UNCHANGED <<config, calls, inForce>>
  PROVE  ProposalTypes'
<1>1. ledger \in [ProposalIds -> [status : Statuses, previous : Files]]
  BY DEF ProposalTypes, ProposalTypeOK
<1>2. ledger' \in [ProposalIds -> [status : Statuses, previous : Files]]
  BY <1>1 DEF SetStatus
<1>3. \A q \in ProposalIds : ledger'[q].status = "applied" => ledger[q].status = "applied"
  <2>1. \A q \in ProposalIds : ledger'[q].status = IF q = p THEN status ELSE ledger[q].status
    BY <1>1 DEF SetStatus
  <2> QED BY <2>1
<1>4. /\ config' \in Files /\ calls' \in [ProposalIds -> CallStates] /\ inForce' \in Seq(ProposalIds)
  BY DEF ProposalTypes, ProposalTypeOK
<1>5. \A q \in ProposalIds : ledger'[q].status = "applied" => \E n \in DOMAIN inForce' : inForce'[n] = q
  BY <1>3 DEF ProposalTypes
<1> QED BY <1>2, <1>4, <1>5, TypesAfter

\* A step of a call that leaves the ledger alone.
LEMMA CallTyped ==
  ASSUME ProposalTypes, NEW p \in ProposalIds, NEW state \in CallStates,
         calls' = [calls EXCEPT ![p] = state], config' \in Files, orderly' \in BOOLEAN,
         UNCHANGED <<ledger, evaluating, inForce>>
  PROVE  ProposalTypes'
<1>1. calls' \in [ProposalIds -> CallStates]
  BY DEF ProposalTypes
<1> QED BY <1>1, TypesAfter DEF ProposalTypes, ProposalTypeOK

LEMMA MergedTyped ==
  ASSUME NEW p \in ProposalIds, NEW previous \in Files
  PROVE  Merged(p, previous) \in Files
BY DEF Merged, Files

\* Taking an applied proposal back takes its place out.
LEMMA WithoutTyped ==
  ASSUME ProposalTypes, NEW p \in ProposalIds, ledger[p].status = "applied"
  PROVE  /\ Without(p) \in Seq(ProposalIds)
         /\ \A q \in ProposalIds \ {p} : (\E n \in DOMAIN inForce : inForce[n] = q)
                                           => \E n \in DOMAIN Without(p) : Without(p)[n] = q
<1> DEFINE n == CHOOSE n \in DOMAIN inForce : inForce[n] = p
           f == [m \in 1..(Len(inForce) - 1) |-> inForce[IF m < n THEN m ELSE m + 1]]
<1>1. inForce \in Seq(ProposalIds) /\ DOMAIN inForce = 1..Len(inForce) /\ Len(inForce) \in Nat
  BY FinitePlaces DEF ProposalTypes, ProposalTypeOK
<1>2. n \in 1..Len(inForce) /\ inForce[n] = p
  BY <1>1 DEF ProposalTypes
<1>3. Without(p) = f
  BY DEF Without
<1> HIDE DEF n
<1>4. Len(inForce) - 1 \in Nat
  BY <1>1, <1>2
<1>5. \A m \in 1..(Len(inForce) - 1) : (IF m < n THEN m ELSE m + 1) \in 1..Len(inForce)
  BY <1>1, <1>2
<1>6. f \in [1..(Len(inForce) - 1) -> ProposalIds]
  BY <1>1, <1>5, ElementOfSeq
<1>7. f \in Seq(ProposalIds)
  <2> HIDE DEF f
  <2> QED BY <1>4, <1>6, FunctionIsSeq
<1>8. ASSUME NEW q \in ProposalIds \ {p}, NEW m \in 1..Len(inForce), inForce[m] = q
      PROVE  \E i \in 1..(Len(inForce) - 1) : f[i] = q
  <2>1. m # n
    BY <1>2, <1>8
  <2>2. CASE m < n
    <3>1. m \in 1..(Len(inForce) - 1)
      BY <1>1, <1>2, <2>2
    <3> QED BY <1>8, <2>2, <3>1
  <2>3. CASE m > n
    <3>1. m - 1 \in 1..(Len(inForce) - 1) /\ ~ (m - 1 < n) /\ (m - 1) + 1 = m
      BY <1>1, <1>2, <2>3
    <3>2. f[m - 1] = inForce[(m - 1) + 1]
      BY <3>1
    <3> QED BY <1>8, <3>1, <3>2
  <2> QED BY <1>1, <1>2, <2>1, <2>2, <2>3
<1> QED BY <1>1, <1>3, <1>7, <1>8

-----------------------------------------------------------------------------
(* The steps that give a proposal another status. *)

\* A call under way is about a proposal that is approved or applied.
LEMMA BusyStatus ==
  ASSUME ProposalTypes, InOrder, NEW p \in Busy
  PROVE  ledger[p].status \in {"approved", "applied"}
<1>1. p \in ProposalIds /\ calls[p].phase # "none"
  BY CallFacts DEF Busy
<1>2. CASE calls[p].phase \in {"reading", "writing", "written"}
  BY <1>1, <1>2 DEF InOrder, Underway
<1>3. CASE calls[p].phase \in {"restoring", "restored"}
  <2>1. Len(inForce) # 0 /\ inForce[Len(inForce)] = p
    BY <1>1, <1>3 DEF InOrder, Underway
  <2>2. Len(inForce) \in DOMAIN inForce
    BY <2>1, FinitePlaces DEF ProposalTypes, ProposalTypeOK
  <2> QED BY <2>1, <2>2 DEF InOrder, Stacked
<1> QED BY <1>1, <1>2, <1>3, CallFacts

LEMMA StatusKeeps ==
  ASSUME ProposalTypes, InOrder, NEW p \in ProposalIds, ~ Touched(p),
         NEW status \in Statuses \ {"applied"}, SetStatus(p, status),
         UNCHANGED <<config, calls, inForce>>
  PROVE  InOrder'
<1>1. \A q \in ProposalIds \ {p} : ledger'[q] = ledger[q]
  BY DEF SetStatus, ProposalTypes, ProposalTypeOK
<1>2. calls[p].phase = "none" /\ ledger[p].status # "applied"
  BY CallFacts DEF Touched
<1>3. \A n \in DOMAIN inForce : inForce[n] \in ProposalIds /\ inForce[n] # p
  BY <1>2, FinitePlaces DEF InOrder, Stacked, ProposalTypes, ProposalTypeOK
<1>4. Stacked'
  BY <1>1, <1>3 DEF InOrder, Stacked
<1>5. ASSUME NEW q \in ProposalIds PROVE Underway(q)'
  <2>1. CASE q = p
    BY <1>2, <2>1 DEF Underway
  <2>2. CASE q # p
    <3>1. Underway(q) /\ ledger'[q] = ledger[q]
      BY <1>1, <2>2 DEF InOrder
    <3> QED BY <3>1 DEF Underway, Laid
  <2> QED BY <2>1, <2>2
<1>6. (\A q \in Busy' : \A r \in Busy' : q = r)
  BY DEF InOrder, Busy
<1>7. (\A q \in ProposalIds : ~ Changed(q)') => Laid(config)'
  BY DEF InOrder, Changed, Laid
<1> QED BY <1>4, <1>5, <1>6, <1>7 DEF InOrder

-----------------------------------------------------------------------------
(* The steps of a call. *)

LEMMA CallKeeps ==
  ASSUME ProposalTypes, InOrder, NEW p \in ProposalIds, \A q \in Busy : q = p,
         NEW state \in CallStates, calls' = [calls EXCEPT ![p] = state],
         UNCHANGED <<ledger, inForce>>, Underway(p)',
         state.phase \notin {"written", "restored"} => Laid(config)'
  PROVE  InOrder'
<1>1. calls'[p] = state /\ \A q \in ProposalIds \ {p} : calls'[q] = calls[q]
  BY DEF ProposalTypes
<1>2. \A q \in ProposalIds \ {p} : calls[q].phase = "none" /\ q \notin Busy
  BY CallFacts
<1>3. \A q \in Busy' : q = p
  BY <1>1, <1>2 DEF Busy
<1>4. Stacked'
  BY DEF InOrder, Stacked
<1>5. ASSUME NEW q \in ProposalIds PROVE Underway(q)'
  <2>1. CASE q # p
    <3>1. calls'[q].phase = "none"
      BY <1>1, <1>2, <2>1
    <3> QED BY <3>1 DEF Underway
  <2> QED BY <2>1
<1>6. Changed(p)' <=> state.phase \in {"written", "restored"}
  BY <1>1 DEF Changed
<1> QED BY <1>3, <1>4, <1>5, <1>6 DEF InOrder

\* The newest application is recorded: the file as it was lies below it.
LEMMA AppliedKeeps ==
  ASSUME ProposalTypes, InOrder, NEW p \in ProposalIds, calls[p].phase = "written", RecordApply(p)
  PROVE  InOrder'
<1> DEFINE n == Len(inForce)
<1>1. /\ inForce \in Seq(ProposalIds) /\ n \in Nat /\ DOMAIN inForce = 1..n
      /\ \A m \in 1..n : inForce[m] \in ProposalIds
  BY FinitePlaces DEF ProposalTypes, ProposalTypeOK
<1>2. /\ ledger[p].status = "approved" /\ Laid(calls[p].previous)
      /\ config = Merged(p, calls[p].previous)
  BY DEF InOrder, Underway
<1>3. /\ ledger' = [ledger EXCEPT ![p] = [status |-> "applied", previous |-> calls[p].previous]]
      /\ inForce' = Append(inForce, p) /\ config' = config
      /\ calls' = [calls EXCEPT ![p] = NoCall]
  BY <1>2 DEF RecordApply
<1>4. /\ ledger'[p] = [status |-> "applied", previous |-> calls[p].previous]
      /\ \A q \in ProposalIds \ {p} : ledger'[q] = ledger[q]
  BY <1>3 DEF ProposalTypes, ProposalTypeOK
<1>5. /\ Len(inForce') = n + 1 /\ DOMAIN inForce' = 1..(n + 1)
      /\ \A m \in 1..n : inForce'[m] = inForce[m]
      /\ inForce'[n + 1] = p
  <2>1. /\ inForce' \in Seq(ProposalIds) /\ Len(inForce') = n + 1
        /\ \A m \in 1..n : inForce'[m] = inForce[m]
        /\ inForce'[n + 1] = p
    BY <1>1, <1>3, AppendProperties
  <2> QED BY <2>1, LenProperties
<1>6. \A m \in 1..n : inForce[m] # p
  BY <1>1, <1>2 DEF InOrder, Stacked
<1> HIDE DEF n
<1>7. \A m \in 0..n, k \in Keys : After(inForce', m, k) = After(inForce, m, k)
  <2> SUFFICES ASSUME NEW m \in 0..n, NEW k \in Keys
               PROVE  After(inForce', m, k) = After(inForce, m, k)
    OBVIOUS
  <2>1. m \in Nat /\ \A i \in 1..m : i \in 1..n
    BY <1>1
  <2> QED BY <1>5, <2>1, AfterSame
<1>8. \A m \in 1..(n + 1) : m = n + 1 \/ m \in 1..n
  BY <1>1
<1>9. \A m \in 1..(n + 1) : m - 1 \in 0..n
  BY <1>1
<1>10. Stacked'
  <2> SUFFICES ASSUME NEW m \in 1..(n + 1)
               PROVE  /\ ledger'[inForce'[m]].status = "applied"
                      /\ \A k \in Keys : ledger'[inForce'[m]].previous[k] = After(inForce', m - 1, k)
                      /\ \A i \in 1..(n + 1) : inForce'[i] = inForce'[m] => i = m
    BY <1>5 DEF Stacked
  <2>1. CASE m = n + 1
    <3>1. m - 1 = n /\ n \in 0..n
      BY <1>1, <2>1
    <3>2. \A k \in Keys : calls[p].previous[k] = After(inForce', m - 1, k)
      BY <1>2, <1>7, <3>1 DEF Laid, n
    <3>3. \A i \in 1..(n + 1) : inForce'[i] = p => i = n + 1
      BY <1>5, <1>6, <1>8
    <3> QED BY <1>4, <1>5, <2>1, <3>2, <3>3
  <2>2. CASE m \in 1..n
    <3>1. /\ ledger[inForce[m]].status = "applied"
          /\ \A k \in Keys : ledger[inForce[m]].previous[k] = After(inForce, m - 1, k)
          /\ \A i \in 1..n : inForce[i] = inForce[m] => i = m
      BY <1>1, <2>2 DEF InOrder, Stacked
    <3>2. inForce'[m] = inForce[m] /\ ledger'[inForce[m]] = ledger[inForce[m]] /\ inForce[m] # p
      BY <1>1, <1>4, <1>5, <1>6, <2>2
    <3>3. \A k \in Keys : After(inForce', m - 1, k) = After(inForce, m - 1, k)
      BY <1>7, <1>9
    <3>4. \A i \in 1..(n + 1) : inForce'[i] = inForce'[m] => i = m
      BY <1>5, <1>8, <3>1, <3>2
    <3> QED BY <3>1, <3>2, <3>3, <3>4
  <2> QED BY <1>8, <2>1, <2>2
<1>11. \A q \in ProposalIds : calls'[q] = NoCall
  <2>1. \A q \in ProposalIds : q = p \/ q \notin Busy
    <3>1. p \in Busy
      BY CallFacts
    <3> QED BY <3>1 DEF InOrder
  <2> QED BY <1>3, <2>1 DEF Busy, ProposalTypes
<1>12. Laid(config)'
  <2> SUFFICES ASSUME NEW k \in Keys
               PROVE  config[k] = After(inForce', n + 1, k)
    BY <1>3, <1>5 DEF Laid
  <2>1. After(inForce', n + 1, k) = IF k \in Change[p] THEN p ELSE After(inForce, n, k)
    <3>1. n \in 0..n
      BY <1>1
    <3> QED BY <1>1, <1>5, <1>7, <3>1, AfterOneMore
  <2>2. config[k] = IF k \in Change[p] THEN p ELSE calls[p].previous[k]
    BY <1>2 DEF Merged
  <2>3. calls[p].previous[k] = After(inForce, n, k)
    BY <1>2 DEF Laid, n
  <2> QED BY <2>1, <2>2, <2>3
<1>13. \A q \in ProposalIds : Underway(q)'
  BY <1>11 DEF Underway, NoCall
<1>14. \A q, r \in Busy' : q = r
  BY <1>11 DEF Busy
<1> QED BY <1>10, <1>12, <1>13, <1>14 DEF InOrder

\* The newest application is taken back: the file below it is in place.
LEMMA RolledBackKeeps ==
  ASSUME ProposalTypes, InOrder, NEW p \in ProposalIds, calls[p].phase = "restored",
         RecordRollback(p)
  PROVE  InOrder'
<1> DEFINE n == Len(inForce)
<1>1. /\ inForce \in Seq(ProposalIds) /\ n \in Nat /\ DOMAIN inForce = 1..n
      /\ \A m \in 1..n : inForce[m] \in ProposalIds
  BY FinitePlaces DEF ProposalTypes, ProposalTypeOK
<1>2. n # 0 /\ inForce[n] = p /\ config = ledger[p].previous
  BY DEF InOrder, Underway
<1>3. /\ n \in 1..n /\ n - 1 \in Nat /\ \A m \in 1..(n - 1) : m \in 1..n /\ m < n
  BY <1>1, <1>2
<1>4. /\ ledger[p].status = "applied"
      /\ \A k \in Keys : config[k] = After(inForce, n - 1, k)
      /\ \A m \in 1..n : inForce[m] = p => m = n
  BY <1>1, <1>2, <1>3 DEF InOrder, Stacked
<1>5. /\ ledger' = [ledger EXCEPT ![p].status = "rolled_back"] /\ inForce' = Without(p)
      /\ config' = config /\ calls' = [calls EXCEPT ![p] = NoCall]
  BY <1>4 DEF RecordRollback, SetStatus
<1>6. \A q \in ProposalIds \ {p} : ledger'[q] = ledger[q]
  BY <1>5 DEF ProposalTypes, ProposalTypeOK
<1> DEFINE cut == [m \in 1..(n - 1) |-> inForce[m]]
<1>7. inForce' = cut
  <2> DEFINE place == CHOOSE m \in DOMAIN inForce : inForce[m] = p
  <2>1. place = n
    BY <1>1, <1>2, <1>3, <1>4
  <2>2. Without(p) = [m \in 1..(n - 1) |-> inForce[IF m < place THEN m ELSE m + 1]]
    BY DEF Without
  <2> HIDE DEF place, n
  <2> QED BY <1>3, <1>5, <2>1, <2>2
<1>8. cut \in Seq(ProposalIds) /\ Len(cut) = n - 1
  <2>1. cut \in [1..(n - 1) -> ProposalIds]
    BY <1>1, <1>3
  <2> HIDE DEF cut, n
  <2> QED BY <1>3, <2>1, FunctionIsSeq
<1> HIDE DEF n
<1>9. /\ Len(inForce') = n - 1 /\ DOMAIN inForce' = 1..(n - 1)
      /\ \A m \in 1..(n - 1) : inForce'[m] = inForce[m]
  BY <1>7, <1>8
<1> HIDE DEF cut
<1>10. \A m \in 0..(n - 1), k \in Keys : After(inForce', m, k) = After(inForce, m, k)
  <2> SUFFICES ASSUME NEW m \in 0..(n - 1), NEW k \in Keys
               PROVE  After(inForce', m, k) = After(inForce, m, k)
    OBVIOUS
  <2>1. m \in Nat /\ \A i \in 1..m : i \in 1..(n - 1)
    BY <1>3
  <2> QED BY <1>9, <2>1, AfterSame
<1>11. Stacked'
  <2> SUFFICES ASSUME NEW m \in 1..(n - 1)
               PROVE  /\ ledger'[inForce'[m]].status = "applied"
                      /\ \A k \in Keys : ledger'[inForce'[m]].previous[k] = After(inForce', m - 1, k)
                      /\ \A i \in 1..(n - 1) : inForce'[i] = inForce'[m] => i = m
    BY <1>9 DEF Stacked
  <2>1. /\ ledger[inForce[m]].status = "applied"
        /\ \A k \in Keys : ledger[inForce[m]].previous[k] = After(inForce, m - 1, k)
        /\ \A i \in 1..n : inForce[i] = inForce[m] => i = m
    BY <1>1, <1>3 DEF InOrder, Stacked
  <2>2. inForce[m] # p
    BY <1>3, <1>4
  <2>3. inForce'[m] = inForce[m] /\ ledger'[inForce[m]] = ledger[inForce[m]]
    BY <1>1, <1>3, <1>6, <1>9, <2>2
  <2>4. m - 1 \in 0..(n - 1)
    BY <1>3
  <2> QED BY <1>3, <1>9, <1>10, <2>1, <2>3, <2>4
<1>12. Laid(config)'
  <2>1. n - 1 \in 0..(n - 1)
    BY <1>3
  <2> QED BY <1>4, <1>5, <1>9, <1>10, <2>1 DEF Laid
<1>13. \A q \in ProposalIds : calls'[q] = NoCall
  <2>1. \A q \in ProposalIds : q = p \/ q \notin Busy
    <3>1. p \in Busy
      BY CallFacts
    <3> QED BY <3>1 DEF InOrder
  <2> QED BY <1>5, <2>1 DEF Busy, ProposalTypes
<1>14. \A q \in ProposalIds : Underway(q)'
  BY <1>13 DEF Underway, NoCall
<1>15. \A q, r \in Busy' : q = r
  BY <1>13 DEF Busy
<1> QED BY <1>11, <1>12, <1>14, <1>15 DEF InOrder

-----------------------------------------------------------------------------
(* Every step keeps the types. *)

LEMMA StatusSteps ==
  ASSUME ProposalTypes, NEW p \in ProposalIds,
         Evaluate(p) \/ Evaluated(p) \/ Approve(p) \/ Reject(p)
  PROVE  /\ ProposalTypes' /\ UNCHANGED <<config, calls, inForce>>
         /\ \E status \in Statuses : /\ SetStatus(p, status)
                                     /\ status # "applied" \/ status = ledger[p].status
         /\ orderly' => orderly /\ (~ Touched(p) \/ ledger[p].status = "passed_eval")
<1>1. /\ {"under_eval", "passed_eval", "failed_eval", "approved", "rejected"} \subseteq Statuses
      /\ "applied" \notin {"under_eval", "passed_eval", "failed_eval", "approved", "rejected"}
      /\ ledger[p].status \in Statuses /\ evaluating \subseteq ProposalIds /\ orderly \in BOOLEAN
  BY DEF Statuses, ProposalTypes, ProposalTypeOK
<1>2. /\ UNCHANGED <<config, calls, inForce>>
      /\ orderly' => orderly /\ (~ Touched(p) \/ ledger[p].status = "passed_eval")
  <2>1. UNCHANGED <<config, calls, inForce>>
    BY DEF Evaluate, Evaluated, Approve, Reject
  <2>2. \/ orderly' = (orderly /\ ~ Touched(p))
        \/ orderly' = orderly /\ ledger[p].status = "passed_eval"
    BY Zenon DEF Evaluate, Evaluated, Approve, Reject
  <2>3. orderly' => orderly /\ (~ Touched(p) \/ ledger[p].status = "passed_eval")
    BY <2>2, Zenon
  <2> QED BY <2>1, <2>3
<1>3. PICK status \in Statuses : /\ SetStatus(p, status)
                                 /\ status # "applied" \/ status = ledger[p].status
  BY <1>1 DEF Evaluate, Evaluated, Approve, Reject
<1>4. evaluating' \subseteq ProposalIds
  BY <1>1 DEF Evaluate, Evaluated, Approve, Reject
<1>5. orderly' \in BOOLEAN
  <2>1. orderly' = (orderly /\ ~ Touched(p)) \/ orderly' = orderly
    BY DEF Evaluate, Evaluated, Approve, Reject
  <2>2. (orderly /\ ~ Touched(p)) \in BOOLEAN
    OBVIOUS
  <2> QED BY <1>1, <2>1, <2>2
<1> QED BY <1>2, <1>3, <1>4, <1>5, StatusTyped

LEMMA StatusStepKeeps ==
  ASSUME PropInv, NEW p \in ProposalIds,
         Evaluate(p) \/ Evaluated(p) \/ Approve(p) \/ Reject(p)
  PROVE  PropInv'
<1>1. ProposalTypes /\ (orderly => InOrder)
  BY DEF PropInv
<1>2. /\ ProposalTypes' /\ UNCHANGED <<config, calls, inForce>>
      /\ orderly' => orderly /\ (~ Touched(p) \/ ledger[p].status = "passed_eval")
  BY <1>1, StatusSteps
<1>3. PICK status \in Statuses : /\ SetStatus(p, status)
                                 /\ status # "applied" \/ status = ledger[p].status
  BY <1>1, StatusSteps
<1>4. ASSUME orderly' PROVE InOrder'
  <2>1. InOrder
    BY <1>1, <1>2, <1>4
  <2>2. ~ Touched(p)
    <3>1. CASE ledger[p].status = "passed_eval"
      BY <1>1, <2>1, <3>1, BusyStatus DEF Touched
    <3> QED BY <1>2, <1>4, <3>1
  <2>3. status \in Statuses \ {"applied"}
    BY <1>3, <2>2 DEF Touched
  <2> QED BY <1>1, <1>2, <1>3, <2>1, <2>2, <2>3, StatusKeeps
<1> QED BY <1>2, <1>4 DEF PropInv

\* The steps of a call before it reaches the ledger.
LEMMA CallStepKeeps ==
  ASSUME PropInv, NEW p \in ProposalIds,
         BeginApply(p) \/ ReadConfig(p) \/ WriteConfig(p) \/ BeginRollback(p) \/ RestoreConfig(p)
  PROVE  PropInv'
<1>1. ProposalTypes /\ (orderly => InOrder)
  BY DEF PropInv
<1>2. /\ calls \in [ProposalIds -> CallStates] /\ config \in Files /\ orderly \in BOOLEAN
      /\ ledger[p] \in [status : Statuses, previous : Files]
  BY <1>1 DEF ProposalTypes, ProposalTypeOK
<1>3. ASSUME NEW state \in CallStates, calls' = [calls EXCEPT ![p] = state], config' \in Files,
             orderly' \in BOOLEAN, UNCHANGED <<ledger, evaluating, inForce>>,
             orderly' => /\ orderly
                         /\ \A q \in Busy : q = p
                         /\ Underway(p)'
                         /\ state.phase \notin {"written", "restored"} => Laid(config)'
      PROVE  PropInv'
  <2>1. ProposalTypes'
    BY <1>1, <1>3, CallTyped
  <2>2. orderly' => InOrder'
    BY <1>1, <1>3, CallKeeps
  <2> QED BY <2>1, <2>2 DEF PropInv
<1>4. CASE BeginApply(p)
  <2> DEFINE state == [phase |-> "reading"]
  <2>1. /\ calls' = [calls EXCEPT ![p] = state] /\ state \in CallStates
        /\ UNCHANGED <<ledger, config, evaluating, inForce>>
        /\ ledger[p].status = "approved"
    BY <1>4 DEF BeginApply, CallStates
  <2>2. orderly' = (orderly /\ Busy = {})
    BY <1>4, Zenon DEF BeginApply
  <2>3. orderly' \in BOOLEAN /\ (orderly' => orderly /\ Busy = {})
    BY <2>2, Zenon
  <2>4. calls'[p] = state
    BY <1>2, <2>1
  <2>5. Underway(p)'
    BY <2>1, <2>4 DEF Underway
  <2>6. orderly' => Laid(config)'
    <3>1. Busy = {} => \A q \in ProposalIds : ~ Changed(q)
      BY <1>1, CallFacts DEF Changed
    <3> QED BY <1>1, <2>1, <2>3, <3>1 DEF InOrder, Laid
  <2> QED BY <1>2, <1>3, <2>1, <2>3, <2>5, <2>6
<1>5. CASE BeginRollback(p)
  <2> DEFINE state == [phase |-> "restoring"]
  <2>1. /\ calls' = [calls EXCEPT ![p] = state] /\ state \in CallStates
        /\ UNCHANGED <<ledger, config, evaluating, inForce>>
        /\ ledger[p].status = "applied"
    BY <1>5 DEF BeginRollback, CallStates
  <2>2. orderly' = (orderly /\ Busy = {} /\ inForce[Len(inForce)] = p)
    BY <1>5, Zenon DEF BeginRollback
  <2>3. orderly' \in BOOLEAN /\ (orderly' => orderly /\ Busy = {} /\ inForce[Len(inForce)] = p)
    BY <2>2, Zenon
  <2>4. calls'[p] = state
    BY <1>2, <2>1
  <2>5. Len(inForce) # 0
    <3>1. DOMAIN inForce # {}
      BY <1>1, <2>1 DEF ProposalTypes
    <3> QED BY <1>1, <3>1, FinitePlaces DEF ProposalTypes, ProposalTypeOK
  <2>6. orderly' => Underway(p)'
    BY <2>1, <2>3, <2>4, <2>5 DEF Underway
  <2>7. orderly' => Laid(config)'
    <3>1. Busy = {} => \A q \in ProposalIds : ~ Changed(q)
      BY <1>1, CallFacts DEF Changed
    <3> QED BY <1>1, <2>1, <2>3, <3>1 DEF InOrder, Laid
  <2> QED BY <1>2, <1>3, <2>1, <2>3, <2>6, <2>7
<1>6. ASSUME calls[p].phase # "none", orderly
      PROVE  \A q \in Busy : q = p
  BY <1>1, <1>6, CallFacts DEF InOrder
<1>7. ASSUME calls[p].phase # "none", orderly, ~ Changed(p)
      PROVE  Laid(config)
  <2>1. \A q \in ProposalIds : ~ Changed(q)
    BY <1>1, <1>6, <1>7, CallFacts DEF Changed
  <2> QED BY <1>1, <1>7, <2>1 DEF InOrder
<1>8. CASE ReadConfig(p)
  <2> DEFINE state == [phase |-> "writing", previous |-> config]
  <2>1. /\ calls' = [calls EXCEPT ![p] = state] /\ state \in CallStates
        /\ UNCHANGED <<ledger, config, evaluating, inForce, orderly>>
        /\ calls[p].phase = "reading"
    BY <1>2, <1>8 DEF ReadConfig, CallStates
  <2>2. calls'[p] = state
    BY <1>2, <2>1
  <2>3. orderly => Laid(config) /\ ledger[p].status = "approved"
    BY <1>1, <1>7, <2>1 DEF Changed, InOrder, Underway
  <2>4. orderly => Underway(p)' /\ Laid(config)'
    BY <2>1, <2>2, <2>3 DEF Underway, Laid
  <2> QED BY <1>2, <1>3, <1>6, <2>1, <2>4
<1>9. CASE WriteConfig(p)
  <2> DEFINE state == [phase |-> "written", previous |-> calls[p].previous]
  <2>1. /\ config' = Merged(p, calls[p].previous) /\ calls' = [calls EXCEPT ![p].phase = "written"]
        /\ UNCHANGED <<ledger, evaluating, inForce, orderly>>
        /\ calls[p].phase = "writing"
    BY <1>9 DEF WriteConfig
  <2>2. calls[p] = [phase |-> "writing", previous |-> calls[p].previous] /\ calls[p].previous \in Files
    BY <1>1, <2>1, CallFacts
  <2>3. [calls[p] EXCEPT !.phase = "written"] = state
    BY <2>2
  <2>4. calls' = [calls EXCEPT ![p] = state] /\ state \in CallStates /\ config' \in Files
    BY <2>1, <2>2, <2>3, MergedTyped DEF CallStates
  <2>5. calls'[p] = state
    BY <1>2, <2>4
  <2>6. orderly => ledger[p].status = "approved" /\ Laid(calls[p].previous)
    BY <1>1, <2>1 DEF InOrder, Underway
  <2>7. orderly => Underway(p)'
    BY <2>1, <2>5, <2>6 DEF Underway, Laid, Merged
  <2> QED BY <1>2, <1>3, <1>6, <2>1, <2>4, <2>7
<1>10. CASE RestoreConfig(p)
  <2> DEFINE state == [phase |-> "restored"]
  <2>1. /\ config' = ledger[p].previous /\ calls' = [calls EXCEPT ![p].phase = "restored"]
        /\ UNCHANGED <<ledger, evaluating, inForce, orderly>>
        /\ calls[p].phase = "restoring"
    BY <1>10 DEF RestoreConfig
  <2>2. calls[p] \in [phase : {"reading", "restoring", "restored"}]
    BY <1>2, <2>1 DEF CallStates, NoCall
  <2>3. [calls[p] EXCEPT !.phase = "restored"] = state
    BY <2>2
  <2>4. calls' = [calls EXCEPT ![p] = state] /\ state \in CallStates /\ config' \in Files
    BY <1>2, <2>1, <2>3 DEF CallStates
  <2>5. calls'[p] = state
    BY <1>2, <2>4
  <2>6. orderly => Len(inForce) # 0 /\ inForce[Len(inForce)] = p
    BY <1>1, <2>1 DEF InOrder, Underway
  <2>7. orderly => Underway(p)'
    BY <2>1, <2>5, <2>6 DEF Underway
  <2> QED BY <1>2, <1>3, <1>6, <2>1, <2>4, <2>7
<1> QED BY <1>4, <1>5, <1>8, <1>9, <1>10

\* The ledger is written at the end of a call.
LEMMA RecordKeeps ==
  ASSUME PropInv, NEW p \in ProposalIds, RecordApply(p) \/ RecordRollback(p)
  PROVE  PropInv'
<1>1. ProposalTypes /\ (orderly => InOrder)
  BY DEF PropInv
<1>2. /\ ledger \in [ProposalIds -> [status : Statuses, previous : Files]]
      /\ config \in Files /\ calls \in [ProposalIds -> CallStates] /\ orderly \in BOOLEAN
      /\ evaluating \subseteq ProposalIds /\ inForce \in Seq(ProposalIds)
  BY <1>1 DEF ProposalTypes, ProposalTypeOK
<1>3. /\ calls' = [calls EXCEPT ![p] = NoCall] /\ UNCHANGED <<config, evaluating, orderly>>
  BY DEF RecordApply, RecordRollback
<1>4. /\ calls' \in [ProposalIds -> CallStates] /\ config' \in Files /\ orderly' \in BOOLEAN
      /\ evaluating' \subseteq ProposalIds
  BY <1>2, <1>3 DEF CallStates
<1>5. \A q \in ProposalIds : ledger[q].status = "applied" => \E n \in DOMAIN inForce : inForce[n] = q
  BY <1>1 DEF ProposalTypes
<1>6. CASE RecordApply(p)
  <2>1. calls[p].phase = "written" /\ calls[p].previous \in Files
    BY <1>1, <1>6, CallFacts DEF RecordApply
  <2>2. ProposalTypes'
    <3>1. CASE ledger[p].status = "approved"
      <4>1. /\ ledger' = [ledger EXCEPT ![p] = [status |-> "applied", previous |-> calls[p].previous]]
            /\ inForce' = Append(inForce, p)
        BY <1>6, <3>1 DEF RecordApply
      <4>2. [status |-> "applied", previous |-> calls[p].previous] \in [status : Statuses, previous : Files]
        BY <2>1 DEF Statuses
      <4>3. /\ ledger' \in [ProposalIds -> [status : Statuses, previous : Files]]
            /\ \A q \in ProposalIds \ {p} : ledger'[q] = ledger[q]
        BY <1>2, <4>1, <4>2
      <4>4. /\ inForce' \in Seq(ProposalIds) /\ Len(inForce') = Len(inForce) + 1
            /\ \A i \in 1..Len(inForce) : inForce'[i] = inForce[i]
            /\ inForce'[Len(inForce) + 1] = p
        BY <1>2, <4>1, AppendProperties
      <4>5. /\ DOMAIN inForce' = 1..(Len(inForce) + 1) /\ DOMAIN inForce = 1..Len(inForce)
            /\ Len(inForce) \in Nat
        BY <1>2, <4>4, LenProperties
      <4>6. \A q \in ProposalIds : ledger'[q].status = "applied" => \E n \in DOMAIN inForce' : inForce'[n] = q
        <5> SUFFICES ASSUME NEW q \in ProposalIds, ledger'[q].status = "applied"
                     PROVE  \E n \in 1..(Len(inForce) + 1) : inForce'[n] = q
          BY <4>5
        <5>1. CASE q = p
          BY <4>4, <4>5, <5>1
        <5>2. CASE q # p
          <6>1. PICK n \in 1..Len(inForce) : inForce[n] = q
            BY <1>5, <4>3, <4>5, <5>2
          <6>2. n \in 1..(Len(inForce) + 1)
            BY <4>5
          <6> QED BY <4>4, <6>1, <6>2
        <5> QED BY <5>1, <5>2
      <4> QED BY <1>4, <4>3, <4>4, <4>6, TypesAfter
    <3>2. CASE ledger[p].status # "approved"
      <4>1. UNCHANGED <<ledger, inForce>>
        BY <1>6, <3>2 DEF RecordApply
      <4> QED BY <1>2, <1>4, <1>5, <4>1, TypesAfter
    <3> QED BY <3>1, <3>2
  <2>3. orderly' => InOrder'
    BY <1>1, <1>3, <1>6, <2>1, AppliedKeeps
  <2> QED BY <2>2, <2>3 DEF PropInv
<1>7. CASE RecordRollback(p)
  <2>1. calls[p].phase = "restored"
    BY <1>7 DEF RecordRollback
  <2>2. ProposalTypes'
    <3>1. CASE ledger[p].status = "applied"
      <4>1. /\ ledger' = [ledger EXCEPT ![p].status = "rolled_back"] /\ inForce' = Without(p)
        BY <1>7, <3>1 DEF RecordRollback, SetStatus
      <4>2. /\ ledger' \in [ProposalIds -> [status : Statuses, previous : Files]]
        BY <1>2, <4>1 DEF Statuses
      <4>3. ledger'[p].status # "applied" /\ \A q \in ProposalIds \ {p} : ledger'[q] = ledger[q]
        BY <1>2, <4>1
      <4>4. inForce' \in Seq(ProposalIds)
        BY <1>1, <3>1, <4>1, WithoutTyped
      <4>5. \A q \in ProposalIds \ {p} : (\E n \in DOMAIN inForce : inForce[n] = q)
                                           => \E n \in DOMAIN inForce' : inForce'[n] = q
        BY <1>1, <3>1, <4>1, WithoutTyped
      <4>6. \A q \in ProposalIds : ledger'[q].status = "applied" => \E n \in DOMAIN inForce' : inForce'[n] = q
        BY <1>5, <4>3, <4>5
      <4> QED BY <1>4, <4>2, <4>4, <4>6, TypesAfter
    <3>2. CASE ledger[p].status # "applied"
      <4>1. UNCHANGED <<ledger, inForce>>
        BY <1>7, <3>2 DEF RecordRollback
      <4> QED BY <1>2, <1>4, <1>5, <4>1, TypesAfter
    <3> QED BY <3>1, <3>2
  <2>3. orderly' => InOrder'
    BY <1>1, <1>3, <1>7, <2>1, RolledBackKeeps
  <2> QED BY <2>2, <2>3 DEF PropInv
<1> QED BY <1>6, <1>7

\* A crash that finds every file as the ledger has it loses nothing.
LEMMA ApplierCrashKeeps ==
  ASSUME PropInv, ApplierCrash
  PROVE  PropInv'
<1>1. ProposalTypes /\ (orderly => InOrder)
  BY DEF PropInv
<1>2. /\ calls' = [p \in ProposalIds |-> NoCall] /\ evaluating' = {}
      /\ UNCHANGED <<ledger, config, inForce>>
  BY DEF ApplierCrash
<1>3. orderly' = (orderly /\ \A p \in Busy : calls[p].phase \in {"reading", "writing", "restoring"})
  BY Zenon DEF ApplierCrash
<1>4. /\ orderly' \in BOOLEAN
      /\ orderly' => orderly /\ \A p \in Busy : calls[p].phase \in {"reading", "writing", "restoring"}
  BY <1>3, Zenon
<1>5. ProposalTypes'
  <2>1. calls' \in [ProposalIds -> CallStates]
    BY <1>2 DEF CallStates
  <2> QED BY <1>1, <1>2, <1>4, <2>1, TypesAfter DEF ProposalTypes, ProposalTypeOK
<1>6. ASSUME orderly' PROVE InOrder'
  <2>1. InOrder /\ \A p \in ProposalIds : ~ Changed(p)
    BY <1>1, <1>4, <1>6, CallFacts DEF Changed
  <2>2. \A p \in ProposalIds : calls'[p] = NoCall
    BY <1>2
  <2>3. \A p \in ProposalIds : Underway(p)'
    BY <2>2 DEF Underway, NoCall
  <2>4. \A p, q \in Busy' : p = q
    BY <2>2 DEF Busy
  <2>5. Stacked' /\ Laid(config)'
    BY <1>2, <2>1 DEF InOrder, Stacked, Laid
  <2> QED BY <2>3, <2>4, <2>5 DEF InOrder
<1> QED BY <1>5, <1>6 DEF PropInv

-----------------------------------------------------------------------------
(* The theorems about proposals. *)

LEMMA ProposalStep == PropInv /\ [ProposalNext]_proposalVars => PropInv'
<1> SUFFICES ASSUME PropInv, [ProposalNext]_proposalVars PROVE PropInv'
  OBVIOUS
<1>1. ASSUME NEW p \in ProposalIds, Evaluate(p) \/ Evaluated(p) \/ Approve(p) \/ Reject(p)
      PROVE  PropInv'
  BY <1>1, StatusStepKeeps
<1>2. ASSUME NEW p \in ProposalIds,
             BeginApply(p) \/ ReadConfig(p) \/ WriteConfig(p) \/ BeginRollback(p) \/ RestoreConfig(p)
      PROVE  PropInv'
  BY <1>2, CallStepKeeps
<1>3. ASSUME NEW p \in ProposalIds, RecordApply(p) \/ RecordRollback(p)
      PROVE  PropInv'
  BY <1>3, RecordKeeps
<1>4. CASE ApplierCrash
  BY <1>4, ApplierCrashKeeps
<1>5. CASE UNCHANGED proposalVars
  BY <1>5 DEF proposalVars, PropInv, ProposalTypes, ProposalTypeOK, InOrder, Stacked, Busy,
              Underway, Changed, Laid
<1> QED BY <1>1, <1>2, <1>3, <1>4, <1>5 DEF ProposalNext

LEMMA ProposalBegins == ProposalInit => PropInv
<1> SUFFICES ASSUME ProposalInit PROVE PropInv
  OBVIOUS
<1>1. [k \in Keys |-> Original] \in Files
  BY DEF Files
<1>2. \A p \in ProposalIds : calls[p] = NoCall /\ ledger[p].status = "pending"
  BY DEF ProposalInit
<1>3. inForce = <<>> /\ inForce \in Seq(ProposalIds) /\ Len(inForce) = 0 /\ DOMAIN inForce = {}
  BY EmptySeq DEF ProposalInit
<1>4. ProposalTypes
  <2>1. ledger \in [ProposalIds -> [status : Statuses, previous : Files]]
    BY <1>1 DEF ProposalInit, Statuses
  <2>2. calls \in [ProposalIds -> CallStates]
    BY DEF ProposalInit, CallStates
  <2>3. config \in Files /\ evaluating \subseteq ProposalIds /\ orderly \in BOOLEAN
    BY <1>1 DEF ProposalInit
  <2> QED BY <1>2, <1>3, <2>1, <2>2, <2>3, PhasesOf DEF ProposalTypes, ProposalTypeOK
<1>5. Laid(config)
  BY <1>3, AfterNone DEF Laid, ProposalInit
<1>6. \A p \in ProposalIds : Underway(p)
  BY <1>2 DEF Underway, NoCall
<1>7. (\A p, q \in Busy : p = q) /\ Stacked
  BY <1>2, <1>3 DEF Busy, Stacked
<1> QED BY <1>4, <1>5, <1>6, <1>7 DEF PropInv, InOrder

LEMMA ProposalInvariant == ProposalSpec => []PropInv
BY ProposalBegins, ProposalStep, PTL DEF ProposalSpec

\* The ledger, the file and the calls have their types, in whatever order
\* calls overlap, evaluations end and rejections come.
THEOREM ProposalTypesHold == ProposalSpec => []ProposalTypeOK
<1>1. PropInv => ProposalTypeOK
  BY DEF PropInv, ProposalTypes
<1> QED BY <1>1, ProposalInvariant, PTL

\* As long as the host is orderly, and no call is under way, the configuration
\* is the original with the applied proposals laid over it in their order: for
\* any proposals, any keys they share, and any number of applications and
\* rollbacks.
THEOREM AppliedStayInForce == ProposalSpec => []AppliedInForce
<1>1. PropInv => AppliedInForce
  <2> SUFFICES ASSUME PropInv, orderly, Busy = {}, NEW k \in Keys
               PROVE  config[k] = Newest(k)
    BY DEF AppliedInForce
  <2>1. ProposalTypes /\ InOrder
    BY DEF PropInv
  <2>2. \A p \in ProposalIds : ~ Changed(p)
    BY <2>1, CallFacts DEF Changed
  <2>3. Laid(config)
    BY <2>1, <2>2 DEF InOrder
  <2>4. inForce \in Seq(ProposalIds)
    BY <2>1 DEF ProposalTypes, ProposalTypeOK
  <2> QED BY <2>3, <2>4, NewestIsAfter DEF Laid
<1> QED BY <1>1, ProposalInvariant, PTL

-----------------------------------------------------------------------------
(* Offline consolidation: the inductive invariant. *)

AnyProject  == StatementProjects \cup {NoProjectId}
InstanceRow == [project : AnyProject, active : BOOLEAN, updated : Nat]
FactRow     == [project : AnyProject, of : Nat, entity : Nat, said : Statements, conf : 0..99,
                status : {"provisional", "verified", "archived", "rejected", "forgotten"},
                by : 0..MaxStatements]

StoreRows ==
  /\ clock \in Nat /\ offlineRuns \in 0..MaxOfflineRuns
  /\ instances \in Seq(InstanceRow)
  /\ \A i \in Instances : instances[i].updated \in 1..clock
  /\ sameAs \subseteq Instances \X Instances
  /\ facts \in Seq(FactRow) /\ Len(facts) <= MaxStatements
  /\ \A f \in Stated : /\ facts[f].of \in Instances \cup {0}
                        /\ facts[f].entity \in Instances \cup {0}

\* A fact under review is as it was read, or was deleted meanwhile.
Reviewed(f) ==
  /\ offline.seen[f].entity = facts[f].entity /\ offline.seen[f].conf = facts[f].conf
  /\ offline.seen[f].said = facts[f].said
  /\ offline.seen[f].status \in {"provisional", "verified"}
  /\ facts[f].status \in {offline.seen[f].status, "forgotten"}

Reviewing ==
  \/ offline = NoRunYet
  \/ /\ offline.phase = "reviewing"
     /\ offline.facts \in SUBSET Stated /\ \A f \in offline.facts : Reviewed(f)
     /\ offline.order \in Seq(InstanceRow) /\ DOMAIN offline.order \in SUBSET Instances

\* Only what was retired has a successor.
Replaced == \A f \in Stated :
  facts[f].by # 0 => facts[f].status \in {"archived", "rejected", "forgotten"}

\* A fact that is not where it was said to be was said of no instance, or of one
\* that was merged.
Moved == \A f \in Stated :
  facts[f].entity # facts[f].of =>
    facts[f].of = 0 \/ \E i \in Instances : <<facts[f].of, i>> \in sameAs

\* What may be verified by its confidence alone has a ground for it.
Strong == \A f \in Stated : facts[f].conf >= 80 \/ facts[f].status = "verified" => Ground(f)

OffInv == StoreRows /\ Reviewing /\ Replaced /\ Moved /\ Strong /\ StaysAnswered

-----------------------------------------------------------------------------
(* Offline consolidation: the choices. *)

\* Of finitely many one is greatest by a value, and by its number among equals.
LEMMA GreatestInOrder ==
  ASSUME NEW S \in SUBSET Nat, IsFiniteSet(S), S # {}, NEW g \in [S -> Int]
  PROVE  \E i \in S : \A j \in S \ {i} : g[i] > g[j] \/ (g[i] = g[j] /\ i > j)
<1>1. PICK i \in S : \A j \in S : g[j] <= g[i]
  BY GreatestValue
<1> DEFINE T == {j \in S : g[j] = g[i]}
<1>2. T \in SUBSET S /\ T # {}
  OBVIOUS
<1>3. IsFiniteSet(T) /\ T \in SUBSET Int
  <2>1. T \in SUBSET Int
    <3>1. S \in SUBSET Int
      OBVIOUS
    <3> HIDE DEF T
    <3> QED BY <1>2, <3>1
  <2>2. IsFiniteSet(T)
    <3> HIDE DEF T
    <3> QED BY <1>2, FS_Subset
  <2> QED BY <2>1, <2>2
<1>4. PICK m \in T : \A j \in T : j <= m
  <2> HIDE DEF T
  <2> QED BY <1>2, <1>3, MaxOfFinite
<1>5. m \in S /\ g[m] = g[i]
  BY <1>2
<1>6. ASSUME NEW j \in S \ {m}
      PROVE  g[m] > g[j] \/ (g[m] = g[j] /\ m > j)
  <2>1. g[j] \in Int /\ g[m] \in Int /\ j \in Nat /\ m \in Nat /\ g[j] <= g[m]
    BY <1>1, <1>5
  <2>2. CASE g[j] = g[m]
    <3>1. j \in T
      BY <1>5, <2>2
    <3>2. j <= m /\ j # m
      BY <1>4, <3>1
    <3> QED BY <2>1, <2>2, <3>2
  <2>3. CASE g[j] # g[m]
    BY <2>1, <2>3
  <2> QED BY <2>2, <2>3
<1> QED BY <1>5, <1>6

LEMMA MaxOfTwo ==
  ASSUME NEW a \in Int, NEW b \in Int
  PROVE  Max({a, b}) \in {a, b} /\ a <= Max({a, b}) /\ b <= Max({a, b})
<1>1. IsFiniteSet({a, b}) /\ {a, b} \in SUBSET Int /\ {a, b} # {}
  <2>1. {a, b} = {a} \cup {b}
    OBVIOUS
  <2>2. IsFiniteSet({a} \cup {b})
    BY FS_Singleton, FS_Union
  <2> QED BY <2>1, <2>2
<1> QED BY <1>1, MaxOfFinite

LEMMA MaxOfPercents == \A a, b \in 0..99 : Max({a, b}) \in 0..99
<1> SUFFICES ASSUME NEW a \in 0..99, NEW b \in 0..99 PROVE Max({a, b}) \in 0..99
  OBVIOUS
<1>1. a \in Int /\ b \in Int
  OBVIOUS
<1>2. Max({a, b}) \in {a, b}
  BY <1>1, MaxOfTwo
<1> QED BY <1>2

LEMMA Places ==
  ASSUME StoreRows
  PROVE  /\ Len(facts) \in Nat /\ Stated = 1..Len(facts) /\ Stated \in SUBSET Nat /\ IsFiniteSet(Stated)
         /\ Len(instances) \in Nat /\ Instances = 1..Len(instances)
         /\ Instances \in SUBSET Nat /\ IsFiniteSet(Instances)
         /\ \A f \in Stated : facts[f] \in FactRow
         /\ \A i \in Instances : instances[i] \in InstanceRow
BY FinitePlaces DEF StoreRows, Stated, Instances

\* The freshest of some instances is one of them.
LEMMA FreshestIn ==
  ASSUME StoreRows, NEW S \in SUBSET Instances, S # {}
  PROVE  Freshest(S) \in S
<1> DEFINE g == [i \in S |-> instances[i].updated]
<1>1. S \in SUBSET Nat /\ IsFiniteSet(S) /\ g \in [S -> Int]
  BY Places, FS_Subset DEF StoreRows
<1>2. \E i \in S : \A j \in S \ {i} : g[i] > g[j] \/ (g[i] = g[j] /\ i > j)
  <2> HIDE DEF g
  <2> QED BY <1>1, GreatestInOrder
<1>3. \E i \in S : \A j \in S \ {i} : Fresher(i, j)
  BY <1>2 DEF Fresher
<1> QED BY <1>3 DEF Freshest

\* A group has one winner, which is the winner of each of its facts.
LEMMA WinnerIn ==
  ASSUME StoreRows, Reviewing, offline.phase = "reviewing", NEW f \in offline.facts
  PROVE  /\ Winner(f) \in Group(f) /\ Winner(f) \in offline.facts /\ offline.facts \subseteq Stated
         /\ \A g \in Group(f) : Winner(g) = Winner(f)
         /\ Winner(f) = f => \A g \in Group(f) : Winner(g) = f
<1> DEFINE S == Group(f)
           g == [h \in S |-> 100 * offline.seen[h].said.evidence + offline.seen[h].conf]
<1>1. offline.facts \in SUBSET Stated /\ \A h \in offline.facts : Reviewed(h)
  BY DEF Reviewing, NoRunYet
<1>2. S \in SUBSET offline.facts /\ f \in S
  BY DEF Group
<1>3. S \in SUBSET Stated /\ S \in SUBSET Nat /\ IsFiniteSet(S)
  BY <1>1, <1>2, Places, FS_Subset
<1>4. \A h \in S : offline.seen[h].conf \in 0..99 /\ offline.seen[h].said.evidence \in 0..4
  <2> SUFFICES ASSUME NEW h \in S
               PROVE  offline.seen[h].conf \in 0..99 /\ offline.seen[h].said.evidence \in 0..4
    OBVIOUS
  <2>1. Reviewed(h) /\ facts[h] \in FactRow
    BY <1>1, <1>2, Places
  <2>2. offline.seen[h].conf \in 0..99 /\ offline.seen[h].said \in Statements
    BY <2>1 DEF Reviewed, FactRow
  <2> QED BY <2>2, OfflineAssumption
<1>5. g \in [S -> Int]
  <2>1. \A e \in 0..4, c \in 0..99 : 100 * e + c \in Int
    OBVIOUS
  <2>2. \A h \in S : 100 * offline.seen[h].said.evidence + offline.seen[h].conf \in Int
    BY <1>4, <2>1
  <2> QED BY <2>2
<1>6. \E i \in S : \A j \in S \ {i} : g[i] > g[j] \/ (g[i] = g[j] /\ i > j)
  <2> HIDE DEF g, S
  <2> QED BY <1>2, <1>3, <1>5, GreatestInOrder
<1>7. \E i \in S : \A j \in S \ {i} : Better(i, j)
  <2>1. PICK i \in S : \A j \in S \ {i} : g[i] > g[j] \/ (g[i] = g[j] /\ i > j)
    BY <1>6
  <2>2. ASSUME NEW j \in S \ {i} PROVE Better(i, j)
    <3> DEFINE a == offline.seen[i].said.evidence
               b == offline.seen[j].said.evidence
               c == offline.seen[i].conf
               d == offline.seen[j].conf
    <3>1. 100 * a + c > 100 * b + d \/ (100 * a + c = 100 * b + d /\ i > j)
      BY <2>1
    <3>2. a \in 0..4 /\ b \in 0..4 /\ c \in 0..99 /\ d \in 0..99
      BY <1>4
    <3> HIDE DEF a, b, c, d
    <3>3. a > b \/ (a = b /\ (c > d \/ (c = d /\ i > j)))
      BY <3>1, <3>2
    <3> QED BY <3>3 DEF Better, a, b, c, d
  <2> QED BY <2>2
<1>8. Winner(f) \in S
  BY <1>7 DEF Winner
<1>9. \A h \in S : Group(h) = Group(f)
  BY DEF Group
<1>10. \A h \in S : Winner(h) = Winner(f)
  BY <1>9 DEF Winner
<1> QED BY <1>1, <1>2, <1>8, <1>10

LEMMA PrimaryIn ==
  ASSUME StoreRows, Reviewing, offline.phase = "reviewing"
  PROVE  /\ Duplicates \subseteq Instances
         /\ Duplicates # {} => PrimaryInstance \in Instances
<1>1. offline.order \in Seq(InstanceRow) /\ DOMAIN offline.order \in SUBSET Instances
  BY DEF Reviewing, NoRunYet
<1> DEFINE was == offline.order
           S == DOMAIN was
           g == [i \in S |-> was[i].updated]
<1>2. /\ S \in SUBSET Nat /\ IsFiniteSet(S) /\ S = 1..Len(was) /\ Len(was) \in Nat
      /\ \A i \in S : was[i] \in InstanceRow
  BY <1>1, FinitePlaces
<1>3. g \in [S -> Int]
  BY <1>2 DEF InstanceRow
<1>4. ASSUME Len(was) > 1 PROVE PrimaryInstance \in S
  <2>1. S # {}
    BY <1>2, <1>4
  <2>2. \E i \in S : \A j \in S \ {i} : g[i] > g[j] \/ (g[i] = g[j] /\ i > j)
    <3> HIDE DEF g, S
    <3> QED BY <1>2, <1>3, <2>1, GreatestInOrder
  <2>3. \E i \in S : \A j \in S \ {i} : \/ was[i].updated > was[j].updated
                                        \/ was[i].updated = was[j].updated /\ i > j
    BY <2>2
  <2> QED BY <2>3 DEF PrimaryInstance
<1> QED BY <1>1, <1>4 DEF Duplicates

LEMMA RowChanged ==
  ASSUME NEW h \in FactRow, NEW s, NEW b, NEW e, NEW c
  PROVE  [h EXCEPT !.status = s, !.by = b, !.entity = e, !.conf = c]
           = [project |-> h.project, of |-> h.of, entity |-> e, said |-> h.said, conf |-> c,
              status |-> s, by |-> b]
<1> DEFINE row(e1, c1, s1, b1) == [project |-> h.project, of |-> h.of, entity |-> e1, said |-> h.said,
                                  conf |-> c1, status |-> s1, by |-> b1]
           h1 == [h EXCEPT !.status = s]
           h2 == [h1 EXCEPT !.by = b]
           h3 == [h2 EXCEPT !.entity = e]
<1>1. [h EXCEPT !.status = s, !.by = b, !.entity = e, !.conf = c] = [h3 EXCEPT !.conf = c]
  OBVIOUS
<1>2. h1 = row(h.entity, h.conf, s, h.by)
  BY DEF FactRow
<1> HIDE DEF h1
<1>3. h2 = row(h.entity, h.conf, s, b)
  BY <1>2
<1> HIDE DEF h2
<1>4. h3 = row(e, h.conf, s, b)
  BY <1>3
<1> HIDE DEF h3
<1>5. [h3 EXCEPT !.conf = c] = row(e, c, s, b)
  BY <1>4
<1> QED BY <1>1, <1>5

\* The same for the two fields archiving writes.
LEMMA InstanceChanged ==
  ASSUME NEW h \in InstanceRow, NEW a, NEW u
  PROVE  [h EXCEPT !.active = a, !.updated = u] = [project |-> h.project, active |-> a, updated |-> u]
<1> DEFINE h1 == [h EXCEPT !.active = a]
<1>1. [h EXCEPT !.active = a, !.updated = u] = [h1 EXCEPT !.updated = u]
  OBVIOUS
<1>2. h1 = [project |-> h.project, active |-> a, updated |-> h.updated]
  BY DEF InstanceRow
<1> HIDE DEF h1
<1>3. [h1 EXCEPT !.updated = u] = [project |-> h.project, active |-> a, updated |-> u]
  BY <1>2
<1> QED BY <1>1, <1>3

LEMMA RaisedIn ==
  ASSUME NEW conf \in 0..99, NEW least \in 0..99, NEW when
  PROVE  Raised(conf, least, when) \in 0..99 /\ (~ when => Raised(conf, least, when) = conf)
<1>1. Max({conf, least}) \in 0..99
  BY MaxOfPercents
<1> QED BY <1>1 DEF Raised

\* What a run makes of a fact.
LEMMA AfterReview ==
  ASSUME StoreRows, Reviewing, offline.phase = "reviewing", NEW f \in Stated, NEW to \in Resolutions
  PROVE  /\ FactAfter(f, to) \in FactRow
         /\ FactAfter(f, to).of = facts[f].of /\ FactAfter(f, to).said = facts[f].said
         /\ f \notin offline.facts \/ facts[f].status = "forgotten" => FactAfter(f, to) = facts[f]
         /\ f \in offline.facts /\ facts[f].status # "forgotten" =>
              IF Winner(f) = f
              THEN /\ FactAfter(f, to).by = facts[f].by
                   /\ FactAfter(f, to).status \in {facts[f].status, "verified"}
              ELSE /\ FactAfter(f, to).by = Winner(f)
                   /\ FactAfter(f, to).status \in {"archived", "rejected"}
         /\ \/ FactAfter(f, to).entity = facts[f].entity
            \/ facts[f].entity \in Duplicates /\ FactAfter(f, to).entity = PrimaryInstance
            \/ facts[f].entity = 0 /\ FactAfter(f, to).entity \in Instances
         /\ FactAfter(f, to).conf >= 80 \/ FactAfter(f, to).status = "verified" =>
              \/ facts[f].conf >= 80 \/ facts[f].status = "verified"
              \/ f \in offline.facts /\ Winner(f) = f /\ Corroborated(f)
              \/ facts[f].entity \in Duplicates /\ FactAfter(f, to).entity = PrimaryInstance
              \/ facts[f].entity = 0 /\ FactAfter(f, to).entity \in Instances
<1>1. facts[f] \in FactRow
  BY Places
<1>2. CASE f \notin offline.facts \/ facts[f].status = "forgotten"
  <2>1. FactAfter(f, to) = facts[f]
    BY <1>2 DEF FactAfter
  <2> QED BY <1>1, <1>2, <2>1
<1>3. CASE f \in offline.facts /\ facts[f].status # "forgotten"
  <2> DEFINE status == StatusAfter(f, to)
             by     == IF Winner(f) = f THEN facts[f].by ELSE Winner(f)
             entity == IF BoundTo(f, to) \in Duplicates THEN PrimaryInstance ELSE BoundTo(f, to)
             conf   == ConfidenceAfter(f, to)
  <2>1. FactAfter(f, to) = [facts[f] EXCEPT !.status = status, !.by = by, !.entity = entity, !.conf = conf]
    BY <1>3 DEF FactAfter
  <2>2. /\ facts[f].conf \in 0..99 /\ facts[f].by \in 0..MaxStatements /\ facts[f].entity \in Nat
        /\ facts[f].status \in {"provisional", "verified", "archived", "rejected", "forgotten"}
    BY <1>1 DEF FactRow
  <2>3. /\ offline.seen[f].entity = facts[f].entity /\ offline.seen[f].conf = facts[f].conf
        /\ offline.seen[f].status \in {"provisional", "verified"}
        /\ offline.seen[f].status = facts[f].status
    BY <1>3 DEF Reviewing, Reviewed, NoRunYet
  <2>4. /\ Winner(f) \in Stated /\ Stated = 1..Len(facts) /\ Len(facts) \in Nat
        /\ Len(facts) <= MaxStatements /\ MaxStatements \in Nat
    BY <1>3, WinnerIn, Places, OfflineAssumption DEF StoreRows
  <2>5. Winner(f) \in 0..MaxStatements
    BY <2>4
  <2>6. /\ Duplicates \subseteq Instances /\ (Duplicates # {} => PrimaryInstance \in Instances)
        /\ 0 \notin Instances /\ Instances \in SUBSET Nat
    BY PrimaryIn, Places
  <2>7. f \in Unbound => facts[f].entity = 0 /\ to[f] \in Instances \cup {0}
    BY <2>3 DEF Unbound, Resolutions
  <2>8. \/ entity = facts[f].entity /\ ~ Resolved(f, to) /\ BoundTo(f, to) \notin Duplicates
        \/ facts[f].entity \in Duplicates /\ entity = PrimaryInstance
        \/ facts[f].entity = 0 /\ entity \in Instances
    <3>1. CASE f \notin Unbound
      <4>1. BoundTo(f, to) = facts[f].entity /\ ~ Resolved(f, to)
        BY <2>3, <3>1 DEF BoundTo, Resolved
      <4> QED BY <4>1
    <3>2. CASE f \in Unbound
      <4>1. BoundTo(f, to) = to[f] /\ (Resolved(f, to) <=> to[f] # 0)
        BY <3>2 DEF BoundTo, Resolved
      <4> QED BY <2>6, <2>7, <3>2, <4>1
    <3> QED BY <3>1, <3>2
  <2>9. entity \in Nat
    <3> HIDE DEF entity
    <3> QED BY <2>2, <2>6, <2>8
  <2>10. /\ conf \in 0..99
         /\ ~ Resolved(f, to) /\ BoundTo(f, to) \notin Duplicates /\ ~ (Winner(f) = f /\ Verified(f)) =>
              conf = facts[f].conf
    <3> DEFINE bound    == Raised(facts[f].conf, 82, Resolved(f, to))
               least    == IF Corroborated(f) THEN 91 ELSE 86
               verified == Raised(bound, least, Winner(f) = f /\ Verified(f))
    <3>1. 82 \in 0..99 /\ 84 \in 0..99 /\ least \in 0..99
      OBVIOUS
    <3>2. bound \in 0..99 /\ (~ Resolved(f, to) => bound = facts[f].conf)
      <4>1. Max({facts[f].conf, 82}) \in 0..99
        BY <2>2, <3>1, MaxOfPercents
      <4> QED BY <2>2, <4>1 DEF Raised
    <3> HIDE DEF bound, least
    <3>3. verified \in 0..99 /\ (~ (Winner(f) = f /\ Verified(f)) => verified = bound)
      BY <3>1, <3>2, RaisedIn
    <3>4. conf = Raised(verified, 84, BoundTo(f, to) \in Duplicates)
      BY DEF ConfidenceAfter, bound, least
    <3> HIDE DEF verified, conf
    <3>5. conf \in 0..99 /\ (BoundTo(f, to) \notin Duplicates => conf = verified)
      BY <3>1, <3>3, <3>4, RaisedIn
    <3> QED BY <3>2, <3>3, <3>5
  <2>11. /\ by \in 0..MaxStatements
         /\ IF Winner(f) = f THEN status \in {facts[f].status, "verified"}
            ELSE status \in {"archived", "rejected"}
         /\ status = "verified" => (Winner(f) = f /\ Verified(f)) \/ facts[f].status = "verified"
    BY <2>2, <2>5 DEF StatusAfter
  <2>12. status \in {"provisional", "verified", "archived", "rejected", "forgotten"}
    BY <2>2, <2>11
  <2>13. Verified(f) => \/ facts[f].conf >= 80 \/ facts[f].status = "verified"
                        \/ Corroborated(f)
    BY <2>3 DEF Verified
  <2> HIDE DEF conf, entity, status, by
  <2>14. /\ FactAfter(f, to) \in FactRow
         /\ FactAfter(f, to).of = facts[f].of /\ FactAfter(f, to).said = facts[f].said
         /\ FactAfter(f, to).status = status /\ FactAfter(f, to).by = by
         /\ FactAfter(f, to).entity = entity /\ FactAfter(f, to).conf = conf
    <3>1. [facts[f] EXCEPT !.status = status, !.by = by, !.entity = entity, !.conf = conf]
            = [project |-> facts[f].project, of |-> facts[f].of, entity |-> entity,
               said |-> facts[f].said, conf |-> conf, status |-> status, by |-> by]
      BY <1>1, RowChanged
    <3>2. FactAfter(f, to) = [project |-> facts[f].project, of |-> facts[f].of, entity |-> entity,
                              said |-> facts[f].said, conf |-> conf, status |-> status, by |-> by]
      BY <2>1, <3>1
    <3>3. facts[f].project \in AnyProject /\ facts[f].of \in Nat /\ facts[f].said \in Statements
      BY <1>1 DEF FactRow
    <3> QED BY <2>9, <2>10, <2>11, <2>12, <3>2, <3>3 DEF FactRow
  <2>15. IF Winner(f) = f
         THEN FactAfter(f, to).by = facts[f].by /\ FactAfter(f, to).status \in {facts[f].status, "verified"}
         ELSE FactAfter(f, to).by = Winner(f) /\ FactAfter(f, to).status \in {"archived", "rejected"}
    <3>1. by = IF Winner(f) = f THEN facts[f].by ELSE Winner(f)
      BY DEF by
    <3> QED BY <2>11, <2>14, <3>1
  <2>16. conf >= 80 \/ status = "verified" =>
           \/ facts[f].conf >= 80 \/ facts[f].status = "verified"
           \/ Winner(f) = f /\ Corroborated(f)
           \/ facts[f].entity \in Duplicates /\ entity = PrimaryInstance
           \/ facts[f].entity = 0 /\ entity \in Instances
    BY <2>8, <2>10, <2>11, <2>13
  <2> QED BY <1>3, <2>8, <2>14, <2>15, <2>16
<1> QED BY <1>2, <1>3

\* A ground is never taken away.
LEMMA GroundKept ==
  ASSUME NEW f, Ground(f), Stated \subseteq Stated', Instances \subseteq Instances',
         sameAs \subseteq sameAs', facts'[f].said = facts[f].said, facts'[f].of = facts[f].of,
         facts[f].of = 0 /\ facts[f].entity # 0 => facts'[f].entity # 0,
         \A g \in Stated : /\ facts[g].by = f => facts'[g].by = f \/ facts'[g].status = "forgotten"
                           /\ facts[g].status = "forgotten" => facts'[g].status = "forgotten"
  PROVE  Ground(f)'
BY DEF Ground

-----------------------------------------------------------------------------
(* Offline consolidation: a statement. *)

LEMMA NamedIn ==
  ASSUME StoreRows, NEW p, NEW purchase
  PROVE  Named(p, purchase) \in 1..(Len(instances) + 1)
<1> DEFINE found == IF purchase THEN {} ELSE Existing(p)
<1>1. found \in SUBSET Instances
  BY DEF Existing
<1>2. Instances = 1..Len(instances) /\ Len(instances) \in Nat
  BY Places
<1>3. CASE found = {}
  BY <1>2, <1>3 DEF Named
<1>4. CASE found # {}
  <2>1. Named(p, purchase) = Freshest(found)
    BY <1>4 DEF Named
  <2>2. Freshest(found) \in found
    <3> HIDE DEF found
    <3> QED BY <1>1, <1>4, FreshestIn
  <2> QED BY <1>1, <1>2, <2>1, <2>2
<1> QED BY <1>3, <1>4

\* The row of an instance is found or made; it is stamped, and stays as active
\* as it was.
LEMMA UpsertedRows ==
  ASSUME StoreRows, NEW p \in AnyProject, NEW who \in 1..(Len(instances) + 1)
  PROVE  LET t == Upserted(p, who, clock + 1)
         IN  /\ t \in Seq(InstanceRow)
             /\ Instances \cup {who} = DOMAIN t
             /\ \A i \in Instances : t[i].active = instances[i].active
             /\ \A i \in DOMAIN t \ Instances : t[i].active
             /\ \A i \in DOMAIN t : t[i].updated \in 1..(clock + 1)
<1> DEFINE t == Upserted(p, who, clock + 1)
           n == Len(instances)
           new == [project |-> p, active |-> TRUE, updated |-> clock + 1]
<1>1. /\ n \in Nat /\ Instances = 1..n /\ instances \in Seq(InstanceRow)
      /\ \A i \in Instances : instances[i] \in InstanceRow /\ instances[i].updated \in 1..clock
      /\ clock \in Nat
  BY Places DEF StoreRows
<1>2. \A u \in 1..clock : u \in 1..(clock + 1)
  BY <1>1
<1>3. clock + 1 \in Nat /\ clock + 1 \in 1..(clock + 1)
  BY <1>1
<1>4. CASE who \notin Instances
  <2>1. who = n + 1
    BY <1>1, <1>4
  <2>2. t = Append(instances, new) /\ new \in InstanceRow
    BY <1>3, <1>4 DEF Upserted, InstanceRow
  <2>3. /\ t \in Seq(InstanceRow) /\ Len(t) = n + 1
        /\ \A i \in 1..n : t[i] = instances[i]
        /\ t[n + 1] = new
    <3> HIDE DEF t, new
    <3> QED BY <1>1, <2>2, AppendProperties
  <2>4. DOMAIN t = 1..(n + 1)
    BY <2>3, LenProperties
  <2>5. 1..(n + 1) = (1..n) \cup {n + 1} /\ n + 1 \notin 1..n
    BY <1>1
  <2> HIDE DEF t, n
  <2>6. \A i \in DOMAIN t : t[i].updated \in 1..(clock + 1)
    BY <1>1, <1>2, <1>3, <2>3, <2>4, <2>5
  <2>7. /\ \A i \in Instances : t[i].active = instances[i].active
        /\ \A i \in DOMAIN t \ Instances : t[i].active
    BY <1>1, <2>3, <2>4, <2>5
  <2>8. Instances \cup {who} = DOMAIN t
    BY <1>1, <2>1, <2>4, <2>5
  <2> QED BY <2>3, <2>6, <2>7, <2>8 DEF t
<1>5. CASE who \in Instances
  <2>1. t = [instances EXCEPT ![who] = [[@ EXCEPT !.updated = clock + 1] EXCEPT !.project = p]]
    BY <1>5 DEF Upserted
  <2> DEFINE h1 == [instances[who] EXCEPT !.updated = clock + 1]
             h2 == [h1 EXCEPT !.project = p]
  <2>2. instances[who] \in InstanceRow
    BY <1>1, <1>5
  <2>3. h1 = [project |-> instances[who].project, active |-> instances[who].active,
              updated |-> clock + 1]
    BY <2>2 DEF InstanceRow
  <2>4. t = [instances EXCEPT ![who] = h2]
    BY <1>5, <2>1
  <2> HIDE DEF h1
  <2>5. h2 = [project |-> p, active |-> instances[who].active, updated |-> clock + 1]
    BY <2>3
  <2> HIDE DEF h2, t, n
  <2>6. h2 \in InstanceRow
    BY <1>3, <2>2, <2>5 DEF InstanceRow
  <2>7. /\ t \in [1..n -> InstanceRow]
        /\ t[who] = h2 /\ \A i \in Instances \ {who} : t[i] = instances[i]
    <3>1. DOMAIN instances = 1..n
      BY <1>1 DEF Instances
    <3>2. instances \in [1..n -> InstanceRow]
      BY <1>1, <3>1, LenProperties
    <3> QED BY <1>1, <1>5, <2>4, <2>6, <3>2
  <2>8. t \in Seq(InstanceRow) /\ DOMAIN t = 1..n
    BY <1>1, <2>7, FunctionIsSeq
  <2>9. \A i \in Instances : t[i].active = instances[i].active /\ t[i].updated \in 1..(clock + 1)
    BY <1>1, <1>2, <1>3, <2>5, <2>7
  <2> QED BY <1>1, <1>5, <2>8, <2>9 DEF t
<1> QED BY <1>4, <1>5

\* One more fact, of an instance there is by then or of none.
LEMMA StatementKeeps ==
  ASSUME OffInv, NEW p \in AnyProject, NEW s \in Statements, NEW who \in Instances' \cup {0},
         Len(facts) < MaxStatements, facts' = Inserted(p, who, s),
         instances' \in Seq(InstanceRow), Instances' \in SUBSET Nat, Instances \subseteq Instances',
         \A i \in Instances : instances'[i].active = instances[i].active,
         \A i \in Instances' \ Instances : instances'[i].active,
         \A i \in Instances' : instances'[i].updated \in 1..(clock + 1),
         clock' = clock + 1, UNCHANGED <<sameAs, offline, offlineRuns>>
  PROVE  OffInv'
<1> USE DEF OffInv
<1> DEFINE n   == Len(facts)
           new == [project |-> p, of |-> who, said |-> s, entity |-> who, conf |-> s.conf, by |-> 0,
                   status |-> IF s \in Purchases THEN "verified" ELSE "provisional"]
<1>1. n < MaxStatements /\ facts' = Append(facts, new)
  BY DEF Inserted
<1>2. /\ Len(instances) \in Nat /\ Instances = 1..Len(instances)
      /\ n \in Nat /\ Stated = 1..n /\ MaxStatements \in Nat /\ clock \in Nat
      /\ \A f \in Stated : facts[f] \in FactRow
  BY Places, OfflineAssumption DEF StoreRows
<1>3. who \in Nat
  BY <1>2
<1>4. s.conf \in 0..99 /\ (s \in Purchases => s.conf >= 80)
  BY OfflineAssumption
<1>5. new \in FactRow
  <2>1. 0 \in 0..MaxStatements
    BY <1>2
  <2> QED BY <1>3, <1>4, <2>1 DEF FactRow
<1>6. /\ facts' \in Seq(FactRow) /\ Len(facts') = n + 1 /\ Stated' = Stated \cup {n + 1}
      /\ \A f \in Stated : facts'[f] = facts[f]
      /\ facts'[n + 1] = new /\ n + 1 \notin Stated
  <2>1. /\ facts' \in Seq(FactRow) /\ Len(facts') = n + 1
        /\ \A f \in 1..n : facts'[f] = facts[f]
        /\ facts'[n + 1] = new
    BY <1>1, <1>5, AppendProperties DEF StoreRows
  <2>2. Stated' = 1..(n + 1)
    BY <2>1, LenProperties DEF Stated
  <2>3. 1..(n + 1) = (1..n) \cup {n + 1} /\ n + 1 \notin 1..n
    BY <1>2
  <2> QED BY <1>2, <2>1, <2>2, <2>3
<1> HIDE DEF n
<1>7. StoreRows'
  <2>1. clock' \in Nat /\ n + 1 <= MaxStatements
    BY <1>1, <1>2
  <2>2. \A f \in Stated' : /\ facts'[f].of \in Instances' \cup {0}
                            /\ facts'[f].entity \in Instances' \cup {0}
    <3>1. \A f \in Stated : /\ facts'[f].of \in Instances' \cup {0}
                             /\ facts'[f].entity \in Instances' \cup {0}
      BY <1>6 DEF StoreRows
    <3>2. facts'[n + 1].of = who /\ facts'[n + 1].entity = who
      BY <1>6
    <3> QED BY <1>6, <3>1, <3>2
  <2>3. sameAs' \subseteq Instances' \X Instances'
    BY DEF StoreRows
  <2> QED BY <1>6, <2>1, <2>2, <2>3 DEF StoreRows
<1>8. Reviewing'
  <2>1. CASE offline = NoRunYet
    BY <1>1, <2>1 DEF Reviewing
  <2>2. CASE /\ offline.phase = "reviewing"
             /\ offline.facts \in SUBSET Stated /\ \A f \in offline.facts : Reviewed(f)
             /\ offline.order \in Seq(InstanceRow) /\ DOMAIN offline.order \in SUBSET Instances
    <3>1. \A f \in offline.facts : Reviewed(f)'
      BY <1>1, <1>6, <2>2 DEF Reviewed
    <3> QED BY <1>1, <1>4, <1>6, <2>2, <3>1 DEF Reviewing
  <2> QED BY <2>1, <2>2 DEF Reviewing
<1>9. Replaced'
  BY <1>6 DEF Replaced
<1>10. Moved'
  <2> SUFFICES ASSUME NEW f \in Stated', facts'[f].entity # facts'[f].of, facts'[f].of # 0
               PROVE  \E i \in Instances' : <<facts'[f].of, i>> \in sameAs'
    BY DEF Moved
  <2>1. f \in Stated
    BY <1>6
  <2>2. facts'[f] = facts[f] /\ \E i \in Instances : <<facts[f].of, i>> \in sameAs
    BY <1>6, <2>1 DEF Moved
  <2> QED BY <2>2
<1>11. Strong'
  <2> SUFFICES ASSUME NEW f \in Stated', facts'[f].conf >= 80 \/ facts'[f].status = "verified"
               PROVE  Ground(f)'
    BY DEF Strong
  <2>1. CASE f \in Stated
    <3>1. Ground(f)
      BY <1>6, <2>1 DEF Strong
    <3> QED BY <1>6, <2>1, <3>1, GroundKept
  <2>2. CASE f = n + 1
    <3>1. s.conf >= 80
      BY <1>4, <1>6, <2>2
    <3> QED BY <1>6, <2>2, <3>1 DEF Ground
  <2> QED BY <1>6, <2>1, <2>2
<1>12. StaysAnswered'
  <2>1. ASSUME NEW S \in SUBSET Retired', S # {}
        PROVE  \E f \in S : facts'[f].by \in Stated' \ S
    <3>1. S \in SUBSET Retired
      <4>1. facts'[n + 1].status \notin {"archived", "rejected"}
        BY <1>6
      <4> QED BY <1>6, <4>1 DEF Retired
    <3>2. PICK f \in S : facts[f].by \in Stated \ S
      BY <2>1, <3>1 DEF StaysAnswered
    <3> QED BY <1>6, <3>1, <3>2 DEF Retired
  <2>2. \A i \in Instances' : ~ instances'[i].active => \E j \in Instances' : <<i, j>> \in sameAs'
    BY DEF StaysAnswered
  <2> QED BY <2>1, <2>2 DEF StaysAnswered
<1> QED BY <1>7, <1>8, <1>9, <1>10, <1>11, <1>12

LEMMA StateKeeps ==
  ASSUME OffInv, NEW p \in AnyProject, NEW s \in Statements, State(p, s)
  PROVE  OffInv'
<1> DEFINE who == Named(p, s \in Purchases)
<1>1. /\ Len(facts) < MaxStatements /\ instances' = Upserted(p, who, clock + 1)
      /\ facts' = Inserted(p, who, s) /\ clock' = clock + 1
      /\ UNCHANGED <<sameAs, offline, offlineRuns>>
  BY DEF State
<1>2. StoreRows /\ Len(instances) \in Nat /\ Instances = 1..Len(instances)
  BY Places DEF OffInv
<1>3. who \in 1..(Len(instances) + 1)
  BY <1>2, NamedIn
<1> HIDE DEF who
<1>4. /\ instances' \in Seq(InstanceRow) /\ Instances' = Instances \cup {who}
      /\ \A i \in Instances : instances'[i].active = instances[i].active
      /\ \A i \in Instances' \ Instances : instances'[i].active
      /\ \A i \in Instances' : instances'[i].updated \in 1..(clock + 1)
  BY <1>1, <1>2, <1>3, UpsertedRows DEF Instances
<1>5. Instances' \in SUBSET Nat /\ Instances \subseteq Instances' /\ who \in Instances' \cup {0}
  BY <1>2, <1>3, <1>4
<1> QED BY <1>1, <1>4, <1>5, StatementKeeps

LEMMA StateOfKeeps ==
  ASSUME OffInv, NEW p \in AnyProject, NEW s \in Statements, NEW who \in Instances \cup {0},
         StateOf(p, who, s)
  PROVE  OffInv'
<1>1. /\ Len(facts) < MaxStatements /\ facts' = Inserted(p, who, s) /\ clock' = clock + 1
      /\ \/ instances' = instances
         \/ who # 0 /\ instances' = [instances EXCEPT ![who].updated = clock + 1]
      /\ UNCHANGED <<sameAs, offline, offlineRuns>>
  BY DEF StateOf
<1>2. /\ Len(instances) \in Nat /\ Instances = 1..Len(instances) /\ clock \in Nat
      /\ instances \in Seq(InstanceRow)
      /\ \A i \in Instances : instances[i] \in InstanceRow /\ instances[i].updated \in 1..clock
  BY Places DEF OffInv, StoreRows
<1>3. 1..clock \subseteq 1..(clock + 1) /\ clock + 1 \in 1..(clock + 1) /\ clock + 1 \in Nat
  BY <1>2
<1>4. /\ instances' \in Seq(InstanceRow) /\ Instances' = Instances
      /\ \A i \in Instances : /\ instances'[i].active = instances[i].active
                              /\ instances'[i].updated \in 1..(clock + 1)
  <2>1. CASE instances' = instances
    BY <1>2, <1>3, <2>1 DEF Instances
  <2>2. CASE who # 0 /\ instances' = [instances EXCEPT ![who].updated = clock + 1]
    <3> DEFINE h == [instances[who] EXCEPT !.updated = clock + 1]
    <3>1. who \in Instances /\ instances[who] \in InstanceRow
      BY <1>2, <2>2
    <3>2. h = [project |-> instances[who].project, active |-> instances[who].active,
               updated |-> clock + 1]
      BY <3>1 DEF InstanceRow
    <3>3. instances' = [instances EXCEPT ![who] = h]
      BY <2>2
    <3> HIDE DEF h
    <3>4. h \in InstanceRow
      BY <1>3, <3>1, <3>2 DEF InstanceRow
    <3>5. instances \in [1..Len(instances) -> InstanceRow]
      BY <1>2, LenProperties
    <3>6. /\ instances' \in [1..Len(instances) -> InstanceRow]
          /\ instances'[who] = h /\ \A i \in Instances \ {who} : instances'[i] = instances[i]
      BY <1>2, <3>1, <3>3, <3>4, <3>5
    <3>7. instances' \in Seq(InstanceRow) /\ Instances' = Instances
      BY <1>2, <3>6, FunctionIsSeq DEF Instances
    <3> QED BY <1>2, <1>3, <3>2, <3>6, <3>7
  <2> QED BY <1>1, <2>1, <2>2
<1>5. Instances' \in SUBSET Nat
  BY <1>2, <1>4
<1> QED BY <1>1, <1>4, <1>5, StatementKeeps

-----------------------------------------------------------------------------
(* Offline consolidation: the other steps. *)

LEMMA StartKeeps ==
  ASSUME OffInv, StartOffline
  PROVE  OffInv'
<1> USE DEF OffInv
<1>1. /\ UNCHANGED <<instances, sameAs, facts, clock>>
      /\ offlineRuns' = offlineRuns + 1 /\ offlineRuns < MaxOfflineRuns
      /\ offline'.phase = "reviewing" /\ offline'.seen = facts /\ offline'.order = instances
      /\ offline'.facts \in SUBSET Readable
  BY DEF StartOffline
<1>2. offlineRuns' \in 0..MaxOfflineRuns
  BY <1>1, OfflineAssumption DEF StoreRows
<1>3. Stated' = Stated /\ Instances' = Instances
  BY <1>1 DEF Stated, Instances
<1>4. StoreRows'
  BY <1>1, <1>2, <1>3 DEF StoreRows
<1>5. Reviewing'
  <2>1. \A f \in offline'.facts : Reviewed(f)'
    BY <1>1 DEF Reviewed, Readable
  <2>2. offline'.facts \in SUBSET Stated' /\ offline'.order \in Seq(InstanceRow)
        /\ DOMAIN offline'.order \in SUBSET Instances'
    BY <1>1, <1>3 DEF Readable, StoreRows, Instances
  <2> QED BY <1>1, <2>1, <2>2 DEF Reviewing
<1>6. Replaced' /\ Moved' /\ Strong' /\ StaysAnswered'
  BY <1>1, <1>3 DEF Replaced, Moved, Strong, Ground, StaysAnswered, Retired
<1> QED BY <1>4, <1>5, <1>6

\* The end of a run: what it archives is replaced by what it keeps, and what it
\* verifies has a ground.
LEMMA FinishKeeps ==
  ASSUME OffInv, FinishOffline
  PROVE  OffInv'
<1> USE DEF OffInv
<1>1. PICK to \in Resolutions :
      /\ offline.phase = "reviewing"
      /\ facts' = [f \in Stated |-> FactAfter(f, to)]
      /\ instances' = [i \in Instances |-> IF i \in Duplicates THEN Archived(i) ELSE instances[i]]
      /\ sameAs' = sameAs \cup Relations /\ clock' = clock + 1 /\ offline' = NoRunYet
      /\ offlineRuns' = offlineRuns
  BY DEF FinishOffline
<1>2. /\ Len(instances) \in Nat /\ Instances = 1..Len(instances)
      /\ Len(facts) \in Nat /\ Stated = 1..Len(facts) /\ clock \in Nat
      /\ \A f \in Stated : facts[f] \in FactRow
      /\ \A i \in Instances : instances[i] \in InstanceRow /\ instances[i].updated \in 1..clock
  BY Places DEF StoreRows
<1>3. Stated' = Stated /\ Instances' = Instances
  BY <1>1 DEF Stated, Instances
<1>4. \A f \in Stated : facts'[f] = FactAfter(f, to)
  BY <1>1
<1>5. /\ offline.facts \in SUBSET Stated
      /\ \A f \in offline.facts : /\ Winner(f) \in Group(f) /\ Winner(f) \in offline.facts
                                  /\ Winner(Winner(f)) = Winner(f)
                                  /\ facts[f].status \in {"provisional", "verified", "forgotten"}
  <2>1. offline.facts \in SUBSET Stated /\ \A f \in offline.facts : Reviewed(f)
    BY <1>1 DEF Reviewing, NoRunYet
  <2>2. \A f \in offline.facts : facts[f].status \in {"provisional", "verified", "forgotten"}
    BY <2>1 DEF Reviewed
  <2>3. \A f \in offline.facts : /\ Winner(f) \in Group(f) /\ Winner(f) \in offline.facts
                                 /\ Winner(Winner(f)) = Winner(f)
    BY <1>1, WinnerIn
  <2> QED BY <2>1, <2>2, <2>3
<1>6. /\ Duplicates \subseteq Instances /\ (Duplicates # {} => PrimaryInstance \in Instances)
      /\ 0 \notin Instances
  BY <1>1, <1>2, PrimaryIn
<1>7. sameAs \subseteq sameAs' /\ \A i \in Duplicates : <<i, PrimaryInstance>> \in sameAs'
  BY <1>1 DEF Relations
<1>8. \A f \in Stated :
        /\ facts'[f] \in FactRow
        /\ facts'[f].of = facts[f].of /\ facts'[f].said = facts[f].said
        /\ f \notin offline.facts \/ facts[f].status = "forgotten" => facts'[f] = facts[f]
        /\ f \in offline.facts /\ facts[f].status # "forgotten" =>
             IF Winner(f) = f
             THEN facts'[f].by = facts[f].by /\ facts'[f].status \in {facts[f].status, "verified"}
             ELSE facts'[f].by = Winner(f) /\ facts'[f].status \in {"archived", "rejected"}
        /\ \/ facts'[f].entity = facts[f].entity
           \/ facts[f].entity \in Duplicates /\ facts'[f].entity = PrimaryInstance
           \/ facts[f].entity = 0 /\ facts'[f].entity \in Instances
        /\ facts'[f].conf >= 80 \/ facts'[f].status = "verified" =>
             \/ facts[f].conf >= 80 \/ facts[f].status = "verified"
             \/ f \in offline.facts /\ Winner(f) = f /\ Corroborated(f)
             \/ facts[f].entity \in Duplicates /\ facts'[f].entity = PrimaryInstance
             \/ facts[f].entity = 0 /\ facts'[f].entity \in Instances
  BY <1>1, <1>4, AfterReview
<1>9. \A i \in Instances :
        /\ instances'[i] \in InstanceRow /\ instances'[i].updated \in 1..(clock + 1)
        /\ i \notin Duplicates => instances'[i] = instances[i]
  <2> SUFFICES ASSUME NEW i \in Instances
               PROVE  /\ instances'[i] \in InstanceRow /\ instances'[i].updated \in 1..(clock + 1)
                      /\ i \notin Duplicates => instances'[i] = instances[i]
    OBVIOUS
  <2>1. instances'[i] = IF i \in Duplicates THEN Archived(i) ELSE instances[i]
    BY <1>1
  <2>2. instances[i].updated \in 1..(clock + 1) /\ clock + 1 \in 1..(clock + 1) /\ clock + 1 \in Nat
    BY <1>2
  <2>3. Archived(i) \in InstanceRow /\ Archived(i).updated = clock + 1
    <3>1. instances[i] \in InstanceRow
      BY <1>2
    <3>2. Archived(i) = [project |-> instances[i].project, active |-> FALSE, updated |-> clock + 1]
      BY <3>1, InstanceChanged DEF Archived
    <3>3. instances[i].project \in AnyProject
      BY <3>1 DEF InstanceRow
    <3> QED BY <2>2, <3>2, <3>3 DEF InstanceRow
  <2> QED BY <1>2, <2>1, <2>2, <2>3
<1>10. StoreRows'
  <2>1. facts' \in [1..Len(facts) -> FactRow]
    BY <1>1, <1>2, <1>4, <1>8
  <2>2. instances' \in [1..Len(instances) -> InstanceRow]
    BY <1>1, <1>2, <1>9
  <2>3. facts' \in Seq(FactRow) /\ Len(facts') = Len(facts) /\ instances' \in Seq(InstanceRow)
    BY <1>2, <2>1, <2>2, FunctionIsSeq
  <2>4. \A f \in Stated : /\ facts'[f].of \in Instances \cup {0}
                           /\ facts'[f].entity \in Instances \cup {0}
    BY <1>6, <1>8 DEF StoreRows
  <2>5. sameAs' \subseteq Instances \X Instances
    BY <1>1, <1>6 DEF StoreRows, Relations
  <2>6. clock' \in Nat
    BY <1>1, <1>2
  <2> QED BY <1>1, <1>3, <1>9, <2>3, <2>4, <2>5, <2>6 DEF StoreRows
<1>11. Reviewing'
  BY <1>1 DEF Reviewing
<1>12. Replaced'
  <2> SUFFICES ASSUME NEW f \in Stated, facts'[f].by # 0
               PROVE  facts'[f].status \in {"archived", "rejected", "forgotten"}
    BY <1>3 DEF Replaced
  <2>1. CASE f \notin offline.facts \/ facts[f].status = "forgotten"
    BY <1>8, <2>1 DEF Replaced
  <2>2. CASE f \in offline.facts /\ facts[f].status # "forgotten"
    <3>1. facts[f].by = 0
      BY <1>5, <2>2 DEF Replaced
    <3> QED BY <1>8, <2>2, <3>1
  <2> QED BY <2>1, <2>2
<1>13. \A f \in Stated : /\ facts[f].entity \in Duplicates \/ facts[f].entity = 0
                         /\ facts'[f].of # 0
                         => \E i \in Instances : <<facts'[f].of, i>> \in sameAs'
  <2> SUFFICES ASSUME NEW f \in Stated, facts[f].entity \in Duplicates \/ facts[f].entity = 0,
                      facts[f].of # 0
               PROVE  \E i \in Instances : <<facts[f].of, i>> \in sameAs'
    BY <1>8
  <2>1. CASE facts[f].entity = facts[f].of
    BY <1>6, <1>7, <2>1
  <2>2. CASE facts[f].entity # facts[f].of
    BY <1>7, <2>2 DEF Moved
  <2> QED BY <2>1, <2>2
<1>14. Moved'
  <2> SUFFICES ASSUME NEW f \in Stated, facts'[f].entity # facts'[f].of, facts'[f].of # 0
               PROVE  \E i \in Instances : <<facts'[f].of, i>> \in sameAs'
    BY <1>3 DEF Moved
  <2>1. CASE facts'[f].entity = facts[f].entity
    BY <1>7, <1>8, <2>1 DEF Moved
  <2>2. CASE facts[f].entity \in Duplicates \/ facts[f].entity = 0
    BY <1>8, <1>13, <2>2
  <2> QED BY <1>8, <2>1, <2>2
<1>15. Strong'
  <2> SUFFICES ASSUME NEW f \in Stated, facts'[f].conf >= 80 \/ facts'[f].status = "verified"
               PROVE  Ground(f)'
    BY <1>3 DEF Strong
  <2>1. CASE facts[f].conf >= 80 \/ facts[f].status = "verified"
    <3>1. Ground(f)
      BY <2>1 DEF Strong
    <3>2. \A g \in Stated : facts[g].by = f => facts'[g].by = f \/ facts'[g].status = "forgotten"
      <4> SUFFICES ASSUME NEW g \in Stated, facts[g].by = f
                   PROVE  facts'[g].by = f
        OBVIOUS
      <4>1. f # 0
        BY <1>2
      <4>2. facts[g].status \in {"archived", "rejected", "forgotten"}
        BY <4>1 DEF Replaced
      <4> QED BY <1>5, <1>8, <4>2
    <3>3. \A g \in Stated : facts[g].status = "forgotten" => facts'[g].status = "forgotten"
      BY <1>8
    <3>4. facts[f].of = 0 /\ facts[f].entity # 0 => facts'[f].entity # 0
      BY <1>6, <1>8
    <3> QED BY <3>4, <1>3, <1>7, <1>8, <3>1, <3>2, <3>3, GroundKept
  <2>2. CASE f \in offline.facts /\ Winner(f) = f /\ Corroborated(f)
    <3>1. PICK g \in Group(f) : g # f
      <4>1. ASSUME \A g \in Group(f) : g = f PROVE FALSE
        <5>1. Group(f) \subseteq {f}
          BY <4>1
        <5>2. IsFiniteSet({f}) /\ Cardinality({f}) = 1
          BY FS_Singleton
        <5>3. Cardinality(Group(f)) <= 1 /\ Cardinality(Group(f)) \in Nat
          BY <5>1, <5>2, FS_Subset, FS_CardinalityType
        <5>4. Cardinality(Group(f)) > 1
          BY <2>2 DEF Corroborated
        <5> QED BY <5>3, <5>4
      <4> QED BY <4>1
    <3>2. g \in offline.facts /\ g \in Stated /\ Winner(g) = f
      BY <1>1, <1>5, <2>2, <3>1, WinnerIn DEF Group
    <3>3. facts'[g].by = f \/ facts'[g].status = "forgotten"
      BY <1>8, <3>1, <3>2
    <3> QED BY <1>3, <3>1, <3>2, <3>3 DEF Ground
  <2>3. CASE /\ facts[f].entity \in Duplicates \/ facts[f].entity = 0
             /\ facts'[f].entity \in Instances
    <3>1. CASE facts'[f].of = 0
      BY <1>6, <2>3, <3>1 DEF Ground
    <3>2. CASE facts'[f].of # 0
      <4>1. \E i \in Instances : <<facts'[f].of, i>> \in sameAs'
        BY <1>13, <2>3, <3>2
      <4> QED BY <1>3, <4>1 DEF Ground
    <3> QED BY <3>1, <3>2
  <2> QED BY <1>6, <1>8, <2>1, <2>2, <2>3
<1>16. StaysAnswered'
  <2>1. ASSUME NEW S \in SUBSET Retired', S # {}
        PROVE  \E f \in S : facts'[f].by \in Stated \ S
    <3>0. \A f \in S : f \in Stated /\ facts'[f].status \in {"archived", "rejected"}
      BY <1>3, <2>1 DEF Retired
    <3>1. CASE \E f \in S : f \in offline.facts
      <4>1. PICK f \in S : f \in offline.facts
        BY <3>1
      <4>2. /\ facts'[f].status \in {"archived", "rejected"}
            /\ facts[f].status \notin {"archived", "rejected"}
        BY <1>5, <3>0, <4>1
      <4>3. Winner(f) # f /\ facts'[f].by = Winner(f)
        BY <1>5, <1>8, <4>1, <4>2
      <4>4. Winner(f) \in Stated /\ facts'[Winner(f)].status \notin {"archived", "rejected"}
        BY <1>5, <1>8, <4>1
      <4> QED BY <3>0, <4>1, <4>3, <4>4
    <3>2. CASE \A f \in S : f \notin offline.facts
      <4>1. \A f \in S : facts'[f] = facts[f]
        BY <1>8, <3>0, <3>2
      <4>2. S \in SUBSET Retired
        BY <3>0, <4>1 DEF Retired
      <4>3. \E f \in S : facts[f].by \in Stated \ S
        BY <2>1, <4>2 DEF StaysAnswered
      <4> QED BY <4>1, <4>3
    <3> QED BY <3>1, <3>2
  <2>2. \A i \in Instances : ~ instances'[i].active => \E j \in Instances : <<i, j>> \in sameAs'
    BY <1>6, <1>7, <1>9 DEF StaysAnswered
  <2> QED BY <1>3, <2>1, <2>2 DEF StaysAnswered
<1> QED BY <1>10, <1>11, <1>12, <1>14, <1>15, <1>16

LEMMA ForgetKeeps ==
  ASSUME OffInv, NEW p, ForgetFacts(p)
  PROVE  OffInv'
<1> USE DEF OffInv
<1>1. /\ facts' = [f \in Stated |-> IF facts[f].project = p
                                    THEN [facts[f] EXCEPT !.status = "forgotten"] ELSE facts[f]]
      /\ UNCHANGED <<instances, sameAs, offline, clock, offlineRuns>>
  BY DEF ForgetFacts
<1>2. /\ Len(facts) \in Nat /\ Stated = 1..Len(facts) /\ \A f \in Stated : facts[f] \in FactRow
  BY Places
<1>3. Stated' = Stated /\ Instances' = Instances
  BY <1>1 DEF Stated, Instances
<1>4. \A h \in FactRow : /\ [h EXCEPT !.status = "forgotten"] \in FactRow
                         /\ [h EXCEPT !.status = "forgotten"]
                              = [project |-> h.project, of |-> h.of, entity |-> h.entity, said |-> h.said,
                                 conf |-> h.conf, status |-> "forgotten", by |-> h.by]
  BY DEF FactRow
<1>5. \A f \in Stated :
        /\ facts'[f] \in FactRow
        /\ facts'[f].of = facts[f].of /\ facts'[f].entity = facts[f].entity
        /\ facts'[f].said = facts[f].said /\ facts'[f].conf = facts[f].conf
        /\ facts'[f].by = facts[f].by
        /\ facts'[f].status \in {facts[f].status, "forgotten"}
  <2> SUFFICES ASSUME NEW f \in Stated
               PROVE  /\ facts'[f] \in FactRow
                      /\ facts'[f].of = facts[f].of /\ facts'[f].entity = facts[f].entity
                      /\ facts'[f].said = facts[f].said /\ facts'[f].conf = facts[f].conf
                      /\ facts'[f].by = facts[f].by
                      /\ facts'[f].status \in {facts[f].status, "forgotten"}
    OBVIOUS
  <2>1. facts'[f] = facts[f] \/ facts'[f] = [facts[f] EXCEPT !.status = "forgotten"]
    BY <1>1
  <2>2. facts[f] \in FactRow
    BY <1>2
  <2>3. CASE facts'[f] = facts[f]
    BY <2>2, <2>3
  <2>4. CASE facts'[f] = [facts[f] EXCEPT !.status = "forgotten"]
    <3>1. facts'[f] = [project |-> facts[f].project, of |-> facts[f].of, entity |-> facts[f].entity,
                       said |-> facts[f].said, conf |-> facts[f].conf,
                       status |-> "forgotten", by |-> facts[f].by]
      BY <1>4, <2>2, <2>4
    <3>2. facts'[f] \in FactRow
      BY <1>4, <2>2, <2>4
    <3> QED BY <3>1, <3>2
  <2> QED BY <2>1, <2>3, <2>4
<1>6. StoreRows'
  <2>1. facts' \in [1..Len(facts) -> FactRow]
    BY <1>1, <1>2, <1>5
  <2>2. facts' \in Seq(FactRow) /\ Len(facts') = Len(facts)
    BY <1>2, <2>1, FunctionIsSeq
  <2>3. \A f \in Stated : /\ facts'[f].of \in Instances \cup {0}
                           /\ facts'[f].entity \in Instances \cup {0}
    BY <1>5 DEF StoreRows
  <2>4. /\ instances' \in Seq(InstanceRow) /\ clock' \in Nat /\ offlineRuns' \in 0..MaxOfflineRuns
        /\ \A i \in Instances : instances'[i].updated \in 1..clock'
        /\ sameAs' \subseteq Instances \X Instances
    BY <1>1 DEF StoreRows
  <2> QED BY <1>3, <2>2, <2>3, <2>4 DEF StoreRows
<1>7. Reviewing'
  <2>1. CASE offline = NoRunYet
    BY <1>1, <2>1 DEF Reviewing
  <2>2. CASE /\ offline.phase = "reviewing"
             /\ offline.facts \in SUBSET Stated /\ \A f \in offline.facts : Reviewed(f)
             /\ offline.order \in Seq(InstanceRow) /\ DOMAIN offline.order \in SUBSET Instances
    <3>1. \A f \in offline.facts : Reviewed(f)'
      BY <1>1, <1>5, <2>2 DEF Reviewed
    <3> QED BY <1>1, <1>3, <2>2, <3>1 DEF Reviewing
  <2> QED BY <2>1, <2>2 DEF Reviewing
<1>8. Replaced' /\ Moved'
  BY <1>1, <1>3, <1>5 DEF Replaced, Moved
<1>9. Strong'
  <2> SUFFICES ASSUME NEW f \in Stated, facts'[f].conf >= 80 \/ facts'[f].status = "verified"
               PROVE  Ground(f)'
    BY <1>3 DEF Strong
  <2>1. Ground(f)
    BY <1>5 DEF Strong
  <2> QED BY <1>1, <1>3, <1>5, <2>1, GroundKept
<1>10. StaysAnswered'
  <2>1. ASSUME NEW S \in SUBSET Retired', S # {}
        PROVE  \E f \in S : facts'[f].by \in Stated \ S
    <3>1. S \in SUBSET Retired
      BY <1>3, <1>5, <2>1 DEF Retired
    <3>2. \E f \in S : facts[f].by \in Stated \ S
      BY <2>1, <3>1 DEF StaysAnswered
    <3> QED BY <1>5, <2>1, <3>1, <3>2 DEF Retired
  <2> QED BY <1>1, <1>3, <2>1 DEF StaysAnswered
<1> QED BY <1>6, <1>7, <1>8, <1>9, <1>10

-----------------------------------------------------------------------------
(* The theorems about offline consolidation. *)

LEMMA OfflineStep == OffInv /\ [OfflineNext]_offlineVars => OffInv'
<1> SUFFICES ASSUME OffInv, [OfflineNext]_offlineVars PROVE OffInv'
  OBVIOUS
<1>1. ASSUME NEW p \in AnyProject, NEW s \in Statements, State(p, s) PROVE OffInv'
  BY <1>1, StateKeeps
<1>2. ASSUME NEW p \in AnyProject, NEW who \in Instances \cup {0},
             NEW s \in Statements \ Purchases, StateOf(p, who, s)
      PROVE  OffInv'
  BY <1>2, StateOfKeeps
<1>3. CASE StartOffline
  BY <1>3, StartKeeps
<1>4. CASE FinishOffline
  BY <1>4, FinishKeeps
<1>5. ASSUME NEW p \in StatementProjects, ForgetFacts(p) PROVE OffInv'
  BY <1>5, ForgetKeeps
<1>6. CASE UNCHANGED offlineVars
  <2>1. UNCHANGED <<instances, sameAs, facts, offline, clock, offlineRuns>>
    BY <1>6 DEF offlineVars
  <2>2. StoreRows' /\ Replaced' /\ Moved' /\ StaysAnswered'
    BY <2>1 DEF OffInv, StoreRows, Replaced, Moved, StaysAnswered, Retired, Stated, Instances
  <2>3. Reviewing'
    BY <2>1 DEF OffInv, Reviewing, Reviewed, Stated, Instances
  <2>4. Strong'
    BY <2>1 DEF OffInv, Strong, Ground, Stated, Instances
  <2> QED BY <2>2, <2>3, <2>4 DEF OffInv
<1> QED BY <1>1, <1>2, <1>3, <1>4, <1>5, <1>6 DEF OfflineNext, AnyProject

LEMMA OfflineBegins == OfflineInit => OffInv
<1> SUFFICES ASSUME OfflineInit PROVE OffInv
  OBVIOUS
<1>1. Stated = {} /\ Instances = {} /\ Len(facts) = 0
  BY DEF OfflineInit, Stated, Instances
<1>2. StoreRows
  BY <1>1, OfflineAssumption, EmptySeq DEF OfflineInit, StoreRows
<1>3. Reviewing
  BY DEF OfflineInit, Reviewing
<1> QED BY <1>1, <1>2, <1>3 DEF OffInv, Replaced, Moved, Strong, StaysAnswered, Retired

LEMMA OfflineInvariant == OfflineSpec => []OffInv
BY OfflineBegins, OfflineStep, PTL DEF OfflineSpec

\* The rows of the stores have their types, whatever merges and deletions come
\* in between.
THEOREM OfflineTypes == OfflineSpec => []OfflineTypeOK
<1>1. OffInv => OfflineTypeOK
  <2> SUFFICES ASSUME OffInv PROVE OfflineTypeOK
    OBVIOUS
  <2>1. StoreRows /\ Reviewing
    BY DEF OffInv
  <2>2. /\ Len(instances) \in Nat /\ Instances = 1..Len(instances)
        /\ Len(facts) \in Nat /\ Stated = 1..Len(facts)
    BY <2>1, Places
  <2> DEFINE IRow == [project : StatementProjects \cup {NoProjectId}, active : BOOLEAN,
                      updated : 1..clock]
             FRow == [project : StatementProjects \cup {NoProjectId},
                      of : Instances \cup {0}, entity : Instances \cup {0},
                      said : Statements, conf : 0..99,
                      status : {"provisional", "verified", "archived", "rejected", "forgotten"},
                      by : 0..MaxStatements]
  <2>3. \A i \in Instances : instances[i] \in IRow
    BY <2>1, Places DEF StoreRows, InstanceRow, AnyProject
  <2>4. \A f \in Stated : facts[f] \in FRow
    BY <2>1, Places DEF StoreRows, FactRow, AnyProject
  <2> HIDE DEF IRow, FRow
  <2>5. instances \in [1..Len(instances) -> IRow] /\ facts \in [1..Len(facts) -> FRow]
    <3>1. instances = [i \in 1..Len(instances) |-> instances[i]]
          /\ facts = [f \in 1..Len(facts) |-> facts[f]]
      BY <2>1, LenProperties DEF StoreRows
    <3> QED BY <2>2, <2>3, <2>4, <3>1
  <2>6. instances \in Seq(IRow) /\ facts \in Seq(FRow)
    BY <2>2, <2>5, FunctionIsSeq
  <2>7. offline.phase \in {"idle", "reviewing"}
    BY <2>1 DEF Reviewing, NoRunYet
  <2> QED BY <2>1, <2>6, <2>7 DEF OfflineTypeOK, StoreRows, IRow, FRow
<1> QED BY <1>1, OfflineInvariant, PTL

\* What was said stays answered: for any number of statements, of runs however
\* few facts each reads, and of deletions during their reviews, what replaced
\* a retired fact never leads back to it.
THEOREM AlwaysAnswered == OfflineSpec => []StaysAnswered
<1>1. OffInv => StaysAnswered
  BY DEF OffInv
<1> QED BY <1>1, OfflineInvariant, PTL

\* No run verifies a fact on its own weak word: it takes another fact, a merge
\* of its instance, or an instance found for a fact that had none.
THEOREM VerifiedOnGround == OfflineSpec => []Grounded
<1>1. OffInv => Grounded
  BY DEF OffInv, Strong, Grounded
<1> QED BY <1>1, OfflineInvariant, PTL

=============================================================================
