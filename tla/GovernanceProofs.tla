----------------------------- MODULE GovernanceProofs -----------------------------
(***************************************************************************)
(* Theorems about CandidateGovernance, and about its composition with the  *)
(* belief store (GovernedBeliefs), for every value of their constants.     *)
(*                                                                         *)
(* The properties of governance rest on one inductive invariant, GInv.     *)
(* Beside the types it says what holds between the two commits of a        *)
(* promotion (HalfDone: the candidate being written is still open,         *)
(* deserves its row and has one), that every durable row was deserved by a *)
(* candidate that is no shadow (Deserved), and the books of Accounted      *)
(* themselves.                                                             *)
(*                                                                         *)
(* The composition implements both of its parts: its steps are steps of    *)
(* CandidateGovernance at once, and steps of BeliefStore once each         *)
(* candidate is known to state a belief the store takes, of a past date    *)
(* (Stated).  So what was proved of the parts holds of the whole.  Its own *)
(* properties need HalfStated besides, which is to Traceable what HalfDone *)
(* is to Accounted.                                                        *)
(***************************************************************************)
EXTENDS GovernedBeliefs, BeliefStoreProofs

\* Between the commit of the row and the mark of its candidate.
HalfDone ==
  writing # 0 => /\ Promotable(writing)
                 /\ Writes(cands[writing].what)
                 /\ \E r \in DOMAIN durable : durable[r] = writing

\* Every durable row comes from a candidate the policy may write.
Deserved ==
  \A r \in DOMAIN durable : /\ Writes(cands[durable[r]].what)
                            /\ cands[durable[r]].status # "shadow"

GInv == GovernanceTypeOK /\ HalfDone /\ Deserved /\ Accounted

-----------------------------------------------------------------------------
(* The state. *)

\* The candidate a pass is at is one of the pass, and a candidate.
LEMMA AtIsCandidate ==
  ASSUME GovernanceTypeOK, pass # {}
  PROVE  At \in pass /\ At \in DOMAIN cands /\ At \in Nat \ {0}
<1>1. DOMAIN cands \in SUBSET Nat /\ \A k \in DOMAIN cands : k \in Nat \ {0}
  BY FinitePlaces DEF GovernanceTypeOK
<1>2. pass \in SUBSET Nat /\ pass \subseteq DOMAIN cands
  BY <1>1 DEF GovernanceTypeOK
<1> QED BY <1>1, <1>2, MinOfNaturals DEF At

\* Setting the status of one candidate leaves the rest of the table alone.
LEMMA StatusSet ==
  ASSUME GovernanceTypeOK, NEW k \in DOMAIN cands, NEW s \in CandidateStatus,
         cands' = [cands EXCEPT ![k].status = s]
  PROVE  /\ cands' \in Seq(Candidate)
         /\ DOMAIN cands' = DOMAIN cands /\ Len(cands') = Len(cands)
         /\ \A j \in DOMAIN cands :
              /\ cands'[j].what = cands[j].what
              /\ cands'[j].status = IF j = k THEN s ELSE cands[j].status
<1>1. /\ DOMAIN cands = 1..Len(cands) /\ cands \in Seq(Candidate)
      /\ \A j \in DOMAIN cands : cands[j] \in Candidate
  BY FinitePlaces DEF GovernanceTypeOK
<1> DEFINE c == [cands[k] EXCEPT !.status = s]
<1>2. c \in Candidate /\ c.what = cands[k].what /\ c.status = s
  BY <1>1 DEF Candidate
<1>3. cands' = [cands EXCEPT ![k] = c]
  OBVIOUS
<1> HIDE DEF c
<1>4. /\ cands' \in Seq(Candidate) /\ Len(cands') = Len(cands)
      /\ \A j \in 1..Len(cands) : cands'[j] = IF j = k THEN c ELSE cands[j]
  BY <1>1, <1>2, <1>3, ExceptSeq
<1>5. DOMAIN cands' = DOMAIN cands
  BY <1>1, <1>3
<1> QED BY <1>1, <1>2, <1>4, <1>5

\* What the producers propose has the type of a profile.
LEMMA ProducedTypes == Produced \subseteq Profile
<1>1. ByRules \subseteq Profile
  BY DEF ByRules, Rule, Profile, Type
<1>2. ByModel \subseteq Profile
  <2>1. \A named \in {"none", "other", "user"}, first \in {"other", "user"} :
          ProviderEvidence(named, first) \in {"none", "other", "user"}
    BY DEF ProviderEvidence
  <2>2. Confidences \subseteq 0..100
    BY SizesAssumption
  <2> DEFINE cand(type, conf, risky, whole, named, first) ==
               [type |-> type, conf |-> conf, explicit |-> FALSE, inferred |-> risky,
                evidence |-> ProviderEvidence(named, first), cited |-> named # "none",
                complete |-> type # "preference" \/ whole]
             types == {"organization", "summary", "preference", "other"}
             names == {"none", "other", "user"}
  <2>3. ASSUME NEW type \in types, NEW conf \in Confidences, NEW risky \in BOOLEAN,
               NEW whole \in BOOLEAN, NEW named \in names, NEW first \in {"other", "user"}
        PROVE  cand(type, conf, risky, whole, named, first) \in Profile
    <3> DEFINE b == (named # "none")
               w == (type # "preference" \/ whole)
    <3>1. b \in BOOLEAN /\ w \in BOOLEAN
      OBVIOUS
    <3> HIDE DEF b, w
    <3>2. [type |-> type, conf |-> conf, explicit |-> FALSE, inferred |-> risky,
           evidence |-> ProviderEvidence(named, first), cited |-> b, complete |-> w] \in Profile
      BY <2>1, <2>2, <3>1 DEF Profile, Type
    <3> QED BY <3>2 DEF b, w
  <2>4. ByModel = {cand(type, conf, risky, whole, named, first) :
                     type \in types, conf \in Confidences, risky \in BOOLEAN, whole \in BOOLEAN,
                     named \in names, first \in {"other", "user"}}
    BY DEF ByModel
  <2> HIDE DEF cand, types, names
  <2> QED BY <2>3, <2>4
<1>3. ByHost \subseteq Profile
  BY ProducerAssumption, SizesAssumption DEF ByHost, Profile
<1>4. \A by \in Producers : by \in {"rules", "model", "host"}
  BY ProducerAssumption DEF Producer
<1> QED BY <1>1, <1>2, <1>3, <1>4 DEF Produced

\* A run adds candidates behind the others and touches none of them.
LEMMA Proposed ==
  ASSUME GovernanceTypeOK, ProposeAmong(Produced, Modes, BatchSizes)
  PROVE  /\ cands' \in Seq(Candidate)
         /\ Len(cands') \in Nat /\ DOMAIN cands' = 1..Len(cands')
         /\ Len(cands) <= Len(cands') /\ DOMAIN cands \subseteq DOMAIN cands'
         /\ \A j \in DOMAIN cands : cands'[j] = cands[j]
         /\ \A j \in DOMAIN cands' \ DOMAIN cands :
              cands'[j].status \in Modes /\ cands'[j].what \in Produced
         /\ pass = {}
         /\ UNCHANGED <<durable, pass, writing, passCrashes>>
<1>0. PICK n \in BatchSizes : \E p \in CandidateProjects \cup {All}, mode \in Modes,
                               batch \in [1..n -> Produced] : Propose(p, batch, mode)
  BY DEF ProposeAmong
<1>1. PICK p \in CandidateProjects \cup {All}, mode \in Modes, batch \in [1..n -> Produced] :
        Propose(p, batch, mode)
  BY <1>0
<1>2. pass = {}
  BY DEF ProposeAmong, NoPassRuns
<1>3. n \in Nat /\ Len(cands) \in Nat /\ DOMAIN cands = 1..Len(cands) /\ cands \in Seq(Candidate)
  BY SizesAssumption, FinitePlaces DEF GovernanceTypeOK
<1> DEFINE row(i) == [what |-> batch[i], status |-> mode, project |-> p, run |-> Len(cands) + 1]
           new == [i \in 1..n |-> row(i)]
<1>4. \A i \in 1..n : row(i) \in Candidate /\ row(i).status = mode /\ row(i).what \in Produced
  BY <1>3, ProducedTypes, ModesAssumption DEF Candidate, CandidateStatus
<1>5. /\ new \in Seq(Candidate) /\ Len(new) = n
      /\ \A i \in 1..n : new[i].status = mode /\ new[i].what \in Produced
  <2>1. new \in Seq(Candidate)
    BY <1>3, <1>4, IsASeq
  <2> QED BY <1>3, <1>4, <2>1
<1>6. cands' = cands \o new /\ UNCHANGED <<durable, pass, writing, passCrashes>>
  BY <1>1 DEF Propose
<1> HIDE DEF new, row
<1>7. /\ cands' \in Seq(Candidate) /\ Len(cands') = Len(cands) + n
      /\ \A i \in 1..(Len(cands) + n) :
           cands'[i] = IF i <= Len(cands) THEN cands[i] ELSE new[i - Len(cands)]
  BY <1>3, <1>5, <1>6, ConcatProperties
<1>8. DOMAIN cands' = 1..Len(cands')
  BY <1>7, FinitePlaces
<1>9. \A j \in DOMAIN cands' \ DOMAIN cands :
        cands'[j].status \in Modes /\ cands'[j].what \in Produced
  <2> SUFFICES ASSUME NEW j \in DOMAIN cands' \ DOMAIN cands
               PROVE  cands'[j].status \in Modes /\ cands'[j].what \in Produced
    OBVIOUS
  <2>1. j - Len(cands) \in 1..n /\ cands'[j] = new[j - Len(cands)]
    BY <1>3, <1>7, <1>8
  <2> QED BY <1>5, <2>1
<1> QED BY <1>2, <1>3, <1>6, <1>7, <1>8, <1>9

LEMMA BackedFinite ==
  ASSUME GovernanceTypeOK
  PROVE  IsFiniteSet(Backed) /\ Cardinality(Backed) \in Nat
<1>1. IsFiniteSet(DOMAIN cands) /\ Backed \in SUBSET (DOMAIN cands)
  BY FinitePlaces DEF GovernanceTypeOK, Backed
<1>2. IsFiniteSet(Backed)
  BY <1>1, FS_Subset
<1> QED BY <1>2, FS_CardinalityType

LEMMA DurableTypes ==
  ASSUME GovernanceTypeOK
  PROVE  /\ Len(durable) \in Nat /\ DOMAIN durable = 1..Len(durable)
         /\ \A r \in DOMAIN durable : durable[r] \in DOMAIN cands
BY FinitePlaces DEF GovernanceTypeOK

-----------------------------------------------------------------------------
(* The steps. *)

LEMMA ProposeStep ==
  ASSUME GInv, ProposeAmong(Produced, Modes, BatchSizes)
  PROVE  GInv'
<1>1. /\ cands' \in Seq(Candidate)
      /\ DOMAIN cands \subseteq DOMAIN cands'
      /\ \A j \in DOMAIN cands : cands'[j] = cands[j]
      /\ \A j \in DOMAIN cands' \ DOMAIN cands : cands'[j].status \in Modes
      /\ pass = {}
      /\ UNCHANGED <<durable, pass, writing, passCrashes>>
  BY Proposed DEF GInv
<1>2. writing = 0
  BY <1>1 DEF GInv, GovernanceTypeOK
<1>3. GovernanceTypeOK'
  <2>1. durable' \in Seq(DOMAIN cands')
    BY <1>1, SeqMonotonic DEF GInv, GovernanceTypeOK
  <2> QED BY <1>1, <1>2, <2>1 DEF GInv, GovernanceTypeOK
<1>4. HalfDone'
  BY <1>1, <1>2 DEF HalfDone
<1>5. Deserved'
  BY <1>1, DurableTypes DEF GInv, Deserved
<1>6. Backed' = Backed
  BY <1>1, ModesAssumption DEF Backed
<1>7. Accounted'
  BY <1>1, <1>6 DEF GInv, Accounted
<1> QED BY <1>3, <1>4, <1>5, <1>7 DEF GInv

\* Starting, stepping over and losing a pass: candidates and rows stay.
LEMMA PassStep ==
  ASSUME GInv, \/ \E s \in Governed : PromotePending(s)
               \/ \E r \in 1..Len(cands) : PromoteRun(r)
               \/ Keep
               \/ PassCrash
  PROVE  GInv'
<1>1. /\ UNCHANGED <<cands, durable>>
      /\ pass' \subseteq DOMAIN cands
      /\ writing' = 0
      /\ \/ writing = 0 /\ passCrashes' = passCrashes
         \/ passCrashes' = passCrashes + 1
  BY DEF GInv, GovernanceTypeOK, PromotePending, PromoteRun, Keep, PassCrash, NoPassRuns,
         Oldest, Waiting
<1>2. passCrashes \in Nat /\ Cardinality(Backed) \in Nat /\ Len(durable) \in Nat
  BY BackedFinite, DurableTypes DEF GInv, GovernanceTypeOK
<1>3. Backed' = Backed
  BY <1>1 DEF Backed
<1>4. Accounted'
  BY <1>1, <1>2, <1>3 DEF GInv, Accounted
<1>5. GovernanceTypeOK'
  BY <1>1, <1>2 DEF GInv, GovernanceTypeOK
<1> QED BY <1>1, <1>4, <1>5 DEF GInv, HalfDone, Deserved

\* A decision without a row.
LEMMA DecisionStep ==
  ASSUME GInv, Decide \/ RejectBelief
  PROVE  GInv'
<1>1. /\ pass # {} /\ writing = 0 /\ Promotable(At)
      /\ pass' = pass \ {At}
      /\ UNCHANGED <<durable, writing, passCrashes>>
  BY DEF Decide, RejectBelief
<1>2. At \in DOMAIN cands
  BY <1>1, AtIsCandidate DEF GInv
<1>3. PICK s \in CandidateStatus \ {"shadow", "candidate"} :
        /\ cands' = [cands EXCEPT ![At].status = s]
        /\ s = "promoted" => ~ Writes(cands[At].what)
  BY DEF Decide, RejectBelief, Verdict, CandidateStatus
<1>4. /\ cands' \in Seq(Candidate)
      /\ DOMAIN cands' = DOMAIN cands
      /\ \A j \in DOMAIN cands :
           /\ cands'[j].what = cands[j].what
           /\ cands'[j].status = IF j = At THEN s ELSE cands[j].status
  BY <1>2, <1>3, StatusSet DEF GInv
<1>5. GovernanceTypeOK'
  BY <1>1, <1>4 DEF GInv, GovernanceTypeOK
<1>6. HalfDone'
  BY <1>1 DEF HalfDone
<1>7. Deserved'
  BY <1>1, <1>4, DurableTypes DEF GInv, Deserved
<1>8. Backed' = Backed
  BY <1>1, <1>3, <1>4 DEF Backed, Promotable
<1>9. Accounted'
  BY <1>1, <1>8 DEF GInv, Accounted
<1> QED BY <1>5, <1>6, <1>7, <1>9 DEF GInv

\* The row of a candidate is written, or for an entity found.
LEMMA WriteStep ==
  ASSUME GInv, WriteRow
  PROVE  GInv'
<1>1. /\ pass # {} /\ writing = 0 /\ Promotable(At) /\ Writes(cands[At].what)
      /\ writing' = At
      /\ UNCHANGED <<cands, pass, passCrashes>>
  BY DEF WriteRow
<1>2. At \in DOMAIN cands /\ At \in Nat \ {0}
  BY <1>1, AtIsCandidate DEF GInv
<1>3. durable \in Seq(DOMAIN cands) /\ Len(durable) \in Nat /\ DOMAIN durable = 1..Len(durable)
  BY DurableTypes DEF GInv, GovernanceTypeOK
<1>4. /\ durable' \in Seq(DOMAIN cands)
      /\ Len(durable') \in Nat /\ Len(durable') <= Len(durable) + 1
      /\ DOMAIN durable' = 1..Len(durable')
      /\ \A r \in DOMAIN durable : r \in DOMAIN durable' /\ durable'[r] = durable[r]
      /\ \A r \in DOMAIN durable' \ DOMAIN durable : durable'[r] = At
      /\ \E r \in DOMAIN durable' : durable'[r] = At
  <2>1. CASE durable' = durable /\ \E r \in DOMAIN durable : durable[r] = At
    BY <1>3, <2>1
  <2>2. CASE durable' = Append(durable, At)
    <3>1. /\ durable' \in Seq(DOMAIN cands) /\ Len(durable') = Len(durable) + 1
          /\ \A i \in 1..Len(durable) : durable'[i] = durable[i]
          /\ durable'[Len(durable) + 1] = At
      BY <1>2, <1>3, <2>2, AppendProperties
    <3>2. DOMAIN durable' = 1..Len(durable')
      BY <3>1, FinitePlaces
    <3> QED BY <1>3, <3>1, <3>2
  <2> QED BY <2>1, <2>2 DEF WriteRow
<1>5. GovernanceTypeOK'
  <2>1. At' = At
    BY <1>1 DEF At
  <2> QED BY <1>1, <1>4, <2>1 DEF GInv, GovernanceTypeOK
<1>6. HalfDone'
  BY <1>1, <1>4 DEF HalfDone, Promotable
<1>7. Deserved'
  BY <1>1, <1>4 DEF GInv, Deserved, Promotable
<1>8. Backed' = Backed /\ Cardinality(Backed) \in Nat
  BY <1>1, BackedFinite DEF Backed, GInv
<1>9. Accounted'
  <2>1. passCrashes \in Nat
    BY DEF GInv, GovernanceTypeOK
  <2>3. Len(durable) <= Cardinality(Backed) + passCrashes
    BY <1>1, <1>3, <1>8, <2>1 DEF GInv, Accounted
  <2>4. Cardinality(Backed') = Cardinality(Backed) /\ passCrashes' = passCrashes
    BY <1>1, <1>8
  <2> HIDE DEF Backed
  <2>2. Len(durable') <= Cardinality(Backed') + passCrashes' + 1
    <3>1. Len(durable') \in Nat /\ Len(durable') <= Len(durable) + 1
      BY <1>4
    <3>2. Len(durable) \in Nat /\ Cardinality(Backed) \in Nat
      BY <1>3, <1>8
    <3> QED BY <3>1, <3>2, <2>1, <2>3, <2>4
  <2> QED BY <1>1, <1>2, <1>4, <1>8, <2>2 DEF GInv, Accounted
<1> QED BY <1>5, <1>6, <1>7, <1>9 DEF GInv

\* The mark that ends a promotion.
LEMMA MarkStep ==
  ASSUME GInv, MarkPromoted
  PROVE  GInv'
<1>1. /\ writing # 0 /\ writing' = 0 /\ pass' = pass \ {writing}
      /\ cands' = [cands EXCEPT ![writing].status = "promoted"]
      /\ UNCHANGED <<durable, passCrashes>>
  BY DEF MarkPromoted
<1>2. writing \in DOMAIN cands
  BY <1>1, AtIsCandidate DEF GInv, GovernanceTypeOK
<1>3. /\ cands' \in Seq(Candidate)
      /\ DOMAIN cands' = DOMAIN cands
      /\ \A j \in DOMAIN cands :
           /\ cands'[j].what = cands[j].what
           /\ cands'[j].status = IF j = writing THEN "promoted" ELSE cands[j].status
  BY <1>1, <1>2, StatusSet DEF GInv, CandidateStatus
<1>4. GovernanceTypeOK'
  BY <1>1, <1>3 DEF GInv, GovernanceTypeOK
<1>5. HalfDone'
  BY <1>1 DEF HalfDone
<1>6. Deserved'
  BY <1>1, <1>3, DurableTypes DEF GInv, Deserved
<1>7. Backed' = Backed \cup {writing} /\ writing \notin Backed
  BY <1>1, <1>2, <1>3 DEF GInv, HalfDone, Promotable, Backed
<1>8. Cardinality(Backed') = Cardinality(Backed) + 1
  BY <1>7, BackedFinite, FS_AddElement DEF GInv
<1>9. Accounted'
  <2>1. passCrashes \in Nat /\ Cardinality(Backed) \in Nat /\ Len(durable) \in Nat
    BY BackedFinite, DurableTypes DEF GInv, GovernanceTypeOK
  <2>2. Len(durable') <= Cardinality(Backed') + passCrashes'
    BY <1>1, <1>8, <2>1 DEF GInv, Accounted
  <2>3. \A k \in Backed' : \E r \in DOMAIN durable' : durable'[r] = k
    BY <1>1, <1>7 DEF GInv, Accounted, HalfDone
  <2>4. Cardinality(Backed') + passCrashes' + (IF writing' = 0 THEN 0 ELSE 1)
          = Cardinality(Backed') + passCrashes'
    BY <1>1, <1>8, <2>1
  <2> QED BY <2>2, <2>3, <2>4 DEF Accounted
<1> QED BY <1>4, <1>5, <1>6, <1>9 DEF GInv

-----------------------------------------------------------------------------
(* The theorems. *)

LEMMA GovernanceStart == GovernanceInit => GInv
<1> SUFFICES ASSUME GovernanceInit PROVE GInv
  OBVIOUS
<1>1. GovernanceTypeOK
  BY EmptySeq DEF GovernanceInit, GovernanceTypeOK
<1>2. Backed = {} /\ Cardinality(Backed) = 0
  BY FS_EmptySet DEF GovernanceInit, Backed
<1>3. DOMAIN durable = {} /\ Len(durable) = 0
  BY DEF GovernanceInit
<1> QED BY <1>1, <1>2, <1>3 DEF GInv, GovernanceInit, HalfDone, Deserved, Accounted

LEMMA GovernancePreserves == GInv /\ [GovernanceNext]_governanceVars => GInv'
<1> SUFFICES ASSUME GInv, [GovernanceNext]_governanceVars PROVE GInv'
  OBVIOUS
<1>1. CASE ProposeAmong(Produced, Modes, BatchSizes)
  BY <1>1, ProposeStep
<1>2. CASE \/ \E s \in Governed : PromotePending(s)
           \/ \E r \in 1..Len(cands) : PromoteRun(r)
           \/ Keep
           \/ PassCrash
  BY <1>2, PassStep
<1>3. CASE Decide \/ RejectBelief
  BY <1>3, DecisionStep
<1>4. CASE WriteRow
  BY <1>4, WriteStep
<1>5. CASE MarkPromoted
  BY <1>5, MarkStep
<1>6. CASE UNCHANGED governanceVars
  BY <1>6 DEF governanceVars, GInv, GovernanceTypeOK, At, HalfDone, Promotable, Deserved,
              Accounted, Backed
<1> QED BY <1>1, <1>2, <1>3, <1>4, <1>5, <1>6 DEF GovernanceNext, PassNext, Step

\* The inductive invariant of governance.
THEOREM GovernanceInvariant == GovernanceSpec => []GInv
BY GovernanceStart, GovernancePreserves, PTL DEF GovernanceSpec

\* Candidates, durable rows and the pass in progress keep their types, whatever
\* the producers propose.
THEOREM GovernanceTypes == GovernanceSpec => []GovernanceTypeOK
<1>1. GInv => GovernanceTypeOK
  BY DEF GInv
<1> QED BY <1>1, GovernanceInvariant, PTL

\* Every durable row rests on a candidate that states what the user said or has
\* a user's turn in its evidence, through every crash between the two commits.
THEOREM RowsUserBacked == GovernanceSpec => []UserBacked
<1>1. \A c : Writes(c) => c.explicit \/ c.evidence = "user"
  BY DEF Writes, WritesSummary, WritesBelief, WritesFact, WritesEntity
<1>2. GInv => UserBacked
  BY <1>1 DEF GInv, Deserved, UserBacked
<1> QED BY <1>2, GovernanceInvariant, PTL

\* The promoted candidates and the durable rows match, up to one row for each
\* crash and one for the write in progress.
THEOREM RowsAccounted == GovernanceSpec => []Accounted
<1>1. GInv => Accounted
  BY DEF GInv
<1> QED BY <1>1, GovernanceInvariant, PTL

\* No pass changes a candidate that was decided, or proposed as a shadow.
THEOREM DecisionsFinal == GovernanceSpec => Final
<1> DEFINE Kept1 == \A k \in DOMAIN cands :
                      cands[k].status # "candidate" => cands'[k].status = cands[k].status
<1>1. GInv /\ [GovernanceNext]_governanceVars => [Kept1]_governanceVars
  <2> SUFFICES ASSUME GInv, GovernanceNext PROVE Kept1
    BY DEF governanceVars
  <2>1. CASE ProposeAmong(Produced, Modes, BatchSizes)
    BY <2>1, Proposed DEF GInv
  <2>2. CASE UNCHANGED cands
    BY <2>2
  <2>3. ASSUME NEW k \in DOMAIN cands, NEW s, Promotable(k), s \in CandidateStatus,
               cands' = [cands EXCEPT ![k].status = s]
        PROVE  Kept1
    BY <2>3, StatusSet DEF GInv, Promotable
  <2>4. CASE Decide \/ RejectBelief
    <3>1. pass # {} /\ Promotable(At) /\ At \in DOMAIN cands
      BY <2>4, AtIsCandidate DEF Decide, RejectBelief, GInv
    <3>2. \E s \in CandidateStatus : cands' = [cands EXCEPT ![At].status = s]
      BY <2>4 DEF Decide, RejectBelief, Verdict, CandidateStatus
    <3> QED BY <2>3, <3>1, <3>2
  <2>5. CASE MarkPromoted
    <3>1. Promotable(writing) /\ writing \in DOMAIN cands
      BY <2>5, AtIsCandidate DEF MarkPromoted, GInv, GovernanceTypeOK, HalfDone
    <3> QED BY <2>3, <2>5, <3>1 DEF MarkPromoted, CandidateStatus
  <2> QED BY <2>1, <2>2, <2>4, <2>5
       DEF GovernanceNext, PassNext, Step, PromotePending, PromoteRun, Keep, WriteRow, PassCrash
<1> QED BY <1>1, GovernanceInvariant, PTL DEF GovernanceSpec, Final

-----------------------------------------------------------------------------
(* The composition: it implements governance. *)

LEMMA GovernedStep == GovernedNext => [GovernanceNext]_governanceVars
BY DEF GovernedNext, ProposeStatements, StoreStatement, SetAside, PassAlone, BeliefsAlone,
       GovernanceNext, PassNext, Step

\* Every behaviour of the composition is one of CandidateGovernance: whatever
\* upsert answers, governance allowed for it.
THEOREM GovernanceImplemented == GovernedSpec => GovernanceSpec
<1>1. GovernedInit => GovernanceInit
  BY DEF GovernedInit
<1>2. [GovernedNext]_governedVars => [GovernanceNext]_governanceVars
  <2>1. UNCHANGED governedVars => UNCHANGED governanceVars
    BY DEF governedVars
  <2> QED BY <2>1, GovernedStep
<1> QED BY <1>1, <1>2, PTL DEF GovernedSpec, GovernanceSpec

\* So what was proved of governance holds of the composition.
THEOREM GovernedRows == GovernedSpec => [](UserBacked /\ Accounted) /\ Final
BY GovernanceImplemented, RowsUserBacked, RowsAccounted, DecisionsFinal, PTL

LEMMA GovernedGInv == GovernedSpec => []GInv
BY GovernanceImplemented, GovernanceInvariant, PTL

\* A pass decides candidates: it adds none and leaves alone what they propose.
LEMMA PassKeepsCandidates ==
  ASSUME GInv, [PassNext]_governanceVars
  PROVE  /\ DOMAIN cands' = DOMAIN cands /\ Len(cands') = Len(cands)
         /\ \A j \in DOMAIN cands : cands'[j].what = cands[j].what
<1> DEFINE Same == /\ DOMAIN cands' = DOMAIN cands /\ Len(cands') = Len(cands)
                   /\ \A j \in DOMAIN cands : cands'[j].what = cands[j].what
<1>1. CASE UNCHANGED cands
  BY <1>1
<1>2. ASSUME NEW k \in DOMAIN cands, NEW s \in CandidateStatus,
             cands' = [cands EXCEPT ![k].status = s]
      PROVE  Same
  BY <1>2, StatusSet DEF GInv
<1>3. CASE Decide \/ RejectBelief
  <2>1. At \in DOMAIN cands
    BY <1>3, AtIsCandidate DEF Decide, RejectBelief, GInv
  <2>2. \E s \in CandidateStatus : cands' = [cands EXCEPT ![At].status = s]
    BY <1>3 DEF Decide, RejectBelief, Verdict, CandidateStatus
  <2> QED BY <1>2, <2>1, <2>2
<1>4. CASE MarkPromoted
  <2>1. writing \in DOMAIN cands
    BY <1>4, AtIsCandidate DEF MarkPromoted, GInv, GovernanceTypeOK
  <2> QED BY <1>2, <1>4, <2>1 DEF MarkPromoted, CandidateStatus
<1> QED BY <1>1, <1>3, <1>4
     DEF PassNext, Step, PromotePending, PromoteRun, Keep, WriteRow, PassCrash,
         governanceVars

-----------------------------------------------------------------------------
(* It implements the belief store. *)

\* Every candidate has its content, and what states a belief does so with a
\* confidence the store takes, of a date that has come.
Stated ==
  /\ says \in Seq(Saying \cup {Elsewhere}) /\ Len(says) = Len(cands)
  /\ \A k \in DOMAIN says : says[k] # Elsewhere => says[k].at <= today
  /\ \A k \in DOMAIN cands : cands[k].what \in Produced
  /\ today \in 0..MaxTime

\* The candidate at hand, if it states a belief of the key, states one that
\* BeliefStore expects.
LEMMA ClaimExpected ==
  ASSUME GInv, Stated, NEW k \in DOMAIN cands, States(k)
  PROVE  /\ Dated(k) \in 0..today
         /\ ClaimOf(k) \in Candidates(Dated(k))
         /\ cands[k].what.conf \in Promotions /\ cands[k].what.conf >= 74
         /\ says[k] \in Saying
<1>1. says[k] \in Saying /\ k \in DOMAIN says
  <2>1. k \in DOMAIN says /\ says[k] \in Saying \cup {Elsewhere}
    BY FinitePlaces DEF Stated, GInv, GovernanceTypeOK
  <2> QED BY <2>1 DEF States
<1>2. says[k].value \in BeliefValues /\ says[k].project \in BeliefProjects /\ says[k].at \in 0..MaxTime
  BY <1>1 DEF Saying
<1>3. says[k].at <= today /\ today \in 0..MaxTime
  BY <1>1 DEF Stated, States
<1>4. cands[k].what \in Produced /\ WritesBelief(cands[k].what)
  BY DEF Stated, States
<1>5. cands[k].what.conf \in Promotions
  BY <1>4, PromotionsAssumption
<1>6. cands[k].what.conf >= 74
  BY <1>4 DEF WritesBelief
<1>7. ClaimOf(k) \in Candidates(Dated(k))
  BY <1>2, <1>5 DEF ClaimOf, Dated, Candidates
<1>8. Dated(k) \in 0..today
  BY <1>2, <1>3, BeliefAssumption DEF Dated
<1> QED BY <1>1, <1>5, <1>6, <1>7, <1>8

\* A step of the composition is one of the store, or the store stutters.
LEMMA StoreStep ==
  ASSUME GInv, Stated, GovernedNext
  PROVE  [BeliefNext]_beliefVars
<1>1. CASE StoreStatement
  <2>1. At \in DOMAIN cands /\ States(At) /\ Upsert(ClaimOf(At), Dated(At))
    BY <1>1, AtIsCandidate DEF StoreStatement, WriteRow, GInv
  <2> QED BY <2>1, ClaimExpected DEF BeliefNext
<1>2. CASE BeliefsAlone
  BY <1>2 DEF BeliefsAlone
<1>3. CASE ProposeStatements \/ SetAside \/ PassAlone
  BY <1>3 DEF ProposeStatements, SetAside, PassAlone
<1> QED BY <1>1, <1>2, <1>3 DEF GovernedNext

\* A run adds contents for its candidates, all of today.
LEMMA StatementsProposed ==
  ASSUME GInv, Stated, ProposeStatements
  PROVE  /\ says' \in Seq(Saying \cup {Elsewhere}) /\ Len(says') = Len(cands')
         /\ \A k \in DOMAIN cands : says'[k] = says[k]
         /\ \A k \in DOMAIN says' : says'[k] # Elsewhere => says'[k].at <= today
         /\ UNCHANGED <<beliefVars, origin>>
<1> DEFINE Fresh == {Elsewhere} \cup {c \in Saying : c.at = today}
<1>1. /\ Len(cands) \in Nat /\ DOMAIN cands = 1..Len(cands)
      /\ Len(cands') \in Nat /\ DOMAIN cands' = 1..Len(cands') /\ Len(cands) <= Len(cands')
  BY Proposed, FinitePlaces DEF ProposeStatements, GInv, GovernanceTypeOK
<1>2. PICK n \in Nat : n = Len(cands') - Len(cands)
  <2>1. Len(cands') - Len(cands) \in Nat
    BY <1>1
  <2> QED BY <2>1, Zenon
<1>3. PICK said \in [1..n -> Fresh] : says' = says \o said
  BY <1>2 DEF ProposeStatements
<1>4. said \in Seq(Fresh) /\ Len(said) = n /\ \A i \in 1..n : said[i] \in Fresh
  BY <1>3, FunctionIsSeq
<1>5. said \in Seq(Saying \cup {Elsewhere})
  BY <1>4, SeqMonotonic
<1>6. says \in Seq(Saying \cup {Elsewhere}) /\ Len(says) = Len(cands) /\ DOMAIN says = DOMAIN cands
  BY <1>1, FinitePlaces DEF Stated
<1>7. /\ says' \in Seq(Saying \cup {Elsewhere}) /\ Len(says') = Len(says) + Len(said)
      /\ \A i \in 1..(Len(says) + Len(said)) :
           says'[i] = IF i <= Len(says) THEN says[i] ELSE said[i - Len(says)]
  BY <1>3, <1>5, <1>6, ConcatProperties
<1>8. Len(says') = Len(cands')
  BY <1>1, <1>2, <1>4, <1>6, <1>7
<1>9. DOMAIN says' = 1..Len(cands')
  BY <1>7, <1>8, FinitePlaces
<1>10. ASSUME NEW k \in DOMAIN says', says'[k] # Elsewhere
       PROVE  says'[k].at <= today
  <2>1. CASE k <= Len(cands)
    <3>1. k \in DOMAIN says /\ says'[k] = says[k]
      BY <1>1, <1>6, <1>7, <1>8, <1>9, <2>1
    <3> QED BY <1>10, <3>1 DEF Stated
  <2>2. CASE ~ (k <= Len(cands))
    <3>1. k - Len(cands) \in 1..n /\ says'[k] = said[k - Len(cands)]
      BY <1>1, <1>2, <1>4, <1>6, <1>7, <1>8, <1>9, <2>2
    <3>2. said[k - Len(cands)].at = today
      BY <1>4, <1>10, <3>1
    <3>3. today \in Nat
      BY BeliefAssumption DEF Stated
    <3> QED BY <3>1, <3>2, <3>3
  <2> QED BY <2>1, <2>2
<1>11. \A k \in DOMAIN cands : says'[k] = says[k]
  BY <1>1, <1>6, <1>7, <1>8
<1> QED BY <1>7, <1>8, <1>10, <1>11 DEF ProposeStatements

\* Beside a run no step writes to a content.
LEMMA SaysKept ==
  ASSUME GovernedNext, ~ ProposeStatements
  PROVE  UNCHANGED says
BY DEF GovernedNext, StoreStatement, SetAside, PassAlone, BeliefsAlone

\* The clock only advances, up to its bound.
LEMMA ClockAdvances ==
  ASSUME Stated, [BeliefNext]_beliefVars
  PROVE  today' \in 0..MaxTime /\ today <= today'
<1>1. today \in 0..MaxTime /\ MaxTime \in Nat
  BY BeliefAssumption DEF Stated
<1>2. today' = today \/ (today < MaxTime /\ today' = today + 1)
  BY DEF BeliefNext, Upsert, Calibrate, TimePasses, beliefVars
<1> QED BY <1>1, <1>2

LEMMA StatedKept ==
  ASSUME GInv, Stated, GovernedNext
  PROVE  Stated'
<1>1. today' \in 0..MaxTime /\ today <= today'
  BY StoreStep, ClockAdvances
<1>2. [GovernanceNext]_governanceVars
  BY GovernedStep
<1>3. CASE ProposeStatements
  <2>1. /\ says' \in Seq(Saying \cup {Elsewhere}) /\ Len(says') = Len(cands')
        /\ \A k \in DOMAIN says' : says'[k] # Elsewhere => says'[k].at <= today
        /\ UNCHANGED <<beliefVars, origin>>
    BY <1>3, StatementsProposed
  <2>2. today' = today
    BY <2>1 DEF beliefVars
  <2>3. \A k \in DOMAIN cands' : cands'[k].what \in Produced
    BY <1>3, Proposed DEF ProposeStatements, GInv, Stated
  <2> QED BY <1>1, <2>1, <2>2, <2>3 DEF Stated
<1>4. CASE ~ ProposeStatements
  <2>1. UNCHANGED says
    BY <1>4, SaysKept
  <2>2. /\ DOMAIN cands' = DOMAIN cands /\ Len(cands') = Len(cands)
        /\ \A j \in DOMAIN cands : cands'[j].what = cands[j].what
    <3>1. [PassNext]_governanceVars
      BY <1>4 DEF GovernedNext, StoreStatement, SetAside, PassAlone, BeliefsAlone, PassNext, Step
    <3> QED BY <3>1, PassKeepsCandidates
  <2>3. \A k \in DOMAIN says : says[k] # Elsewhere => says[k].at <= today'
    <3>1. ASSUME NEW k \in DOMAIN says, says[k] # Elsewhere PROVE says[k].at \in 0..MaxTime
      BY <3>1, FinitePlaces DEF Stated, Saying
    <3>2. today \in Nat /\ today' \in Nat
      BY <1>1, BeliefAssumption DEF Stated
    <3> QED BY <1>1, <3>1, <3>2, BeliefAssumption DEF Stated
  <2> QED BY <1>1, <2>1, <2>2, <2>3 DEF Stated
<1> QED BY <1>3, <1>4

LEMMA GovernedStated == GovernedSpec => []Stated
<1>1. GovernedInit => Stated
  <2> SUFFICES ASSUME GovernedInit PROVE Stated
    OBVIOUS
  <2>1. says = <<>> /\ cands = <<>> /\ today = 0
    BY DEF GovernedInit, GovernanceInit, BeliefInit
  <2>2. DOMAIN cands = {} /\ DOMAIN says = {}
    BY <2>1
  <2> QED BY <2>1, <2>2, BeliefAssumption, EmptySeq DEF Stated
<1>2. GInv /\ Stated /\ [GovernedNext]_governedVars => Stated'
  <2>1. Stated /\ UNCHANGED governedVars => Stated'
    BY DEF governedVars, governanceVars, beliefVars, Stated
  <2> QED BY <2>1, StatedKept
<1> QED BY <1>1, <1>2, GovernedGInv, PTL DEF GovernedSpec

\* Every behaviour of the composition is one of BeliefStore: a promotion is a
\* statement of a confidence and a date the store expects
\* (DeepWritePromotionPolicy.promotePreference), and nothing else writes.
THEOREM StoreImplemented == GovernedSpec => BeliefSpec
<1>1. GovernedInit => BeliefInit
  BY DEF GovernedInit
<1>2. GInv /\ Stated /\ [GovernedNext]_governedVars => [BeliefNext]_beliefVars
  <2>1. UNCHANGED governedVars => UNCHANGED beliefVars
    BY DEF governedVars
  <2> QED BY <2>1, StoreStep
<1> QED BY <1>1, <1>2, GovernedGInv, GovernedStated, PTL DEF GovernedSpec, BeliefSpec

\* So what was proved of the store holds of the composition.
THEOREM GovernedKey ==
  GovernedSpec => /\ [](Lineage /\ SilentOnlyAfterWindow /\ LatestPreferenceWins)
                  /\ HistoryFixed
BY StoreImplemented, LineageHolds, SilenceNeedsAWindow, LatestPreference, HistoryIsFixed, PTL

THEOREM GovernedSilence == GovernedSpec => []SilencedFromOutside
BY StoreImplemented, OnlyOthersSilence, PTL

-----------------------------------------------------------------------------
(* Where the beliefs come from. *)

\* No step of the store takes back what a row says, or supersedes a
\* superseded one again.
RowsKept ==
  \A i \in Rows : /\ beliefs'[i].value = beliefs[i].value
                  /\ beliefs'[i].project = beliefs[i].project
                  /\ beliefs'[i].from = beliefs[i].from
                  /\ beliefs'[i].by = 0 => Active(i)

LEMMA UpsertKeepsRows ==
  ASSUME BeliefTypeOK, NEW now \in 0..today, NEW c \in Candidates(now), Upsert(c, now)
  PROVE  /\ RowsKept
         /\ Len(beliefs) \in Nat /\ Rows = 1..Len(beliefs)
         /\ Len(beliefs') = Len(beliefs) + 1 /\ Rows' = 1..(Len(beliefs) + 1)
         /\ beliefs'[Len(beliefs) + 1].value = c.value
         /\ beliefs'[Len(beliefs) + 1].project = c.project
         /\ beliefs'[Len(beliefs) + 1].from = c.from
<1> PICK replaced \in SUBSET Rivals : Revised(c, now, replaced)
  BY UpsertRows
<1>1. /\ Len(beliefs') = Len(beliefs) + 1
      /\ \A i \in Rows :
           /\ i \notin replaced => beliefs'[i] = beliefs[i]
           /\ i \in replaced =>
                beliefs'[i] = [beliefs[i] EXCEPT !.by = Len(beliefs) + 1, !.to = c.from]
      /\ beliefs'[Len(beliefs) + 1] = NewBelief(c, replaced)
      /\ beliefs' \in Seq(Belief)
  BY DEF Revised
<1>2. Len(beliefs) \in Nat /\ Rows = 1..Len(beliefs) /\ \A i \in Rows : beliefs[i] \in Belief
  BY FinitePlaces DEF BeliefTypeOK, Rows
<1>3. Rows' = 1..(Len(beliefs) + 1)
  BY <1>1, FinitePlaces DEF Rows
<1>4. RowsKept
  <2> SUFFICES ASSUME NEW i \in Rows
               PROVE  /\ beliefs'[i].value = beliefs[i].value
                      /\ beliefs'[i].project = beliefs[i].project
                      /\ beliefs'[i].from = beliefs[i].from
                      /\ beliefs'[i].by = 0 => Active(i)
    BY DEF RowsKept
  <2>1. CASE i \notin replaced
    BY <1>1, <2>1 DEF Active
  <2>2. CASE i \in replaced
    <3>1. beliefs'[i] = [beliefs[i] EXCEPT !.by = Len(beliefs) + 1, !.to = c.from] /\ Active(i)
      BY <1>1, <2>2 DEF Rivals
    <3>2. beliefs[i] \in Belief
      BY <1>2
    <3> QED BY <3>1, <3>2 DEF Belief
  <2> QED BY <2>1, <2>2
<1>5. \A b : b = NewBelief(c, replaced) =>
              b.value = c.value /\ b.project = c.project /\ b.from = c.from
  BY DEF NewBelief
<1> QED BY <1>1, <1>2, <1>3, <1>4, <1>5

\* A step of the store appends a row, or leaves the rows to themselves.
LEMMA StoreKeepsRows ==
  ASSUME BeliefTypeOK, [BeliefNext]_beliefVars
  PROVE  /\ RowsKept
         /\ Len(beliefs) \in Nat /\ Rows = 1..Len(beliefs)
         /\ Len(beliefs') \in Nat /\ Rows' = 1..Len(beliefs')
         /\ Len(beliefs') \in {Len(beliefs), Len(beliefs) + 1}
<1>1. ASSUME NEW now \in 0..today, NEW c \in Candidates(now), Upsert(c, now)
      PROVE  /\ RowsKept
             /\ Len(beliefs) \in Nat /\ Rows = 1..Len(beliefs)
             /\ Len(beliefs') = Len(beliefs) + 1 /\ Rows' = 1..Len(beliefs')
  BY <1>1, UpsertKeepsRows
<1>2. Len(beliefs) \in Nat /\ Rows = 1..Len(beliefs) /\ \A i \in Rows : beliefs[i] \in Belief
  BY FinitePlaces DEF BeliefTypeOK, Rows
<1>3. ASSUME NEW i \in Rows, NEW f \in Feedback, Calibrate(i, f)
      PROVE  RowsKept /\ Len(beliefs') = Len(beliefs) /\ Rows' = 1..Len(beliefs')
  <2>1. /\ beliefs' \in Seq(Belief) /\ Len(beliefs') = Len(beliefs)
        /\ \A j \in Rows : j # i => beliefs'[j] = beliefs[j]
        /\ \E t \in 100..1000 : beliefs'[i] = [beliefs[i] EXCEPT !.trust = t]
    <3>1. OnlyTrustMoves(i)
      BY <1>3, CalibrateRows
    <3> QED BY ONLY <3>1 DEF OnlyTrustMoves
  <2>2. Rows' = 1..Len(beliefs')
    BY <2>1, FinitePlaces DEF Rows
  <2>3. /\ beliefs'[i].value = beliefs[i].value /\ beliefs'[i].project = beliefs[i].project
        /\ beliefs'[i].from = beliefs[i].from /\ beliefs'[i].by = beliefs[i].by
    BY <1>2, <2>1 DEF Belief
  <2> QED BY <2>1, <2>2, <2>3 DEF RowsKept, Active
<1>4. ASSUME UNCHANGED beliefs
      PROVE  RowsKept /\ Len(beliefs') = Len(beliefs) /\ Rows' = 1..Len(beliefs')
  BY <1>2, <1>4 DEF RowsKept, Active, Rows
<1> QED BY <1>1, <1>2, <1>3, <1>4 DEF BeliefNext, TimePasses, beliefVars

\* Between the commit of a belief and the mark of its candidate.
HalfStated ==
  writing # 0 /\ States(writing) => \E i \in Rows : origin[i] = writing

Origins ==
  /\ origin \in Seq({0} \cup DOMAIN cands) /\ Len(origin) = Len(beliefs)
  /\ Traceable /\ HalfStated /\ NotAskedInForce

\* What the invariant says of rows and candidates together, in the terms that
\* the steps change.
LEMMA OriginDomains ==
  ASSUME GInv, Stated, BeliefTypeOK, Origins
  PROVE  /\ Len(beliefs) \in Nat /\ Rows = 1..Len(beliefs)
         /\ DOMAIN origin = Rows /\ \A i \in Rows : origin[i] \in {0} \cup DOMAIN cands
         /\ DOMAIN says = DOMAIN cands
         /\ 0 \notin DOMAIN cands
<1>1. Len(beliefs) \in Nat /\ Rows = 1..Len(beliefs)
  BY FinitePlaces DEF BeliefTypeOK, Rows
<1>2. DOMAIN origin = 1..Len(origin) /\ \A i \in DOMAIN origin : origin[i] \in {0} \cup DOMAIN cands
  BY FinitePlaces DEF Origins
<1>3. DOMAIN says = 1..Len(says) /\ DOMAIN cands = 1..Len(cands)
  BY FinitePlaces DEF Stated, GInv, GovernanceTypeOK
<1>4. 0 \notin DOMAIN cands
  BY FinitePlaces DEF GInv, GovernanceTypeOK
<1> QED BY <1>1, <1>2, <1>3, <1>4 DEF Origins, Stated

\* A decision, with the answer of the store or without: it promotes what has its
\* belief, and leaves waiting what has none in force.
LEMMA DecisionTraced ==
  ASSUME GInv, Stated, BeliefTypeOK, Origins,
         NEW k \in DOMAIN cands, NEW s \in CandidateStatus \ {"shadow"}, Promotable(k),
         cands' = [cands EXCEPT ![k].status = s], writing' = 0,
         UNCHANGED <<beliefVars, says, origin>>,
         s = "promoted" /\ Writes(cands[k].what) /\ States(k) => \E i \in Rows : origin[i] = k,
         s = "needs_confirmation" => \A i \in Rows : origin[i] = k => ~ Active(i)
  PROVE  Origins'
<1>1. /\ DOMAIN cands' = DOMAIN cands
      /\ \A j \in DOMAIN cands :
           /\ cands'[j].what = cands[j].what
           /\ cands'[j].status = IF j = k THEN s ELSE cands[j].status
  BY StatusSet DEF GInv
<1>2. /\ beliefs' = beliefs /\ says' = says /\ origin' = origin
      /\ Rows' = Rows /\ \A i \in Rows : Active(i)' <=> Active(i)
  BY DEF beliefVars, Rows, Active
<1>3. \A j \in DOMAIN cands : States(j)' <=> States(j)
  BY <1>1, <1>2 DEF States
<1>4. \A i \in Rows : origin[i] \in {0} \cup DOMAIN cands
  BY OriginDomains
<1>5. Traceable'
  <2>1. ASSUME NEW i \in Rows, origin[i] # 0
        PROVE  /\ States(origin[i])' /\ Writes(cands'[origin[i]].what)
               /\ cands'[origin[i]].status # "shadow"
               /\ beliefs[i].value = says[origin[i]].value
               /\ beliefs[i].project = says[origin[i]].project
               /\ beliefs[i].from = says[origin[i]].at
    <3>1. origin[i] \in DOMAIN cands
      BY <1>4, <2>1
    <3>2. /\ States(origin[i]) /\ Writes(cands[origin[i]].what)
          /\ cands[origin[i]].status # "shadow"
          /\ beliefs[i].value = says[origin[i]].value
          /\ beliefs[i].project = says[origin[i]].project
          /\ beliefs[i].from = says[origin[i]].at
      BY <2>1 DEF Origins, Traceable
    <3> QED BY <1>1, <1>3, <3>1, <3>2
  <2>2. ASSUME NEW j \in DOMAIN cands, cands'[j].status = "promoted",
               Writes(cands'[j].what), States(j)'
        PROVE  \E i \in Rows : origin[i] = j
    BY <1>1, <1>3, <2>2 DEF Origins, Traceable
  <2> QED BY <1>1, <1>2, <2>1, <2>2 DEF Traceable
<1>6. NotAskedInForce'
  BY <1>1, <1>2 DEF Origins, NotAskedInForce
<1> QED BY <1>1, <1>2, <1>5, <1>6 DEF Origins, HalfStated

\* A step that leaves the candidates to themselves, and no candidate half done
\* that was not.
LEMMA PauseTraced ==
  ASSUME Origins, UNCHANGED <<cands, beliefVars, says, origin>>,
         writing' # 0 /\ States(writing') => writing' = writing
  PROVE  Origins'
<1>1. /\ \A i : Active(i)' <=> Active(i)
      /\ \A j : States(j)' <=> States(j)
      /\ Rows' = Rows /\ beliefs' = beliefs
  BY DEF beliefVars, Rows, Active, States
<1>2. Traceable'
  BY <1>1 DEF Origins, Traceable
<1>3. NotAskedInForce'
  BY <1>1 DEF Origins, NotAskedInForce
<1>4. HalfStated'
  BY <1>1 DEF Origins, HalfStated
<1> QED BY <1>1, <1>2, <1>3, <1>4 DEF Origins

\* A run leaves the rows to themselves, and its candidates are undecided.
LEMMA ProposalTraced ==
  ASSUME GInv, Stated, BeliefTypeOK, Origins, ProposeStatements
  PROVE  Origins'
<1>1. /\ DOMAIN cands \subseteq DOMAIN cands'
      /\ \A j \in DOMAIN cands : cands'[j] = cands[j]
      /\ \A j \in DOMAIN cands' \ DOMAIN cands : cands'[j].status \in Modes
      /\ pass = {} /\ writing' = writing
  BY Proposed DEF ProposeStatements, GInv
<1>2. \A j \in DOMAIN cands : says'[j] = says[j]
  BY StatementsProposed
<1>3. /\ beliefs' = beliefs /\ origin' = origin
      /\ Rows' = Rows /\ \A i \in Rows : Active(i)' <=> Active(i)
  BY StatementsProposed DEF beliefVars, Rows, Active
<1>4. \A j \in DOMAIN cands : States(j)' <=> States(j)
  BY <1>1, <1>2 DEF States
<1>5. (\A i \in Rows : origin[i] \in {0} \cup DOMAIN cands) /\ DOMAIN says = DOMAIN cands
  BY OriginDomains
<1>6. \A j \in DOMAIN cands' \ DOMAIN cands : cands'[j].status \in {"candidate", "shadow"}
  BY <1>1, ModesAssumption
<1>7. Traceable'
  <2>1. ASSUME NEW i \in Rows, origin[i] # 0
        PROVE  /\ States(origin[i])' /\ Writes(cands'[origin[i]].what)
               /\ cands'[origin[i]].status # "shadow"
               /\ beliefs[i].value = says'[origin[i]].value
               /\ beliefs[i].project = says'[origin[i]].project
               /\ beliefs[i].from = says'[origin[i]].at
    <3>1. origin[i] \in DOMAIN cands
      BY <1>5, <2>1
    <3>2. /\ States(origin[i]) /\ Writes(cands[origin[i]].what)
          /\ cands[origin[i]].status # "shadow"
          /\ beliefs[i].value = says[origin[i]].value
          /\ beliefs[i].project = says[origin[i]].project
          /\ beliefs[i].from = says[origin[i]].at
      BY <2>1 DEF Origins, Traceable
    <3>3. cands'[origin[i]] = cands[origin[i]] /\ says'[origin[i]] = says[origin[i]]
      BY <1>1, <1>2, <3>1
    <3>4. States(origin[i])'
      BY <1>3, <1>4, <3>1, <3>2
    <3> QED BY <3>2, <3>3, <3>4
  <2>2. ASSUME NEW j \in DOMAIN cands', cands'[j].status = "promoted",
               Writes(cands'[j].what), States(j)'
        PROVE  \E i \in Rows : origin[i] = j
    <3>1. j \in DOMAIN cands
      BY <1>6, <2>2
    <3> QED BY <1>1, <1>4, <2>2, <3>1 DEF Origins, Traceable
  <2> QED BY <1>3, <2>1, <2>2 DEF Traceable
<1>8. NotAskedInForce'
  BY <1>1, <1>3, <1>6 DEF Origins, NotAskedInForce
<1>9. writing' = 0
  BY <1>1 DEF GInv, GovernanceTypeOK
<1>10. origin' \in Seq({0} \cup DOMAIN cands')
  BY <1>1, <1>3, SeqMonotonic DEF Origins
<1> QED BY <1>3, <1>7, <1>8, <1>9, <1>10 DEF Origins, HalfStated

\* A row of the store that names no candidate, and the calibrations.
LEMMA LearningTraced ==
  ASSUME GInv, Stated, BeliefTypeOK, Origins, BeliefsAlone
  PROVE  Origins'
<1>1. /\ RowsKept
      /\ Len(beliefs') \in Nat /\ Rows' = 1..Len(beliefs')
      /\ Len(beliefs') \in {Len(beliefs), Len(beliefs) + 1}
  BY StoreKeepsRows DEF BeliefsAlone
<1>2. /\ Len(beliefs) \in Nat /\ Rows = 1..Len(beliefs) /\ DOMAIN origin = Rows
      /\ origin \in Seq({0} \cup DOMAIN cands) /\ Len(origin) = Len(beliefs)
  BY OriginDomains DEF Origins
<1>3. /\ cands' = cands /\ says' = says /\ writing' = 0
      /\ \A j : States(j)' <=> States(j)
  BY DEF BeliefsAlone, NoPassRuns, GInv, GovernanceTypeOK, governanceVars, States
<1>4. /\ origin' \in Seq({0} \cup DOMAIN cands) /\ Len(origin') = Len(beliefs')
      /\ \A i \in Rows : origin'[i] = origin[i]
      /\ \A i \in Rows' : i \in Rows \/ origin'[i] = 0
  <2>1. CASE Len(beliefs') = Len(beliefs)
    <3>1. origin' = origin
      <4>1. ~ (Len(beliefs') > Len(beliefs))
        BY <1>2, <2>1
      <4> QED BY <4>1 DEF BeliefsAlone
    <3> QED BY <1>1, <1>2, <2>1, <3>1
  <2>2. CASE Len(beliefs') = Len(beliefs) + 1
    <3>1. origin' = Append(origin, 0)
      <4>1. Len(beliefs') > Len(beliefs)
        BY <1>2, <2>2
      <4> QED BY <4>1 DEF BeliefsAlone
    <3>2. /\ origin' \in Seq({0} \cup DOMAIN cands) /\ Len(origin') = Len(origin) + 1
          /\ \A i \in 1..Len(origin) : origin'[i] = origin[i]
          /\ origin'[Len(origin) + 1] = 0
      BY <1>2, <3>1, AppendProperties
    <3> QED BY <1>1, <1>2, <2>2, <3>2
  <2> QED BY <1>1, <2>1, <2>2
<1>5. Traceable'
  <2>1. ASSUME NEW i \in Rows', origin'[i] # 0
        PROVE  /\ States(origin'[i]) /\ Writes(cands[origin'[i]].what)
               /\ cands[origin'[i]].status # "shadow"
               /\ beliefs'[i].value = says[origin'[i]].value
               /\ beliefs'[i].project = says[origin'[i]].project
               /\ beliefs'[i].from = says[origin'[i]].at
    <3>1. i \in Rows /\ origin'[i] = origin[i]
      BY <1>4, <2>1
    <3>2. /\ States(origin[i]) /\ Writes(cands[origin[i]].what)
          /\ cands[origin[i]].status # "shadow"
          /\ beliefs[i].value = says[origin[i]].value
          /\ beliefs[i].project = says[origin[i]].project
          /\ beliefs[i].from = says[origin[i]].at
      BY <2>1, <3>1 DEF Origins, Traceable
    <3> QED BY <1>1, <3>1, <3>2 DEF RowsKept
  <2>2. Rows \subseteq Rows'
    BY <1>1, <1>2
  <2>3. ASSUME NEW j \in DOMAIN cands, cands[j].status = "promoted",
               Writes(cands[j].what), States(j)
        PROVE  \E i \in Rows' : origin'[i] = j
    <3>1. PICK i \in Rows : origin[i] = j
      BY <2>3 DEF Origins, Traceable
    <3> QED BY <1>4, <2>2, <3>1
  <2> QED BY <1>3, <2>1, <2>3 DEF Traceable
<1>6. NotAskedInForce'
  <2> SUFFICES ASSUME NEW j \in DOMAIN cands, NEW i \in Rows',
                      cands[j].status = "needs_confirmation", origin'[i] = j,
                      beliefs'[i].by = 0
               PROVE  FALSE
    BY <1>3 DEF NotAskedInForce, Active
  <2>1. i \in Rows /\ origin[i] = j
    BY <1>4, OriginDomains
  <2>2. Active(i)
    BY <1>1, <2>1 DEF RowsKept
  <2> QED BY <2>1, <2>2 DEF Origins, NotAskedInForce
<1> QED BY <1>3, <1>4, <1>5, <1>6 DEF Origins, HalfStated

\* The belief of the candidate at hand, which is now half done.
LEMMA StatementTraced ==
  ASSUME GInv, Stated, BeliefTypeOK, Origins, StoreStatement
  PROVE  Origins'
<1>1. /\ At \in DOMAIN cands /\ States(At) /\ Promotable(At) /\ Writes(cands[At].what)
      /\ Upsert(ClaimOf(At), Dated(At))
  BY AtIsCandidate DEF StoreStatement, WriteRow, GInv
<1> DEFINE n == Len(beliefs)
<1>2. /\ RowsKept
      /\ n \in Nat /\ Rows = 1..n /\ Len(beliefs') = n + 1 /\ Rows' = 1..(n + 1)
      /\ beliefs'[n + 1].value = ClaimOf(At).value
      /\ beliefs'[n + 1].project = ClaimOf(At).project
      /\ beliefs'[n + 1].from = ClaimOf(At).from
  BY <1>1, ClaimExpected, UpsertKeepsRows
<1>3. /\ beliefs'[n + 1].value = says[At].value
      /\ beliefs'[n + 1].project = says[At].project
      /\ beliefs'[n + 1].from = says[At].at
  BY <1>2 DEF ClaimOf, Promotion
<1>4. /\ cands' = cands /\ says' = says /\ writing' = At
      /\ \A j : States(j)' <=> States(j)
  BY DEF StoreStatement, WriteRow, States
<1>5. origin \in Seq({0} \cup DOMAIN cands) /\ Len(origin) = n
  BY DEF Origins
<1>6. /\ origin' \in Seq({0} \cup DOMAIN cands) /\ Len(origin') = n + 1
      /\ \A i \in 1..n : origin'[i] = origin[i]
      /\ origin'[n + 1] = At
  <2>1. origin' = Append(origin, At)
    BY DEF StoreStatement
  <2> QED BY <1>1, <1>5, <2>1, AppendProperties
<1> HIDE DEF n
<1>7. \A i \in Rows' : i \in Rows \/ i = n + 1
  BY <1>2
<1>8. Traceable'
  <2>1. ASSUME NEW i \in Rows', origin'[i] # 0
        PROVE  /\ States(origin'[i]) /\ Writes(cands[origin'[i]].what)
               /\ cands[origin'[i]].status # "shadow"
               /\ beliefs'[i].value = says[origin'[i]].value
               /\ beliefs'[i].project = says[origin'[i]].project
               /\ beliefs'[i].from = says[origin'[i]].at
    <3>1. CASE i \in Rows
      <4>1. origin'[i] = origin[i]
        BY <1>2, <1>6, <3>1
      <4>2. /\ States(origin[i]) /\ Writes(cands[origin[i]].what)
            /\ cands[origin[i]].status # "shadow"
            /\ beliefs[i].value = says[origin[i]].value
            /\ beliefs[i].project = says[origin[i]].project
            /\ beliefs[i].from = says[origin[i]].at
        BY <2>1, <3>1, <4>1 DEF Origins, Traceable
      <4> QED BY <1>2, <3>1, <4>1, <4>2 DEF RowsKept
    <3>2. CASE i = n + 1
      <4>1. origin'[i] = At /\ cands[At].status # "shadow"
        BY <1>1, <1>6, <3>2 DEF Promotable
      <4> QED BY <1>1, <1>3, <3>2, <4>1
    <3> QED BY <1>7, <3>1, <3>2
  <2>2. Rows \subseteq Rows'
    BY <1>2
  <2>3. ASSUME NEW j \in DOMAIN cands, cands[j].status = "promoted",
               Writes(cands[j].what), States(j)
        PROVE  \E i \in Rows' : origin'[i] = j
    <3>1. PICK i \in Rows : origin[i] = j
      BY <2>3 DEF Origins, Traceable
    <3> QED BY <1>2, <1>6, <2>2, <3>1
  <2> QED BY <1>4, <2>1, <2>3 DEF Traceable
<1>9. NotAskedInForce'
  <2> SUFFICES ASSUME NEW j \in DOMAIN cands, NEW i \in Rows',
                      cands[j].status = "needs_confirmation", origin'[i] = j,
                      beliefs'[i].by = 0
               PROVE  FALSE
    BY <1>4 DEF NotAskedInForce, Active
  <2>1. j # At
    BY <1>1 DEF Promotable
  <2>2. i \in Rows /\ origin[i] = j
    BY <1>2, <1>6, <1>7, <2>1
  <2>3. Active(i)
    BY <1>2, <2>2 DEF RowsKept
  <2> QED BY <2>2, <2>3 DEF Origins, NotAskedInForce
<1>10. HalfStated'
  <2>1. n + 1 \in Rows'
    BY <1>2
  <2> QED BY <1>4, <1>6, <2>1 DEF HalfStated
<1>11. Len(origin') = Len(beliefs')
  BY <1>2, <1>6
<1> QED BY <1>4, <1>6, <1>8, <1>9, <1>10, <1>11 DEF Origins

\* Of its own date, a promotion is strong, whatever the kind of the key: it is
\* fresh, and its confidence stands for its trust as well.
LEMMA PromotionStrong ==
  ASSUME BeliefTypeOK, NEW v, NEW p, NEW conf \in 74..100, NEW now \in Nat
  PROVE  Strength(Promotion(v, p, conf, now), now) >= 144000
<1> DEFINE c == Promotion(v, p, conf, now)
<1>1. PICK t \in Nat : t = c.trust /\ t >= 740
  <2>1. \A b : b = c => b.trust = IF 10 * conf < 550 THEN 550 ELSE 10 * conf
    BY DEF Promotion
  <2>2. c.trust = 10 * conf
    <3>1. ~ (10 * conf < 550)
      OBVIOUS
    <3> QED BY <2>1, <3>1
  <2> HIDE DEF c
  <2>3. 10 * conf \in Nat /\ 10 * conf >= 740
    OBVIOUS
  <2> QED BY <2>2, <2>3
<1>2. c.source = "user_input" /\ c.conf = conf /\ c.from = now
  BY DEF Promotion
<1> HIDE DEF c
<1>3. now - now <= 0
  OBVIOUS
<1>4. \A h : Freshness(now - now, h) = 1000
  <2> SUFFICES ASSUME NEW h PROVE Freshness(now - now, h) = 1000
    OBVIOUS
  <2>1. 0 % 9 = 0 /\ 0 \div 9 = 0 /\ 1000 \div 1 = 1000
    OBVIOUS
  <2> QED BY <1>3, <2>1 DEF Freshness
<1>5. SourceTrust("user_input") = 850
  BY DEF SourceTrust
<1>6. kind \in {"preference", "workflow", "fact"}
  BY BeliefAssumption DEF BeliefTypeOK
<1>7. PICK w1, w2, w3, w4 \in Nat :
        /\ Weights("user_input") = <<w1, w2, w3, w4>>
        /\ \/ w1 = 28 /\ w2 = 22 /\ w3 = 38 /\ w4 = 12
           \/ w1 = 30 /\ w2 = 30 /\ w3 = 24 /\ w4 = 16
           \/ w1 = 30 /\ w2 = 34 /\ w3 = 24 /\ w4 = 12
  BY <1>6 DEF Weights
<1>8. Strength(c, now) = 20 * conf * w1 + (t + 850) * w2 + 2 * 1000 * w3 + 2 * 680 * w4
  BY <1>1, <1>2, <1>4, <1>5, <1>7 DEF Strength, ProjectScopeWeight
<1>9. 20 * conf * w1 + (t + 850) * w2 + 2 * 1000 * w3 + 2 * 680 * w4 >= 144000
  <2>1. CASE w1 = 28 /\ w2 = 22 /\ w3 = 38 /\ w4 = 12
    BY <1>1, <2>1
  <2>2. CASE w1 = 30 /\ w2 = 30 /\ w3 = 24 /\ w4 = 16
    BY <1>1, <2>2
  <2>3. CASE w1 = 30 /\ w2 = 34 /\ w3 = 24 /\ w4 = 12
    BY <1>1, <2>3
  <2> QED BY <1>7, <2>1, <2>2, <2>3
<1> QED BY <1>8, <1>9 DEF c

\* What an active belief says already is stored again, if it is strong: upsert
\* rejects it only for the sake of beliefs that say otherwise.
LEMMA RestatementStored ==
  ASSUME NEW c, NEW now, NEW i \in Rows, Active(i), beliefs[i].value = c.value,
         Strength(c, now) >= 144000
  PROVE  Resolve(c, now).store
<1> DEFINE rivals   == Rivals
           same     == {j \in rivals : beliefs[j].value = c.value}
           beaten   == {j \in rivals \ same : Beats(c, beliefs[j], now)}
           stronger == {j \in rivals \ same : IsBeatenBy(c, beliefs[j], now)}
<1>1. i \in rivals /\ i \in same /\ i \notin stronger
  BY DEF Rivals
<1>2. same = rivals => beaten = {}
  OBVIOUS
<1>3. Resolve(c, now) =
        CASE rivals = {}                       -> [store |-> TRUE, replace |-> {}]
          [] rivals # {} /\ same = rivals      -> [store |-> Strength(c, now) >= 144000,
                                                   replace |-> {}]
          [] beaten # {} /\ stronger = {}      -> [store |-> TRUE, replace |-> beaten]
          [] rivals # {} /\ stronger = rivals  -> [store |-> FALSE, replace |-> {}]
          [] OTHER                             -> [store |-> TRUE, replace |-> {}]
  BY DEF Resolve
<1> HIDE DEF rivals, same, beaten, stronger
<1>4. CASE same = rivals
  <2> DEFINE strong == Strength(c, now) >= 144000
  <2>1. Resolve(c, now) = [store |-> strong, replace |-> {}]
    BY <1>1, <1>2, <1>3, <1>4
  <2>2. strong
    OBVIOUS
  <2> HIDE DEF strong
  <2>3. [store |-> strong, replace |-> {}].store = strong
    OBVIOUS
  <2> QED BY ONLY <2>1, <2>2, <2>3, Zenon
<1>5. CASE same # rivals
  <2>1. \/ Resolve(c, now) = [store |-> TRUE, replace |-> beaten]
        \/ Resolve(c, now) = [store |-> TRUE, replace |-> {}]
    BY <1>1, <1>3, <1>5
  <2> QED BY <2>1
<1> QED BY <1>4, <1>5

\* The answer of the store: a belief that is set aside is not in force.
LEMMA AsideTraced ==
  ASSUME GInv, Stated, BeliefTypeOK, Origins, SetAside
  PROVE  Origins'
<1>1. /\ At \in DOMAIN cands /\ States(At) /\ Promotable(At)
      /\ cands' = [cands EXCEPT ![At].status = "needs_confirmation"]
      /\ writing = 0 /\ UNCHANGED <<writing, beliefVars, says, origin>>
      /\ ~ Resolve(ClaimOf(At), Dated(At)).store
  BY AtIsCandidate DEF SetAside, RejectBelief, GInv
<1>2. ASSUME NEW i \in Rows, origin[i] = At, Active(i) PROVE FALSE
  <2>1. At # 0
    BY <1>1, OriginDomains
  <2>2. beliefs[i].value = says[At].value
    BY <1>2, <2>1 DEF Origins, Traceable
  <2>3. ClaimOf(At).value = says[At].value
    BY DEF ClaimOf, Promotion
  <2>4. cands[At].what.conf \in 74..100 /\ says[At].at \in Nat
    <3>1. cands[At].what.conf \in 0..100 /\ cands[At].what.conf >= 74 /\ says[At] \in Saying
      BY <1>1, ClaimExpected, BeliefAssumption
    <3> QED BY <3>1 DEF Saying
  <2>5. Strength(ClaimOf(At), Dated(At)) >= 144000
    <3>1. Strength(Promotion(says[At].value, says[At].project, cands[At].what.conf, says[At].at),
                   says[At].at) >= 144000
      BY ONLY BeliefTypeOK, <2>4, PromotionStrong
    <3> QED BY ONLY <3>1 DEF ClaimOf, Dated
  <2> QED BY <1>1, <1>2, <2>2, <2>3, <2>5, RestatementStored
<1> QED BY <1>1, <1>2, DecisionTraced DEF CandidateStatus

\* The steps of a pass that do not concern the key.
LEMMA PassTraced ==
  ASSUME GInv, Stated, BeliefTypeOK, Origins, PassAlone
  PROVE  Origins'
<1>1. UNCHANGED <<beliefVars, says, origin>>
  BY DEF PassAlone
<1>2. CASE \/ \E s \in Governed : PromotePending(s)
           \/ \E r \in 1..Len(cands) : PromoteRun(r)
           \/ Keep \/ PassCrash
  <2>1. UNCHANGED cands /\ (writing' = 0 \/ writing' = writing)
    BY <1>2 DEF PromotePending, PromoteRun, Keep, PassCrash
  <2> QED BY <1>1, <2>1, PauseTraced
<1>3. CASE WriteRow /\ ~ States(At)
  <2>1. UNCHANGED cands /\ writing' = At
    BY <1>3 DEF WriteRow
  <2> QED BY <1>1, <1>3, <2>1, PauseTraced
<1>4. CASE Decide
  <2>1. /\ At \in DOMAIN cands /\ Promotable(At) /\ writing' = 0 /\ ~ Writes(cands[At].what)
        /\ cands' = [cands EXCEPT ![At].status = Verdict(cands[At].what)]
    BY <1>4, AtIsCandidate DEF Decide, GInv
  <2>2. \A i \in Rows : origin[i] # At
    BY <2>1, OriginDomains DEF Origins, Traceable
  <2>3. Verdict(cands[At].what) \in CandidateStatus \ {"shadow"}
    BY DEF Verdict, CandidateStatus
  <2> QED BY <1>1, <2>1, <2>2, <2>3, DecisionTraced
<1>5. CASE RejectBelief /\ ~ States(At)
  <2>1. /\ At \in DOMAIN cands /\ Promotable(At) /\ writing' = 0
        /\ cands' = [cands EXCEPT ![At].status = "needs_confirmation"]
    BY <1>5, AtIsCandidate DEF RejectBelief, GInv
  <2>2. \A i \in Rows : origin[i] # At
    BY <1>5, <2>1, OriginDomains DEF Origins, Traceable
  <2> QED BY <1>1, <2>1, <2>2, DecisionTraced DEF CandidateStatus
<1>6. CASE MarkPromoted
  <2>1. /\ writing \in DOMAIN cands /\ Promotable(writing) /\ writing' = 0
        /\ cands' = [cands EXCEPT ![writing].status = "promoted"]
    BY <1>6, AtIsCandidate DEF MarkPromoted, GInv, GovernanceTypeOK, HalfDone
  <2>2. States(writing) => \E i \in Rows : origin[i] = writing
    BY <1>6 DEF Origins, HalfStated, MarkPromoted
  <2>3. PICK s \in CandidateStatus \ {"shadow"} : s = "promoted" /\ s # "needs_confirmation"
    BY DEF CandidateStatus
  <2>4. cands' = [cands EXCEPT ![writing].status = s]
    BY <2>1, <2>3
  <2> QED BY <1>1, <2>1, <2>2, <2>3, <2>4, DecisionTraced
<1> QED BY <1>2, <1>3, <1>4, <1>5, <1>6 DEF PassAlone

LEMMA GovernedOrigins == GovernedSpec => []Origins
<1>1. GovernedInit => Origins
  <2> SUFFICES ASSUME GovernedInit PROVE Origins
    OBVIOUS
  <2>1. origin = <<>> /\ beliefs = <<>> /\ cands = <<>> /\ writing = 0
    BY DEF GovernedInit, GovernanceInit, BeliefInit
  <2>2. DOMAIN cands = {} /\ Rows = {} /\ Len(origin) = Len(beliefs)
    BY <2>1 DEF Rows
  <2> QED BY <2>1, <2>2, EmptySeq DEF Origins, Traceable, HalfStated, NotAskedInForce
<1>2. GInv /\ Stated /\ BeliefTypeOK /\ Origins /\ [GovernedNext]_governedVars => Origins'
  <2> SUFFICES ASSUME GInv, Stated, BeliefTypeOK, Origins, [GovernedNext]_governedVars
               PROVE  Origins'
    OBVIOUS
  <2>1. CASE ProposeStatements
    BY <2>1, ProposalTraced
  <2>2. CASE StoreStatement
    BY <2>2, StatementTraced
  <2>3. CASE SetAside
    BY <2>3, AsideTraced
  <2>4. CASE PassAlone
    BY <2>4, PassTraced
  <2>5. CASE BeliefsAlone
    BY <2>5, LearningTraced
  <2>6. CASE UNCHANGED governedVars
    BY <2>6, PauseTraced DEF governedVars, governanceVars
  <2> QED BY <2>1, <2>2, <2>3, <2>4, <2>5, <2>6 DEF GovernedNext
<1>3. GovernedSpec => []BeliefTypeOK
  BY StoreImplemented, TypeCorrect, PTL
<1> QED BY <1>1, <1>2, <1>3, GovernedGInv, GovernedStated, PTL DEF GovernedSpec

\* Every candidate has its content, of a date that has come, and every belief
\* its origin.
THEOREM GovernedTypes == GovernedSpec => []GovernedTypeOK
<1>1. Stated /\ Origins => GovernedTypeOK
  BY DEF Stated, Origins, GovernedTypeOK
<1> QED BY <1>1, GovernedStated, GovernedOrigins, PTL

\* A belief that names a candidate says what the candidate says, and a promoted
\* candidate has its belief, through every crash between the two commits.
THEOREM BeliefsTraceable == GovernedSpec => []Traceable
<1>1. Origins => Traceable
  BY DEF Origins
<1> QED BY <1>1, GovernedOrigins, PTL

\* No candidate waits for a confirmation while its belief is in force, on a key of
\* any kind and whatever was extracted meanwhile.
THEOREM NoIdleQuestion == GovernedSpec => []NotAskedInForce
<1>1. Origins => NotAskedInForce
  BY DEF Origins
<1> QED BY <1>1, GovernedOrigins, PTL

=============================================================================
