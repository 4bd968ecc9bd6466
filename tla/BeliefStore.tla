---- MODULE BeliefStore ----
(***************************************************************************)
(* The belief store (src/src/belief/BeliefStore.ts): what the memory holds *)
(* to be true.  A candidate is compared with the active beliefs of its     *)
(* canonical key (subject, predicate, scope) by a strength made of         *)
(* confidence, trust and freshness; it is then rejected, stored beside     *)
(* them, or stored in place of the ones it beats.                          *)
(*                                                                         *)
(* Beliefs of different keys never meet, so one key is modelled; its kind  *)
(* of predicate, which fixes weights and half-life, is chosen at the start.*)
(* A key names no project: the beliefs of all projects meet in it.         *)
(* The branch for existing beliefs of a narrower scope never runs: the key *)
(* contains the scope.  Time is counted in units of ten days, strength in  *)
(* units of 1/200000.                                                      *)
(***************************************************************************)
EXTENDS Naturals, Integers, Sequences, FiniteSets

CONSTANTS Kinds,        \* subset of {"preference", "workflow", "fact"}
          BeliefValues,
          BeliefProjects,  \* that state something about the key
          Claims,       \* <<source, confidence in percent>> of what is extracted
          Promotions,   \* confidences in percent of what governance promotes
          Windows,      \* length of a statement's own validity; 0: open
          Feedback,     \* <<executed, failed>> counts of a calibration
          MaxBeliefs, MaxTime, MaxCalibrations

Source == {"verified_fact", "external_tool", "user_input", "llm_inference"}

ASSUME BeliefAssumption ==
  /\ Kinds \subseteq {"preference", "workflow", "fact"}
  /\ Claims \subseteq Source \X (0..100)
  /\ Promotions \subseteq 0..100
  /\ Windows \subseteq Nat
  /\ Feedback \subseteq Nat \X Nat
  /\ MaxTime \in Nat /\ MaxCalibrations \in Nat

VARIABLES kind,       \* of the key's predicate
          beliefs,    \* rows of the key, in insertion order
          today, calibrations

beliefVars == <<kind, beliefs, today, calibrations>>

NoEnd == 0  \* valid_to IS NULL

Rows == DOMAIN beliefs

SourceTrust(source) ==
  CASE source = "verified_fact" -> 1000
    [] source = "external_tool" -> 900
    [] source = "user_input"    -> 850
    [] source = "llm_inference" -> 550

\* Half-lives of 10, 30 and 90 days.  Decisions (14 days) and constraints (21)
\* are left out.
HalfLife(source) ==
  CASE kind = "preference"                                  -> 1
    [] kind # "preference" /\ source = "verified_fact"      -> 9
    [] kind # "preference" /\ source # "verified_fact"      -> 3

\* 1000 * 2^(-age / halfLife), an age before validFrom counting as zero: the
\* powers of a ninth of a half-life, halved with each.  After ten half-lives
\* nothing is left.
Freshness(age, halfLife) ==
  LET ninths  == IF age <= 0 THEN 0 ELSE (age * 9) \div halfLife
      partial == <<1000, 926, 857, 794, 735, 680, 630, 583, 540>>
      halves  == <<1, 2, 4, 8, 16, 32, 64, 128, 256, 512>>
  IN  IF ninths >= 90 THEN 0
      ELSE partial[(ninths % 9) + 1] \div halves[(ninths \div 9) + 1]

\* confidence, trust, freshness and scope, in percent.
Weights(source) ==
  CASE kind = "preference"                             -> <<28, 22, 38, 12>>
    [] kind = "workflow"                               -> <<30, 30, 24, 16>>
    [] kind = "fact" /\ source = "verified_fact"       -> <<24, 46, 18, 12>>
    [] kind = "fact" /\ source # "verified_fact"       -> <<30, 34, 24, 12>>

ProjectScopeWeight == 680

Strength(b, now) ==
  LET w == Weights(b.source)
  IN  20 * b.conf * w[1]
      + (b.trust + SourceTrust(b.source)) * w[2]
      + 2 * Freshness(now - b.from, HalfLife(b.source)) * w[3]
      + 2 * ProjectScopeWeight * w[4]

\* A mutant: a newer preference has to be stronger, as any belief.
BeatsByStrength(c, b, now) == Strength(c, now) - Strength(b, now) >= 24000

Beats(c, b, now) ==
  LET delta == Strength(c, now) - Strength(b, now)
  IN  \/ /\ kind = "preference"
         /\ c.source = b.source
         /\ c.from > b.from
         /\ delta > -10000
      \/ delta >= 24000

IsBeatenBy(c, b, now) ==
  /\ ~ Beats(c, b, now)
  /\ Strength(c, now) - Strength(b, now) <= -24000

Active(i) == beliefs[i].by = 0

\* The superseded row the new one names: the latest by validity, then by
\* insertion.
FirstOf(S) ==
  IF S = {} THEN 0
  ELSE CHOOSE i \in S : \A j \in S : \/ beliefs[i].from > beliefs[j].from
                                     \/ beliefs[i].from = beliefs[j].from /\ i >= j

\* A mutant: rows superseded earlier are compared again.
RivalsOfAnyStatus == Rows

\* findByCanonicalKey
Rivals == {i \in Rows : Active(i)}

\* The decision: whether the candidate is stored, and in place of which rows.
Resolve(c, now) ==
  LET rivals   == Rivals
      same     == {i \in rivals : beliefs[i].value = c.value}
      beaten   == {i \in rivals \ same : Beats(c, beliefs[i], now)}
      stronger == {i \in rivals \ same : IsBeatenBy(c, beliefs[i], now)}
  IN  CASE rivals = {}                       -> [store |-> TRUE, replace |-> {}]
        [] rivals # {} /\ same = rivals      -> [store |-> Strength(c, now) >= 144000,
                                                 replace |-> {}]
        [] beaten # {} /\ stronger = {}      -> [store |-> TRUE, replace |-> beaten]
        [] rivals # {} /\ stronger = rivals  -> [store |-> FALSE, replace |-> {}]
        [] OTHER                             -> [store |-> TRUE, replace |-> {}]

\* Extraction and enrichment: open from its date, or in a window around now,
\* with the trust of the source.  The enrichment is a hook of the host, of
\* which none is shipped, and is taken to pass no trust or date of its own.
Extracted(now) ==
  {[value |-> v, project |-> p, source |-> s[1], conf |-> s[2], trust |-> SourceTrust(s[1]),
    from |-> x[1], window |-> x[2]] :
     v \in BeliefValues, p \in BeliefProjects, s \in Claims,
     x \in {y \in (0..now) \X Windows : y[2] # 0 => now < y[1] + y[2]}}

\* promotePreference: open from the date of the governed candidate, with its
\* confidence for a trust.
Promotion(v, p, conf, now) ==
  [value |-> v, project |-> p, source |-> "user_input", conf |-> conf,
   trust |-> IF 10 * conf < 550 THEN 550 ELSE 10 * conf,
   from |-> now, window |-> 0]

Candidates(now) ==
  Extracted(now) \cup
  {Promotion(v, p, conf, now) : v \in BeliefValues, p \in BeliefProjects, conf \in Promotions}

\* A mutant: every statement passes after a while.
NewBeliefPassing(c, replaced) ==
  [value |-> c.value, project |-> c.project, source |-> c.source, conf |-> c.conf,
   trust |-> c.trust, from |-> c.from, to |-> c.from + c.window + 1,
   window |-> c.window # 0, by |-> 0, replaces |-> FirstOf(replaced)]

NewBelief(c, replaced) ==
  [value |-> c.value, project |-> c.project, source |-> c.source, conf |-> c.conf,
   trust |-> c.trust, from |-> c.from,
   to |-> IF c.window = 0 THEN NoEnd ELSE c.from + c.window,
   window |-> c.window # 0, by |-> 0, replaces |-> FirstOf(replaced)]

\* A mutant: the superseded rows keep pointing nowhere.
MarkedWithoutSuccessor(replaced, from) ==
  [i \in Rows |-> IF i \in replaced
                  THEN [beliefs[i] EXCEPT !.by = i, !.to = from]
                  ELSE beliefs[i]]

\* The supersede statement of the transaction.
Marked(replaced, from) ==
  [i \in Rows |-> IF i \in replaced
                  THEN [beliefs[i] EXCEPT !.by = Len(beliefs) + 1, !.to = from]
                  ELSE beliefs[i]]

\* upsert.  The caller passes its own notion of now: the date of the neuron
\* for consolidation and imports, of the candidate for promotions, the clock for
\* enrichment.  The event appended after the transaction is left out: nothing
\* reads it back.
Upsert(c, now) ==
  /\ Len(beliefs) < MaxBeliefs
  /\ LET d == Resolve(c, now)
     IN  /\ d.store
         /\ beliefs' = Append(Marked(d.replace, c.from), NewBelief(c, d.replace))
  /\ UNCHANGED <<kind, today, calibrations>>

Clamp(x) == IF x < 100 THEN 100 ELSE IF x > 1000 THEN 1000 ELSE x

\* applyExecutionFeedbackCalibration, for one active row.
Calibrate(i, f) ==
  /\ calibrations < MaxCalibrations
  /\ Active(i)
  /\ beliefs' = [beliefs EXCEPT ![i].trust = Clamp(@ + 20 * f[1] - 30 * f[2])]
  /\ calibrations' = calibrations + 1
  /\ UNCHANGED <<kind, today>>

TimePasses ==
  /\ today < MaxTime
  /\ today' = today + 1
  /\ UNCHANGED <<kind, beliefs, calibrations>>

BeliefInit ==
  /\ kind \in Kinds
  /\ beliefs = <<>>
  /\ today = 0
  /\ calibrations = 0

BeliefNext ==
  \/ \E now \in 0..today : \E c \in Candidates(now) : Upsert(c, now)
  \/ \E i \in Rows, f \in Feedback : Calibrate(i, f)
  \/ TimePasses

BeliefSpec == BeliefInit /\ [][BeliefNext]_beliefVars

----------------------------------------------------------------------------

Belief == [value : BeliefValues, project : BeliefProjects, source : Source, conf : 0..100,
           trust : 100..1000, from : Nat, to : Nat, window : BOOLEAN, by : Nat, replaces : Nat]

\* The variables have their types.
BeliefTypeOK ==
  /\ kind \in Kinds
  /\ beliefs \in Seq(Belief)
  /\ today \in 0..MaxTime
  /\ calibrations \in 0..MaxCalibrations

\* A superseded belief was replaced by a later row of another
\* value, and stopped being valid when that one began; the row a belief says
\* it replaces was replaced by it.  Following the successors therefore ends,
\* and it ends at an active belief: revising a key never leaves it without one.
Lineage ==
  \A i \in Rows :
    /\ ~ Active(i) => LET b == beliefs[i].by
                      IN  /\ b \in Rows
                          /\ b > i
                          /\ beliefs[b].value # beliefs[i].value
                          /\ beliefs[i].to = beliefs[b].from
    /\ beliefs[i].replaces # 0 => /\ beliefs[i].replaces \in Rows
                                  /\ beliefs[beliefs[i].replaces].by = i

\* A project that stated the key and has no active belief of it left was
\* silenced from outside: among what superseded its beliefs is a statement of
\* another project, for the key has no project.  What a project states itself
\* leaves it with a belief.
SilencedFromOutside ==
  \A p \in BeliefProjects :
    LET own == {i \in Rows : beliefs[i].project = p}
    IN  own # {} /\ (\A i \in own : ~ Active(i)) =>
          \E i \in own : beliefs[beliefs[i].by].project # p

\* The rows of the key that getActiveBeliefsForQuery can return to a query at a
\* time, of whatever project.  A query sees those of its project and the global
\* ones, the latest 200 over all keys, and of these the ones that score.
Believed(t) ==
  {i \in Rows : /\ Active(i)
                /\ beliefs[i].from <= t
                /\ (beliefs[i].to = NoEnd \/ beliefs[i].to > t)}

\* A key that was ever stated has an answer today in some project, unless a
\* statement about a passing window ("this month") was stored for it and its
\* window is over.
\* A window supersedes the standing belief for good: nothing restores it.
SilentOnlyAfterWindow ==
  Rows # {} /\ Believed(today) = {} => \E i \in Rows : Active(i) /\ beliefs[i].window

\* The latest preference wins: when the preferences on record come from one
\* source, in the order of their dates, with confidences within 17 points (the
\* span of the extraction rules) and with the trust of that source, never
\* calibrated, only the latest value is active.
LatestPreferenceWins ==
  (/\ kind = "preference"
   /\ \A i, j \in Rows : /\ beliefs[i].trust = SourceTrust(beliefs[i].source)
                         /\ beliefs[i].source = beliefs[j].source
                         /\ beliefs[i].conf - beliefs[j].conf <= 17
                         /\ i < j => beliefs[i].from < beliefs[j].from
   /\ calibrations = 0)
  => \A i \in Rows : Active(i) => beliefs[i].value = beliefs[Len(beliefs)].value

\* A superseded belief is history: no later statement or calibration changes it.
HistoryFixed ==
  [][\A i \in Rows : ~ Active(i) => i \in DOMAIN beliefs' /\ beliefs'[i] = beliefs[i]]_beliefVars
====
