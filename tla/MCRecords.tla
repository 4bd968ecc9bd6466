---- MODULE MCRecords ----
(***************************************************************************)
(* One run over what is kept for good: the raw ledger, and the beliefs     *)
(* that governed candidates state.  Their stores do not meet: each         *)
(* behaviour is about one, the other stays where it begins.                *)
(*                                                                         *)
(* The candidates are preferences, most of them of one key; what is        *)
(* extracted meanwhile may say otherwise, with more strength.              *)
(***************************************************************************)
EXTENDS RawLedger, GovernedBeliefs, TLC

CONSTANTS Foci,
          MaxExtracted   \* bound: the extracted beliefs, by the kind of the key

VARIABLE focus   \* the component the behaviour is about

recordVars == <<focus, ledgerVars, governedVars>>

MCClaims == {<<"verified_fact", 96>>}
MCExtracted == ("preference" :> 0) @@ ("fact" :> 1)
MCFeedback == {<<10, 0>>}

\* One candidate that may be promoted, and one without a user behind it.
Few == {c \in ByHost : ~ c.inferred /\ c.complete /\ c.evidence = "other"}

\* One project's candidates, and one of the two values first.
FewNext ==
  /\ GovernedNext
  /\ \A k \in DOMAIN cands' : /\ cands'[k].what \in Few /\ cands'[k].project # All
                              /\ WritesBelief(cands'[k].what) \/ says'[k] = Elsewhere
  /\ Cardinality({i \in DOMAIN origin' : origin'[i] = 0}) <= MaxExtracted[kind]
  /\ beliefs' # <<>> => beliefs'[1].value = CHOOSE v \in BeliefValues : TRUE

\* The events that the call in progress will record.
Coming == {todo[k] : k \in {j \in DOMAIN todo : todo[j].do = "insert"}}

\* What the host numbered itself, or imported.
Hosted(e) == e.by = "host" /\ (e.turn # 0 \/ e.kind \in {"user", "assistant"})

\* Events that stand alone: of a task, or the kernel's own.
Lone == {"task", "internal"}

\* About the recorders: the ledger numbers every turn.  At any time one event
\* at most stands alone, and one has no text.
LedgerOnly ==
  /\ LedgerNext
  /\ \A e \in Coming' : /\ ~ Hosted(e)
                        /\ e.kind \in Lone => \A i \in Live : rows[i].kind \notin Lone
                        /\ e.body = "blank" => \A i \in Live : rows[i].body # "blank"

\* About the numbers, in one thread: hosts give them, and sources import them.
HostNumbers ==
  /\ LedgerNext /\ crashes' = 0
  /\ \A e \in Coming' : /\ e.body = "said" /\ e.kind \in {"user", "assistant", "tool_call"}
                        /\ \A i \in Live : rows[i].thread = e.thread

RecordsInit ==
  /\ focus \in Foci
  /\ LedgerInit /\ GovernedInit
  /\ focus = "governed" \/ kind = CHOOSE k \in Kinds : TRUE

RecordsNext ==
  \/ focus = "ledger" /\ LedgerOnly /\ UNCHANGED <<focus, governedVars>>
  \/ focus = "numbers" /\ HostNumbers /\ UNCHANGED <<focus, governedVars>>
  \/ focus = "governed" /\ FewNext /\ UNCHANGED <<focus, ledgerVars>>

RecordsSpec == RecordsInit /\ [][RecordsNext]_recordVars

\* BeliefProjects are those of the ledger.
RecordsSymmetry == Permutations(Projects) \cup Permutations(Threads)
====
