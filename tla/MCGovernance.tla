---- MODULE MCGovernance ----
(***************************************************************************)
(* One run, three families of behaviours: single candidates of every       *)
(* profile; pairs of candidates, in one run or in two; three candidates    *)
(* that fill the limit of a pass.                                          *)
(***************************************************************************)
EXTENDS CandidateGovernance, TLC

CONSTANT Families

VARIABLE family

familyVars == <<family, governanceVars>>

\* Complete candidates with a word of the user.
Pairs == {c \in ByRules \cup {h \in ByHost : /\ h.conf = 90
                                           /\ h.type \in {"preference", "entity", "relation"}} :
            c.complete /\ c.evidence = "user"}

\* Relations that are kept and relations that are decided.
Queued == {c \in Pairs : c.type = "relation" /\ c.explicit}

FamilyInit == family \in Families /\ GovernanceInit

FamilyNext ==
  /\ UNCHANGED family
  /\ \/ family = "cases" /\ cands = <<>> /\ ProposeAmong(Produced, Modes, {1})
     \/ family = "pairs" /\ ProposeAmong(Pairs, {"candidate"}, BatchSizes)
        /\ Len(cands') <= 2
     \/ family = "queue" /\ ProposeAmong(Queued, {"candidate"}, {1})
     \/ PassNext

FamilySpec == FamilyInit /\ [][FamilyNext]_familyVars

FamilyFairSpec == FamilySpec /\ GovernanceFairness
====
