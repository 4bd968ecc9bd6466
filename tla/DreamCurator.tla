----------------------------- MODULE DreamCurator -----------------------------
(***************************************************************************)
(* The dream curator on top of the raw ledger: DreamCuratorWorker.run      *)
(* (src/engine/DreamCuratorWorker.ts), the coverage watermarks of          *)
(* DreamLedgerStore and the rows it records in DeepWriteCandidateStore.    *)
(*                                                                         *)
(* A run reads the watermark and a batch of undreamed raw events, waits    *)
(* for the memory model, and then records the run, its candidates and the  *)
(* new watermark in three separate commits.  The wait is an await: other   *)
(* runs, recordings and deletions happen meanwhile.  The commits after it  *)
(* are one synchronous stretch that only a crash can cut.                  *)
(*                                                                         *)
(* What a candidate says is left to the governance model.  Here a recorded *)
(* batch is the set of events it was built from, and the only candidates   *)
(* kept apart are the provider warnings, which later runs look up.         *)
(***************************************************************************)
EXTENDS RawLedger

CONSTANTS
  Global,     \* the scope of a run without a projectId
  Asked,      \* the scopes callers pass
  Runs,       \* the runDreamCurator calls that may be in progress at once
  Limits,     \* the batch limits callers pass
  Outcomes,   \* how the memory model may answer, a subset of Outcome
  MaxRuns     \* bound: the runs ever recorded

\* A fault stands for the reason of a warning with the text of the error, the
\* pair by which providerDiagnosticCandidate looks for one like it.
Fault   == {"exception", "invalid_output"}
Outcome == {"rule_only", "valid"} \cup Fault

ASSUME GlobalAssumption   == Global \notin Projects
ASSUME AskedAssumption    == Asked \subseteq Projects \cup {Global}
ASSUME LimitsAssumption   == Limits \subseteq Nat \ {0}
ASSUME OutcomesAssumption == Outcomes \subseteq Outcome
ASSUME RunsAssumption     == MaxRuns \in Nat

Scopes == Projects \cup {Global}

VARIABLES
  mark,     \* dream_ledger_state: last_dreamed_global_seq by scope, 0 if none
  log,      \* deep_write_runs in order of insertion, and what the host vouched
  warned,   \* active (needs_confirmation) provider warnings by scope and fault
  run       \* the runs in progress

dreamVars == <<mark, log, warned, run>>
vars      == <<ledgerVars, dreamVars>>

NoRun == [phase |-> "none", scope |-> Global, batch |-> {}, top |-> 0, fault |-> "none"]
RunState == [phase : {"none", "asking", "answered"}, scope : Scopes,
             batch : SUBSET Nat, top : Nat, fault : Fault \cup {"none"}]

\* events: what the run processed; done: its candidates are committed.
Recorded == [by : {"run", "host"}, scope : Scopes, events : SUBSET Nat, done : BOOLEAN]

-----------------------------------------------------------------------------
(* Reading. *)

\* event_type = RAW_EVENT_RECORDED, and the project filter if there is one.
InScope(i, s) == IsRaw(i) /\ (s = Global \/ rows[i].project = s)
\* Faulty variants: the event at the watermark too; the global watermark.
UndreamedFrom(s)     == {i \in Live : InScope(i, s) /\ rows[i].seq >= mark[s]}
UndreamedGlobally(s) == {i \in Live : InScope(i, s) /\ rows[i].seq > mark[Global]}
Undreamed(s)  == {i \in Live : InScope(i, s) /\ rows[i].seq > mark[s]}

\* Faulty variant: ORDER BY global_seq DESC LIMIT n.
LastBySeq(S, n) ==
  {i \in S : Cardinality({j \in S : rows[j].seq > rows[i].seq}) < n}

\* ORDER BY global_seq LIMIT n: the rows with fewer than n rows before them.
FirstBySeq(S, n) ==
  {i \in S : Cardinality({j \in S : rows[j].seq < rows[i].seq}) < n}

\* isDreamableEvent
Dreamable(i) == rows[i].body = "said"

\* The project filter of listCandidates: a run without a project sees all.
Listed(s) == IF s = Global THEN Scopes ELSE {s}
ActiveWarnings(s) == {w \in Listed(s) \X Fault : warned[w[1]][w[2]] > 0}

-----------------------------------------------------------------------------
(* The statements of a run. *)

RunStmt       == [do : {"run"}, scope : Scopes, events : SUBSET Nat]
CandStmt      == [do : {"candidates"}, scope : Scopes, fault : Fault \cup {"none"}]
MarkStmt      == [do : {"mark"}, scope : Scopes, top : Nat]
SupersedeStmt == [do : {"supersede"}, scope : Scopes]
DreamStmt     == RunStmt \cup CandStmt \cup MarkStmt \cup SupersedeStmt

Submit(stmts) == Idle /\ todo' = stmts /\ UNCHANGED <<rows, fts, up, born, crashes, orphaned, history>>

\* run, up to the await.  A run that finds nothing to do returns at once; one
\* that finds nothing dreamable does not ask the model.
StartRun(r, s, n) ==
  /\ Idle
  /\ run[r].phase = "none"
  /\ Undreamed(s) # {}
  /\ Len(log) + Cardinality({q \in Runs : run[q].phase # "none"}) < MaxRuns
  /\ LET batch == FirstBySeq(Undreamed(s), n)
     IN run' = [run EXCEPT ![r] =
                  [phase |-> IF \E i \in batch : Dreamable(i) THEN "asking" ELSE "answered",
                   scope |-> s, batch |-> batch,
                   top |-> Max({rows[i].seq : i \in batch}), fault |-> "none"]]
  /\ UNCHANGED <<ledgerVars, mark, log, warned>>

Answered(r, fault) ==
  run' = [run EXCEPT ![r].phase = "answered", ![r].fault = fault]

\* buildCandidates without a model.
AnswerRuleOnly(r) ==
  /\ Idle /\ run[r].phase = "asking"
  /\ Answered(r, "none")
  /\ UNCHANGED <<ledgerVars, mark, log, warned>>

\* Faulty variant: warns without looking for an active warning.
AnswerFaultAlways(r, f) ==
  /\ Idle /\ run[r].phase = "asking" /\ f \in Fault
  /\ Answered(r, f)
  /\ UNCHANGED <<ledgerVars, mark, log, warned>>

\* The model failed: a warning candidate, unless one like it is active.  The
\* 500 oldest waiting conclusions are looked through for it, here and when an
\* answer supersedes the warnings; there are never so many here.
AnswerFault(r, f) ==
  /\ Idle /\ run[r].phase = "asking" /\ f \in Fault
  /\ Answered(r, IF \E s \in Listed(run[r].scope) : warned[s][f] > 0 THEN "none" ELSE f)
  /\ UNCHANGED <<ledgerVars, mark, log, warned>>

\* The model answered: supersedeProviderWarnings, then the candidates.
AnswerValid(r) ==
  /\ run[r].phase = "asking"
  /\ Submit(<<[do |-> "supersede", scope |-> run[r].scope]>>)
  /\ Answered(r, "none")
  /\ UNCHANGED <<mark, log, warned>>

Answer(r) ==
  \/ "rule_only" \in Outcomes /\ AnswerRuleOnly(r)
  \/ \E f \in Outcomes \cap Fault : AnswerFault(r, f)
  \/ "valid" \in Outcomes /\ AnswerValid(r)

\* run, after the await: insertRun, insertCandidates, markDreamed.
RunStmts(r, top) ==
  LET s == run[r].scope
  IN <<[do |-> "run", scope |-> s, events |-> run[r].batch],
       [do |-> "candidates", scope |-> s, fault |-> run[r].fault],
       [do |-> "mark", scope |-> s, top |-> top]>>

Finish(r, stmts) ==
  /\ run[r].phase = "answered"
  /\ Submit(stmts)
  /\ run' = [run EXCEPT ![r] = NoRun]
  /\ UNCHANGED <<mark, log, warned>>

\* Faulty variants: the watermark goes to the newest event instead of the
\* batch's last; it stays where it is if nothing was dreamable.
FinishRunMarkNewest(r) ==
  Finish(r, RunStmts(r, Max({0} \cup {rows[i].seq : i \in Live})))
FinishRunIfDreamable(r) ==
  LET q == RunStmts(r, run[r].top)
  IN Finish(r, IF \E i \in run[r].batch \cap Live : Dreamable(i) THEN q ELSE <<q[1], q[2]>>)

FinishRun(r) == Finish(r, RunStmts(r, run[r].top))

\* MemoryKernel.markDreamed: the host has consolidated the scope by its own
\* means up to a raw event and moves the watermark forward.
MarkByHost(s, i) ==
  /\ Idle
  /\ Len(log) < MaxRuns
  /\ i \in Undreamed(s)
  /\ mark' = [mark EXCEPT ![s] = rows[i].seq]
  /\ log' = Append(log, [by |-> "host", scope |-> s, done |-> TRUE,
                         events |-> {j \in Live : InScope(j, s) /\ rows[j].seq <= rows[i].seq}])
  /\ UNCHANGED <<ledgerVars, warned, run>>

-----------------------------------------------------------------------------
(* Executing the statements of a run. *)

NextStmt == todo' = Tail(todo) /\ UNCHANGED <<rows, fts, up, born, crashes, orphaned, history>>

InsertRun ==
  /\ Doing("run")
  /\ log' = Append(log, [by |-> "run", scope |-> Head(todo).scope,
                         events |-> Head(todo).events, done |-> FALSE])
  /\ NextStmt
  /\ UNCHANGED <<mark, warned, run>>

\* insertCandidates: one transaction.
InsertCandidates ==
  /\ Doing("candidates")
  /\ log' = [log EXCEPT ![Len(log)].done = TRUE]
  /\ LET s == Head(todo).scope
         f == Head(todo).fault
     IN warned' = IF f = "none" THEN warned ELSE [warned EXCEPT ![s][f] = @ + 1]
  /\ NextStmt
  /\ UNCHANGED <<mark, run>>

\* markDreamed overwrites the watermark; it does not compare.
MarkDreamed ==
  /\ Doing("mark")
  /\ mark' = [mark EXCEPT ![Head(todo).scope] = Head(todo).top]
  /\ NextStmt
  /\ UNCHANGED <<log, warned, run>>

\* The loop of supersedeProviderWarnings, one updateCandidateStatus a step.
Supersede ==
  /\ Doing("supersede")
  /\ LET W == ActiveWarnings(Head(todo).scope)
     IN \/ /\ W = {} /\ NextStmt /\ UNCHANGED warned
        \/ \E w \in W : /\ warned' = [warned EXCEPT ![w[1]][w[2]] = @ - 1]
                        /\ UNCHANGED ledgerVars
  /\ UNCHANGED <<mark, log, run>>

\* A crash also loses the runs that were waiting for the model.
CrashAll == Crash /\ run' = [r \in Runs |-> NoRun] /\ UNCHANGED <<mark, log, warned>>

-----------------------------------------------------------------------------

Init ==
  /\ LedgerInit
  /\ mark = [s \in Scopes |-> 0]
  /\ log = <<>>
  /\ warned = [s \in Scopes |-> [f \in Fault |-> 0]]
  /\ run = [r \in Runs |-> NoRun]

LedgerStep ==
  /\ Record \/ Statement \/ Open \/ \E p \in Forgettable : ForgetUser(p)
  /\ UNCHANGED dreamVars

DreamStatement == InsertRun \/ InsertCandidates \/ MarkDreamed \/ Supersede

\* The steps of the curator and the ledger, without a host that marks.
CuratorNext ==
  \/ LedgerStep
  \/ \E r \in Runs, s \in Asked, n \in Limits : StartRun(r, s, n)
  \/ \E r \in Runs : Answer(r) \/ FinishRun(r)
  \/ DreamStatement
  \/ CrashAll

CuratorSpec == Init /\ [][CuratorNext]_vars

Next == CuratorNext \/ \E s \in Asked, i \in Live : MarkByHost(s, i)

Spec == Init /\ [][Next]_vars

\* What the code and its host give: a synchronous call runs to its end, the
\* model call settles (its client has a timeout), the process is restarted,
\* and `cogmem memory dream --watch` starts another run of its scope whenever
\* one has ended.  Nothing is assumed of the recorders.
Fairness ==
  /\ WF_vars(LedgerStep /\ (Statement \/ Open))
  /\ WF_vars(DreamStatement)
  /\ \A r \in Runs : WF_vars(Answer(r)) /\ WF_vars(FinishRun(r))
  /\ \A s \in Asked : WF_vars(\E r \in Runs, n \in Limits : StartRun(r, s, n))

FairSpec == CuratorSpec /\ Fairness

-----------------------------------------------------------------------------
(* Properties. *)

Logged(s, i) == \E k \in DOMAIN log : /\ log[k].scope = s /\ log[k].done
                                      /\ i \in log[k].events

\* Type invariant of the ledger and the curator together.
DreamTypeOK ==
  /\ LedgerTypeOK
  /\ mark \in [Scopes -> Nat]
  /\ log \in Seq(Recorded)
  /\ warned \in [Scopes -> [Fault -> Nat]]
  /\ run \in [Runs -> RunState]
  /\ todo \in Seq(LedgerStmt \cup DreamStmt)

\* "It advances dream ledger coverage only after the batch is recorded"
\* (MEMORY_MODEL.md:54): every raw event the watermark of a scope covers is in
\* a batch recorded with its candidates for that scope, through overlapping
\* runs, crashes and deletions; except events whose global_seq was given
\* before to an event since deleted.
CoverageRecorded ==
  \A s \in Scopes : \A i \in Live \ recycled :
    InScope(i, s) /\ rows[i].seq <= mark[s] => Logged(s, i)

\* The same without the exception.
CoverageHonest ==
  \A s \in Scopes : \A i \in Live :
    InScope(i, s) /\ rows[i].seq <= mark[s] => Logged(s, i)

\* An event is dreamed again only because of a crash: with one run at a time
\* it is in at most one batch of a scope per crash, plus one.
RedreamBound ==
  \A s \in Scopes : \A i \in 1..born :
    Cardinality({k \in DOMAIN log : log[k].scope = s /\ i \in log[k].events})
      <= 1 + crashes

\* With one run at a time a broken provider leaves one active warning of a
\* kind and scope, however many runs it fails.
WarnedOnce == \A s \in Scopes, f \in Fault : warned[s][f] <= 1

\* With one run at a time the watermark of a scope never moves back.
MarkMonotone == [][\A s \in Scopes : mark'[s] >= mark[s]]_vars

\* The backlog does not pile up: a raw event is eventually in a recorded
\* batch of each watched scope it belongs to, unless it is forgotten or got a
\* recycled global_seq.
Drains ==
  \A s \in Asked : \A i \in 1..MaxEvents :
    (i \in Live /\ InScope(i, s)) ~> (i \notin Live \/ i \in recycled \/ Logged(s, i))

=============================================================================
