---- MODULE RememberQueue ----
(***************************************************************************)
(* The turns an OpenClaw session hands over to be remembered: the plugin   *)
(* and the bridge that AutoMemoryPluginInstaller                           *)
(* (src/src/host/openclaw/AutoMemoryPluginInstaller.ts) writes into the    *)
(* workspace.                                                              *)
(*                                                                         *)
(* The host appends a job to the queue file when a turn ends, and spawns a *)
(* process that drains the file.  Several of these processes may run; a    *)
(* directory beside the file is their lock.  The holder renames the queue  *)
(* file, remembers its jobs one by one, appends those that fail to the     *)
(* queue file again, or to the dead letters at their last attempt, removes *)
(* the renamed file and then the lock.                                     *)
(*                                                                         *)
(* A job is remembered by several calls: one may fail after the turn was   *)
(* recorded.  A process may be killed at any time; the host may restart    *)
(* and forget which turn it has seen last.  One session is modelled, and   *)
(* an append to the queue file is one step.                                *)
(***************************************************************************)
EXTENDS Naturals, Sequences, FiniteSets

CONSTANTS
  TurnCount,      \* turns of the session
  KeyOf,          \* lengths and first characters of a turn's texts
  Drainers,       \* bound on the processes alive at a time
  MaxAttempts,    \* config.rememberMaxAttempts
  MaxKills, MaxHostRestarts

Turns == 1..TurnCount

ASSUME RememberAssumption ==
  /\ TurnCount \in Nat
  /\ DOMAIN KeyOf = Turns
  /\ MaxAttempts \in Nat \ {0}
  /\ MaxKills \in Nat /\ MaxHostRestarts \in Nat

VARIABLES
  ended,          \* turns that have ended
  seenTurn,       \* seenTurns of the session: the turn whose key it holds; 0: none
  enqueued,       \* number of jobs ever appended for a turn
  file,           \* openclaw-remember.jsonl; <<>>: it does not exist
  locked,         \* the lock directory exists
  drain,          \* the drain processes
  deadLetters,    \* turns with a job in openclaw-remember.jsonl.dead.jsonl
  stranded,       \* turns with an unhandled job in a killed process's file
  recordings,     \* times a turn was recorded in the raw ledger
  kills, hostRestarts

rememberVars == <<ended, seenTurn, enqueued, file, locked, drain, deadLetters,
                  stranded, recordings, kills, hostRestarts>>

Gone == [at |-> "gone", jobs |-> <<>>]
Jobs == [turn : Turns, attempts : 0..(MaxAttempts - 1)]
JobsOf(q) == {q[i].turn : i \in DOMAIN q}

----------------------------------------------------------------------------
(* The plugin, in the host's process. *)

\* seenTurns.get(sessionId) === key
DuplicateTurn(turn) == seenTurn # 0 /\ KeyOf[seenTurn] = KeyOf[turn]

\* on agent_end: the next turn, or the last one told once more.
TurnEnds(turn) ==
  /\ turn \in {ended, ended + 1} \cap Turns
  /\ ended' = turn
  /\ seenTurn' = turn
  /\ \/ /\ DuplicateTurn(turn)
        /\ UNCHANGED <<enqueued, file, drain>>
     \/ /\ ~ DuplicateTurn(turn)
        /\ enqueued' = [enqueued EXCEPT ![turn] = @ + 1]
        /\ file' = Append(file, [turn |-> turn, attempts |-> 0])
        /\ \E d \in Drainers : /\ drain[d] = Gone
                               /\ drain' = [drain EXCEPT ![d].at = "spawned"]
  /\ UNCHANGED <<locked, deadLetters, stranded, recordings, kills, hostRestarts>>

HostRestarts ==
  /\ hostRestarts < MaxHostRestarts
  /\ hostRestarts' = hostRestarts + 1
  /\ seenTurn' = 0
  /\ UNCHANGED <<ended, enqueued, file, locked, drain, deadLetters, stranded,
                 recordings, kills>>

----------------------------------------------------------------------------
(* The drain processes. *)

drainUnchanged == UNCHANGED <<ended, seenTurn, enqueued, kills, hostRestarts>>

FindQueue(d) ==
  /\ drain[d].at = "spawned"
  /\ drain' = [drain EXCEPT ![d] = IF file = <<>> THEN Gone ELSE [@ EXCEPT !.at = "found"]]
  /\ UNCHANGED <<file, locked, deadLetters, stranded, recordings>>
  /\ drainUnchanged

\* mkdirSync(lockPath): one process makes the directory, the others leave.
TakeLock(d) ==
  /\ drain[d].at = "found"
  /\ locked' = TRUE
  /\ drain' = [drain EXCEPT ![d] = IF locked THEN Gone ELSE [@ EXCEPT !.at = "holds"]]
  /\ UNCHANGED <<file, deadLetters, stranded, recordings>>
  /\ drainUnchanged

\* A mutant: the process whose queue was drained meanwhile leaves the lock.
HeldWhenDrained == TRUE

\* The lock after a process found no queue any more.
LockWhenDrained == FALSE

\* The queue is looked for again, and renamed.
TakeQueue(d) ==
  /\ drain[d].at = "holds"
  /\ IF file = <<>>
     THEN locked' = LockWhenDrained /\ drain' = [drain EXCEPT ![d] = Gone]
     ELSE UNCHANGED locked /\ drain' = [drain EXCEPT ![d] = [at |-> "drains", jobs |-> file]]
  /\ file' = <<>>
  /\ UNCHANGED <<deadLetters, stranded, recordings>>
  /\ drainUnchanged

\* The turn's record and all that comes with it were written.
Remember(d) ==
  /\ drain[d].at = "drains" /\ drain[d].jobs # <<>>
  /\ recordings' = [recordings EXCEPT ![Head(drain[d].jobs).turn] = @ + 1]
  /\ drain' = [drain EXCEPT ![d].jobs = Tail(@)]
  /\ UNCHANGED <<file, locked, deadLetters, stranded>>
  /\ drainUnchanged

Tried(job) == [job EXCEPT !.attempts = @ + 1]

\* A mutant: a job is buried one attempt late, and dropped before.
BuriedLate(job) == Tried(job).attempts > MaxAttempts

Buried(job) == Tried(job).attempts >= MaxAttempts

\* A call threw, before or after the turn was recorded.
FailToRemember(d, recorded) ==
  LET job == Head(drain[d].jobs)
  IN /\ drain[d].at = "drains" /\ drain[d].jobs # <<>>
     /\ recordings' = [recordings EXCEPT ![job.turn] = @ + IF recorded THEN 1 ELSE 0]
     /\ file' = IF Tried(job).attempts < MaxAttempts THEN Append(file, Tried(job)) ELSE file
     /\ deadLetters' = IF Buried(job) THEN deadLetters \cup {job.turn} ELSE deadLetters
     /\ drain' = [drain EXCEPT ![d].jobs = Tail(@)]
     /\ UNCHANGED <<locked, stranded>>
     /\ drainUnchanged

\* The renamed file and the lock are removed.
EndDrain(d) ==
  /\ drain[d].at = "drains" /\ drain[d].jobs = <<>>
  /\ drain' = [drain EXCEPT ![d] = Gone]
  /\ locked' = FALSE
  /\ UNCHANGED <<file, deadLetters, stranded, recordings>>
  /\ drainUnchanged

\* The process is killed: its lock and its file stay.
Kill(d) ==
  /\ drain[d] # Gone
  /\ kills < MaxKills
  /\ kills' = kills + 1
  /\ drain' = [drain EXCEPT ![d] = Gone]
  /\ stranded' = stranded \cup JobsOf(drain[d].jobs)
  /\ UNCHANGED <<ended, seenTurn, enqueued, file, locked, deadLetters, recordings, hostRestarts>>

----------------------------------------------------------------------------

RememberInit ==
  /\ ended = 0 /\ seenTurn = 0
  /\ enqueued = [turn \in Turns |-> 0]
  /\ file = <<>> /\ locked = FALSE
  /\ drain = [d \in Drainers |-> Gone]
  /\ deadLetters = {} /\ stranded = {}
  /\ recordings = [turn \in Turns |-> 0]
  /\ kills = 0 /\ hostRestarts = 0

DrainStep(d) ==
  \/ FindQueue(d) \/ TakeLock(d) \/ TakeQueue(d) \/ Remember(d) \/ EndDrain(d)
  \/ \E recorded \in BOOLEAN : FailToRemember(d, recorded)

RememberNext ==
  \/ \E turn \in Turns : TurnEnds(turn)
  \/ HostRestarts
  \/ \E d \in Drainers : DrainStep(d) \/ Kill(d)

RememberSpec == RememberInit /\ [][RememberNext]_rememberVars

\* A process that is not killed runs on, and what it awaits settles.
RememberFairness == \A d \in Drainers : WF_rememberVars(DrainStep(d))

----------------------------------------------------------------------------

\* The variables have their types.
RememberTypeOK ==
  /\ ended \in 0..TurnCount /\ seenTurn \in 0..TurnCount
  /\ enqueued \in [Turns -> Nat] /\ recordings \in [Turns -> Nat]
  /\ file \in Seq(Jobs)
  /\ locked \in BOOLEAN
  /\ drain \in [Drainers -> [at : {"gone", "spawned", "found", "holds", "drains"},
                             jobs : Seq(Jobs)]]
  /\ deadLetters \subseteq Turns /\ stranded \subseteq Turns
  /\ kills \in 0..MaxKills /\ hostRestarts \in 0..MaxHostRestarts

\* A turn whose job is still somewhere a process reads or a person looks, or
\* that was recorded.
InHand(turn) ==
  \/ turn \in JobsOf(file)
  \/ \E d \in Drainers : turn \in JobsOf(drain[d].jobs)
  \/ recordings[turn] > 0
  \/ turn \in deadLetters

\* A job is dropped by no failure and no rename, whatever processes overlap: it
\* is only lost with a process that was killed.  A turn is only left out when
\* its key is that of the turn before.  Retries may record a turn again, but a
\* job at most as often as the configuration allows attempts.
KeptUnlessKilled ==
  \A turn \in 1..ended :
    /\ \/ InHand(turn)
       \/ turn \in stranded /\ kills > 0
       \/ enqueued[turn] = 0 /\ turn > 1 /\ KeyOf[turn] = KeyOf[turn - 1]
    /\ recordings[turn] <= MaxAttempts * enqueued[turn]

\* Unless a process was killed, the lock is always released again, and the jobs
\* a process has taken are all handled.
Unlocked == locked ~> (~ locked \/ kills > 0)

\* examples/openclaw-backend/SKILL.md:211: "If a drain fails, the job is retried
\* and then moved to a dead-letter file instead of being silently discarded."
NotDiscarded == \A turn \in Turns : enqueued[turn] > 0 => InHand(turn)
====
