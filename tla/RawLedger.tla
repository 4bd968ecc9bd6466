------------------------------ MODULE RawLedger ------------------------------
(***************************************************************************)
(* The chronological memory ledger: the table memory_events of             *)
(* src/store/EventStore.ts, its full-text index memory_events_fts, and the *)
(* calls that write them: the recorders of MemoryKernel (src/factory.ts)   *)
(* and the raw half of KernelAgentMemoryBackend.rememberTurnWithResult.    *)
(*                                                                         *)
(* One process writes (CONCURRENT_ACCESS.md: one writer at a time), and    *)
(* each of these calls is synchronous, so no other task of the process     *)
(* runs before it returns.  But a call is several SQL statements, each     *)
(* committed on its own: the variable todo holds the statements the call   *)
(* in progress has still to execute, and a crash drops them.               *)
(*                                                                         *)
(* Event ids are random UUIDs in the code.  Here they are numbered in the  *)
(* order of the INSERTs, so that properties can speak of that order; no    *)
(* action compares ids.  0 stands for a NULL column.                       *)
(***************************************************************************)
EXTENDS Integers, Sequences, FiniteSetsExt, Functions

CONSTANTS
  Projects,    \* project ids
  Threads,     \* thread ids; the stream id of a raw event is its thread id
  NoThread,    \* the NULL thread_id of the kernel's own events
  Bodies,      \* what a user message may contain, a subset of Body
  Recorders,   \* the recorders the host uses, a subset of Recorder
  HostTurns,   \* the turn numbers a host may give itself; 0 is stored as NULL
  Forgettable, \* the projects whose deletion may be requested
  MaxEvents,   \* bound: the events ever appended
  MaxCrashes   \* bound: the crashes

\* No text at all; text that isOperationalNoiseText drops; any other text.
Body == {"blank", "noise", "said"}
Kind == {"user", "assistant", "tool_call", "tool_result", "task", "internal"}
Recorder == {"turn", "tool", "task", "internal", "import"}
NotGiven == -1   \* the host leaves the number of its turn to the ledger

ASSUME NoThreadAssumption == NoThread \notin Threads
ASSUME BoundsAssumption   == MaxEvents \in Nat /\ MaxCrashes \in Nat
ASSUME BodiesAssumption   == Bodies \subseteq Body /\ Recorders \subseteq Recorder
ASSUME ForgetAssumption   == Forgettable \subseteq Projects
ASSUME TurnsAssumption    == HostTurns \subseteq Nat

VARIABLES
  rows,     \* memory_events: the live rows, by event id
  fts,      \* the event ids that have a row in memory_events_fts
  todo,     \* the statements left in the synchronous call in progress
  up,       \* the process runs and holds the database open
  born,     \* history: the events ever inserted
  crashes,  \* history: the crashes so far
  orphaned, \* history: rows were deleted since memory_events_fts was wiped
  peak,     \* history: the highest global_seq ever given
  recycled  \* history: the events given a global_seq that was given before

history    == <<peak, recycled>>
ledgerVars == <<rows, fts, todo, up, born, crashes, orphaned, history>>

Live       == DOMAIN rows
IsRaw(i)   == rows[i].thread # NoThread   \* event_type = RAW_EVENT_RECORDED
HasText(i) == rows[i].body # "blank"      \* extractIndexText is not empty

\* by is a history column: who numbered the turn, the ledger or the host.
Row == [project : Projects, thread : Threads \cup {NoThread}, kind : Kind,
        body : Body, seq : Nat, tseq : Nat, turn : Nat, by : {"ledger", "host"},
        prev : Nat, next : Nat]

\* COALESCE(MAX(column), 0) + 1
NextAfter(S)     == Max(S \cup {0}) + 1
OfThread(t)      == {i \in Live : rows[i].thread = t}
\* Faulty variant: COUNT(*) + 1.
NextGlobalSeqByCount == Cardinality(Live) + 1
NextGlobalSeq    == NextAfter({rows[i].seq : i \in Live})
\* event_version is numbered over the same rows (a raw event's stream is its
\* thread), so it always equals thread_seq and is not kept apart.
NextThreadSeq(t) == NextAfter({rows[i].tseq : i \in OfThread(t)})
\* Faulty variant: one more than the turns counted.
NextTurnSeqByCount(t) == Cardinality({i \in OfThread(t) : rows[i].kind = "user"}) + 1
NextTurnSeq(t)   == NextAfter({rows[i].turn : i \in OfThread(t)})

-----------------------------------------------------------------------------
(* Statements: what a call hands to SQLite, in order. *)

InsertStmt == [do : {"insert"}, project : Projects,
               thread : Threads \cup {NoThread}, kind : Kind, body : Body,
               turn : Nat, by : {"ledger", "host"}, prev : Nat]
IndexStmt  == [do : {"index"}, ids : SUBSET Nat]
LinkStmt   == [do : {"link"}, id : Nat, to : Nat]
WipeStmt   == [do : {"wipe"}]
LedgerStmt == InsertStmt \cup IndexStmt \cup LinkStmt \cup WipeStmt

InsertOf(p, t, kind, body, turn, by, prev) ==
  [do |-> "insert", project |-> p, thread |-> t, kind |-> kind,
   body |-> body, turn |-> turn, by |-> by, prev |-> prev]
Index(S)   == [do |-> "index", ids |-> S]
Link(i, j) == [do |-> "link", id |-> i, to |-> j]
Wipe       == [do |-> "wipe"]

\* EventStore.append of the n-th event from now: the INSERT, then
\* upsertRawEventFts.
AppendEvent(n, insert) == <<insert, Index({born + n})>>

Idle == up /\ todo = <<>>

\* A synchronous call of n appends starts.
Call(n, stmts) ==
  /\ Idle
  /\ born + n <= MaxEvents
  /\ todo' = stmts
  /\ UNCHANGED <<rows, fts, up, born, crashes, orphaned, history>>

-----------------------------------------------------------------------------
(* The recorders. *)

\* rememberTurnWithResult, the part that records: the user event, and if the
\* agent answered the assistant event and the link from the one to the other.
\* The host may give the number of its turn; else it is the thread's next.
RecordTurn(p, t, said, answered, given) ==
  LET by    == IF given = NotGiven THEN "ledger" ELSE "host"
      turn  == IF given = NotGiven THEN NextTurnSeq(t) ELSE given
      u     == born + 1
      user  == AppendEvent(1, InsertOf(p, t, "user", said, turn, by, 0))
      reply == AppendEvent(2, InsertOf(p, t, "assistant", "said", turn, by, u))
  IN IF answered THEN Call(2, user \o reply \o <<Link(u, u + 1)>>)
                 ELSE Call(1, user)

\* Faulty variant: the parent is linked to the call but not stored with it.
RecordToolCallUnparented(p, t, a, turn) ==
  /\ a \in OfThread(t)
  /\ rows[a].kind = "assistant" /\ rows[a].project = p
  /\ Call(1, AppendEvent(1, InsertOf(p, t, "tool_call", "said", turn, "host", 0))
            \o <<Link(a, born + 1)>>)

\* recordToolCall: the host may name the assistant event that made the call,
\* and the turn, which is stored as given.
RecordToolCall(p, t, a, turn) ==
  /\ a # 0 => /\ a \in OfThread(t)
              /\ rows[a].kind = "assistant" /\ rows[a].project = p
  /\ LET call == AppendEvent(1, InsertOf(p, t, "tool_call", "said", turn, "host", a))
     IN Call(1, IF a = 0 THEN call ELSE call \o <<Link(a, born + 1)>>)

\* recordToolResult: the host names the tool call it has run, which a privacy
\* deletion may have removed since.
RecordToolResult(p, t, c, turn) ==
  /\ c \in Live => /\ c \in OfThread(t)
                   /\ rows[c].kind = "tool_call" /\ rows[c].project = p
  /\ Call(1, AppendEvent(1, InsertOf(p, t, "tool_result", "said", turn, "host", c))
            \o <<Link(c, born + 1)>>)

\* recordTaskEvent: an optional parent, and no forward link.
RecordTaskEvent(p, t, parent, turn) ==
  /\ parent # 0 => parent \in OfThread(t) /\ rows[parent].project = p
  /\ Call(1, AppendEvent(1, InsertOf(p, t, "task", "said", turn, "host", parent)))

\* recordRawImportedEvidence: a message of a source, of its user or its agent,
\* with the number its adapter chose, by itself: no link leads to it or from it.
RecordImported(p, t, kind, said, turn) ==
  Call(1, AppendEvent(1, InsertOf(p, t, kind, said, turn, "host", 0)))

\* An event of the kernel's own (INGESTED, TOPOLOGY_COMPILED, the belief and
\* metabolism events): no thread and no text, but it takes a global_seq.
AppendInternal(p) ==
  Call(1, AppendEvent(1, InsertOf(p, NoThread, "internal", "blank", 0, "host", 0)))

-----------------------------------------------------------------------------
(* Executing the next statement of the call in progress. *)

Doing(kind) == up /\ todo # <<>> /\ Head(todo).do = kind

\* append, up to and including the INSERT: the MAX(...) + 1 are read just
\* before it and nothing writes in between.
Insert ==
  /\ Doing("insert")
  /\ LET s   == Head(todo)
         new == [project |-> s.project, thread |-> s.thread, kind |-> s.kind,
                 body |-> s.body, seq |-> NextGlobalSeq,
                 tseq |-> IF s.thread = NoThread THEN 0 ELSE NextThreadSeq(s.thread),
                 turn |-> s.turn, by |-> s.by, prev |-> s.prev, next |-> 0]
     IN rows' = [i \in Live \cup {born + 1} |->
                   IF i = born + 1 THEN new ELSE rows[i]]
  /\ born' = born + 1
  /\ peak' = Max({peak, NextGlobalSeq})
  /\ recycled' = IF NextGlobalSeq <= peak THEN recycled \cup {born + 1} ELSE recycled
  /\ todo' = Tail(todo)
  /\ UNCHANGED <<fts, up, crashes, orphaned>>

\* upsertRawEventFts of one event: DELETE, then INSERT unless there is no
\* text.  The rebuild calls it for every row in the order of global_seq.
IndexText ==
  /\ Doing("index")
  /\ LET S == Head(todo).ids
         i == CHOOSE i \in S : \A j \in S : rows[i].seq <= rows[j].seq
     IN /\ fts' = IF HasText(i) THEN fts \cup {i} ELSE fts \ {i}
        /\ todo' = IF S = {i} THEN Tail(todo)
                              ELSE <<Index(S \ {i})>> \o Tail(todo)
  /\ UNCHANGED <<rows, up, born, crashes, orphaned, history>>

\* Faulty variant: an upsert, which creates the row it does not find.
LinkNextUpsert ==
  /\ Doing("link")
  /\ LET s == Head(todo)
     IN rows' = [i \in Live \cup {s.id} |->
                   IF i \notin Live THEN [next |-> s.to]
                   ELSE IF i = s.id THEN [rows[i] EXCEPT !.next = s.to] ELSE rows[i]]
  /\ todo' = Tail(todo)
  /\ UNCHANGED <<fts, up, born, crashes, orphaned, history>>

\* updateNextEventId: overwrites, and does nothing when the row is gone.
LinkNext ==
  /\ Doing("link")
  /\ LET s == Head(todo)
     IN rows' = [i \in Live |-> IF i = s.id THEN [rows[i] EXCEPT !.next = s.to]
                                            ELSE rows[i]]
  /\ todo' = Tail(todo)
  /\ UNCHANGED <<fts, up, born, crashes, orphaned, history>>

WipeIndex ==
  /\ Doing("wipe")
  /\ fts' = {}
  /\ orphaned' = FALSE
  /\ todo' = Tail(todo)
  /\ UNCHANGED <<rows, up, born, crashes, history>>

-----------------------------------------------------------------------------
(* Deletion, crash and restart. *)

\* forgetUser: one transaction deletes the project's rows of memory_events;
\* memory_events_fts is not touched.
ForgetUser(p) ==
  /\ Idle
  /\ \E i \in Live : rows[i].project = p
  /\ rows' = Restrict(rows, {i \in Live : rows[i].project # p})
  /\ orphaned' = TRUE
  /\ UNCHANGED <<fts, todo, up, born, crashes, history>>

Crash ==
  /\ up
  /\ crashes < MaxCrashes
  /\ up' = FALSE
  /\ todo' = <<>>
  /\ crashes' = crashes + 1
  /\ UNCHANGED <<rows, fts, born, orphaned, history>>

\* Faulty variant: the index is rebuilt only when it is empty.
OpenUnlessEmpty ==
  /\ ~up
  /\ up' = TRUE
  /\ todo' = IF fts # {} \/ Live = {} THEN <<>> ELSE <<Wipe, Index(Live)>>
  /\ UNCHANGED <<rows, fts, born, crashes, orphaned, history>>

\* The constructor of EventStore ends with rebuildRawEventFtsIfNeeded, which
\* compares only the number of index rows with the number of events.
Open ==
  /\ ~up
  /\ up' = TRUE
  /\ todo' = IF Cardinality(fts) >= Cardinality(Live) THEN <<>>
                                                      ELSE <<Wipe, Index(Live)>>
  /\ UNCHANGED <<rows, fts, born, crashes, orphaned, history>>

-----------------------------------------------------------------------------

LedgerInit ==
  /\ rows = <<>>      \* the function with the empty domain
  /\ fts = {}
  /\ todo = <<>>
  /\ up = TRUE
  /\ born = 0
  /\ crashes = 0
  /\ orphaned = FALSE
  /\ peak = 0
  /\ recycled = {}

\* Without a number from the host the column is NULL.
HostTurn == HostTurns \cup {0}

Record ==
  \E p \in Projects :
    \/ /\ "turn" \in Recorders
       /\ \E t \in Threads, said \in Bodies, answered \in BOOLEAN,
             given \in HostTurns \cup {NotGiven} :
            RecordTurn(p, t, said, answered, given)
    \/ /\ "tool" \in Recorders
       /\ \E t \in Threads, turn \in HostTurn :
            \/ \E a \in Live \cup {0} : RecordToolCall(p, t, a, turn)
            \/ \E c \in 1..born : RecordToolResult(p, t, c, turn)
    \/ /\ "task" \in Recorders
       /\ \E t \in Threads, i \in Live \cup {0}, turn \in HostTurn :
            RecordTaskEvent(p, t, i, turn)
    \/ /\ "import" \in Recorders
       /\ \E t \in Threads, kind \in {"user", "assistant"}, said \in Bodies, turn \in HostTurn :
            RecordImported(p, t, kind, said, turn)
    \/ "internal" \in Recorders /\ AppendInternal(p)

Statement == Insert \/ IndexText \/ LinkNext \/ WipeIndex

LedgerNext ==
  \/ Record
  \/ Statement
  \/ \E p \in Forgettable : ForgetUser(p)
  \/ Crash
  \/ Open

LedgerSpec == LedgerInit /\ [][LedgerNext]_ledgerVars

-----------------------------------------------------------------------------
(* Properties. *)

\* The types of the ledger's state: the live rows are among the rows ever
\* inserted and have all their columns, and the index holds ids of such rows.
LedgerTypeOK ==
  /\ Live \subseteq 1..born
  /\ rows \in [Live -> Row]
  /\ fts \subseteq 1..born
  /\ up \in BOOLEAN /\ orphaned \in BOOLEAN
  /\ born \in Nat /\ crashes \in Nat /\ peak \in Nat
  /\ recycled \subseteq 1..born

\* Type invariant: the state, and the statements of the call in progress.
TypeOK == LedgerTypeOK /\ todo \in Seq(LedgerStmt)

\* global_seq and thread_seq order the ledger by time of recording, without
\* ties, whatever was deleted or lost in between: replay by thread_seq
\* (getThreadEvents) and by global_seq (the curator) is the recording order,
\* and UNIQUE(stream_id, event_version) never fires.
ReplayOrder ==
  \A i, j \in Live : i < j =>
    /\ rows[i].seq < rows[j].seq
    /\ rows[i].thread = rows[j].thread /\ IsRaw(i) => rows[i].tseq < rows[j].tseq

\* A turn is recorded without anything of its thread in between: the reply's
\* prompt, unless a privacy deletion took it, is the event just before it in
\* the thread and has its turn.  And a number the ledger itself gives a turn
\* (getNextTurnSeq) is new to the thread: no earlier event has it but the
\* prompt, whatever numbers hosts and imports gave.  (A number they give may
\* be in use, and nothing refuses it.)
TurnWhole ==
  /\ \A a \in Live : rows[a].kind = "assistant" /\ rows[a].prev \in Live =>
       LET u == rows[a].prev
       IN /\ rows[u].kind = "user"
          /\ rows[u].turn = rows[a].turn
          /\ \A i \in OfThread(rows[a].thread) : i <= u \/ i >= a
  /\ \A j \in Live : rows[j].by = "ledger" =>
       \A i \in OfThread(rows[j].thread) : i < j /\ rows[i].turn = rows[j].turn =>
         rows[j].kind = "assistant" /\ rows[j].prev = i

\* Forward links agree with backward links: a next_event_id that leads to a
\* live event leads to one recorded later that names this event as its
\* previous one.
LinksAgree ==
  \A i \in Live : rows[i].next \in Live =>
    /\ rows[i].next > i
    /\ rows[rows[i].next].prev = i

\* Once a call or the constructor is done, every live event with text is in
\* the search index, crashes included, if no rows were deleted under the index.
IndexComplete == Idle /\ ~orphaned => fts = {i \in Live : HasText(i)}

=============================================================================
