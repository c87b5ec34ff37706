-------------------------- MODULE CampaignPipeline --------------------------
(***************************************************************************)
(* The write path of one campaign: request handlers and analysis tasks     *)
(* append events to the Postgres event store and apply some of them to the *)
(* projection themselves, while every API server follows the store through *)
(* LISTEN/NOTIFY and applies each event it hears of once more.             *)
(*                                                                         *)
(* A task is one handler at work.  Each of its awaits is a step of its     *)
(* own, so that tasks interleave where the code lets them:                 *)
(*                                                                         *)
(*   idle -> write -> (remember) -> read -> sync -> done                   *)
(*                                                                         *)
(* "write" appends the events of `todo` one by one (append_many is a loop  *)
(* of single inserts), "read" loads the stream, "sync" applies the events  *)
(* of the set `sync` in ascending order.  "failed" is a task that raised   *)
(* or was cancelled.                                                       *)
(***************************************************************************)
EXTENDS CampaignProjector, Sequences, FiniteSets

CONSTANTS
  Servers,    \* API servers, each with a tail queue of its own
  Requests,   \* HTTP, MCP and websocket requests about the campaign
  Analysts,   \* analyze_completion tasks that the tail loops may spawn
  Menu,       \* the kinds of request that arrive
  MaxSeq,     \* bound: sequence numbers ever allocated
  TailMax,    \* EVENT_TAIL_QUEUE_MAX, the capacity of a tail queue
  MaxFaults   \* bound: exceptions, cancellations, restarts and expired keys

RequestKinds ==
  {"create", "refine", "settings", "start", "close", "dispatch", "interview", "mcp_read"}

ASSUME MenuAssumption  == Menu \subseteq RequestKinds
ASSUME BoundAssumption == MaxSeq \in Nat /\ MaxSeq >= 3 /\ TailMax \in Nat /\ MaxFaults \in Nat
ASSUME TaskAssumption  == Requests \cap Analysts = {}

VARIABLES
  log,        \* the events table: sequence number -> kind of the committed event
  lastSeq,    \* the last value BIGSERIAL gave out, committed or not
  task,       \* the handlers
  row,        \* the campaign's row in `campaigns`
  progress,   \* its row in `progress_snapshots`
  insights,   \* its rows in `insights`
  memory,     \* TRUE while harness memory holds the campaign's org_id and spec
  notified,   \* per server: notifications whose on_notify task has not ended
  tail,       \* per server: the queue between on_notify and the tail loop
  faults      \* exceptions, cancellations, restarts and expired keys so far

vars == <<log, lastSeq, task, row, progress, insights, memory, notified, tail, faults>>
tables == <<row, progress, insights>>

Tasks == Requests \cup Analysts
Kinds == RequestKinds \cup {"analyze", "none"}

-----------------------------------------------------------------------------
\* The events a handler appends, in order.
Plan(kind) ==
  CASE kind = "create"                 -> <<"StudyDrafted", "SpecUpdated">>
    [] kind \in {"refine", "settings"} -> <<"SpecUpdated">>
    [] kind = "start"                  -> <<"CampaignPublished">>
    [] kind = "close"                  -> <<"CampaignClosed">>
    [] kind = "dispatch"               -> <<"InviteDispatched">>
    [] kind = "interview"              -> <<"InterviewStarted", "InterviewCompleted">>
    [] kind = "mcp_read"               -> <<>>
    [] kind = "analyze"                -> <<"InsightSetReplaced", "InsightGenerated">>

\* How a handler projects what it wrote: it applies the events it appended,
\* it reads the stream again and applies all of it, or it leaves the work to
\* the tail loops.
AppliesOwn    == {"settings", "close", "analyze"}
AppliesStream == {"create", "refine", "start", "mcp_read"}

\* An exception in apply ends these handlers; the others log it and go on.
Propagates == {"settings", "close", "mcp_read"}

\* What a handler requires of the row it loads before it does anything.
Admits(kind) ==
  CASE kind = "create"    -> row.status = "none"
    [] kind = "mcp_read"  -> TRUE
    [] kind = "interview" -> row.status = "live"
    [] kind = "close"     -> row.status \notin {"none", "closed"}
    [] OTHER              -> row.status # "none"

IdleTask ==
  [kind |-> "none", pc |-> "idle", todo |-> <<>>, inserting |-> 0,
   own |-> {}, sync |-> {}, seed |-> FALSE]

Started(kind) == [IdleTask EXCEPT !.kind = kind, !.pc = "write", !.todo = Plan(kind)]

\* projector.apply in one transaction.  StudyDrafted needs the org_id and the
\* spec that the caller found in memory, and is skipped when it has none.
Apply(s, seed) ==
  IF log[s] = "StudyDrafted" /\ ~seed
    THEN UNCHANGED tables
    ELSE /\ row' = ApplyToRow(row, s, log[s])
         /\ progress' = Bump(progress, s, log[s])
         /\ insights' = ApplyToInsights(insights, s, log[s])

IsLeast(s, S) == s \in S /\ \A t \in S : s <= t

-----------------------------------------------------------------------------
NoEvents == [s \in {} |-> "StudyDrafted"]

\* A study published earlier, all of whose events every server has applied.
LiveLog == [s \in 1..3 |-> <<"StudyDrafted", "SpecUpdated", "CampaignPublished">>[s]]
LiveRow == [status |-> "live", version |-> 2, seq |-> 3]

Init ==
  /\ \/ log = NoEvents /\ lastSeq = 0 /\ row = NoRow /\ memory = FALSE
     \/ log = LiveLog /\ lastSeq = 3 /\ row = LiveRow /\ memory = TRUE
  /\ task = [p \in Tasks |-> IdleTask]
  /\ progress = NoProgress
  /\ insights = {}
  /\ notified = [v \in Servers |-> {}]
  /\ tail = [v \in Servers |-> <<>>]
  /\ faults = 0

\* A request arrives and passes the checks its handler makes on the row.
Begin(r, kind) ==
  /\ task[r].pc = "idle"
  /\ Admits(kind)
  /\ task' = [task EXCEPT ![r] = Started(kind)]
  /\ UNCHANGED <<log, lastSeq, tables, memory, notified, tail, faults>>

\* The INSERT takes its sequence number before it commits, so a later number
\* may become visible first.
Insert(p) ==
  /\ task[p].pc = "write" /\ task[p].todo # <<>> /\ task[p].inserting = 0
  /\ lastSeq < MaxSeq
  /\ lastSeq' = lastSeq + 1
  /\ task' = [task EXCEPT ![p].inserting = lastSeq + 1]
  /\ UNCHANGED <<log, tables, memory, notified, tail, faults>>

\* The commit makes the event visible and notifies every listening server.
Commit(p) ==
  LET s == task[p].inserting IN
  /\ task[p].pc = "write" /\ s # 0
  /\ log' = [t \in DOMAIN log \cup {s} |-> IF t = s THEN Head(task[p].todo) ELSE log[t]]
  /\ notified' = [v \in Servers |-> notified[v] \cup {s}]
  /\ task' = [task EXCEPT ![p].todo = Tail(@), ![p].inserting = 0, ![p].own = @ \cup {s}]
  /\ UNCHANGED <<lastSeq, tables, memory, tail, faults>>

\* Every event is written: the harness updates memory (only CreateCampaign
\* stores an org_id), and the handler turns to the projection.
EndWrite(p) ==
  LET t == task[p] IN
  /\ t.pc = "write" /\ t.todo = <<>>
  /\ memory' = (memory \/ t.kind = "create")
  /\ task' = [task EXCEPT ![p] =
       IF t.kind \in AppliesOwn THEN [t EXCEPT !.pc = "sync", !.sync = t.own]
       ELSE [t EXCEPT !.pc = IF t.kind \in AppliesStream THEN "read" ELSE "done"]]
  /\ UNCHANGED <<log, lastSeq, tables, notified, tail, faults>>

\* Mutant of ReadStream: sequence numbers are taken to be dense and all committed.
ReadStreamUpToLastSeq(p) ==
  /\ task[p].pc = "read"
  /\ task' = [task EXCEPT ![p].pc = IF DOMAIN log = {} THEN "done" ELSE "sync",
                          ![p].sync = 1..lastSeq, ![p].seed = memory]
  /\ UNCHANGED <<log, lastSeq, tables, memory, notified, tail, faults>>

\* _apply_pending_to_projection reads the whole stream and the memory once.
ReadStream(p) ==
  /\ task[p].pc = "read"
  /\ task' = [task EXCEPT ![p].pc = IF DOMAIN log = {} THEN "done" ELSE "sync",
                          ![p].sync = DOMAIN log, ![p].seed = memory]
  /\ UNCHANGED <<log, lastSeq, tables, memory, notified, tail, faults>>

\* The task that has dealt with event s of its list.
Past(t, s) == [t EXCEPT !.sync = @ \ {s}, !.pc = IF t.sync = {s} THEN "done" ELSE "sync"]

SyncApply(p) ==
  /\ task[p].pc = "sync"
  /\ \E s \in task[p].sync :
       /\ IsLeast(s, task[p].sync)
       /\ Apply(s, task[p].seed)
       /\ task' = [task EXCEPT ![p] = Past(@, s)]
  /\ UNCHANGED <<log, lastSeq, memory, notified, tail, faults>>

\* apply raises and its transaction is rolled back.
SyncFault(p) ==
  /\ task[p].pc = "sync" /\ faults < MaxFaults
  /\ \E s \in task[p].sync :
       /\ IsLeast(s, task[p].sync)
       /\ task' = [task EXCEPT ![p] =
            IF @.kind \in Propagates THEN [@ EXCEPT !.pc = "failed"] ELSE Past(@, s)]
  /\ faults' = faults + 1
  /\ UNCHANGED <<log, lastSeq, tables, memory, notified, tail>>

\* An insert fails, the client goes away, or the process dies: an event not
\* committed yet is lost with its sequence number.
Abort(p) ==
  /\ task[p].pc \in {"write", "read", "sync"} /\ faults < MaxFaults
  /\ task' = [task EXCEPT ![p].pc = "failed", ![p].inserting = 0]
  /\ faults' = faults + 1
  /\ UNCHANGED <<log, lastSeq, tables, memory, notified, tail>>

-----------------------------------------------------------------------------
\* on_notify runs as a task per notification: they end in any order, and put
\* the event into the queue unless it is full.
Notify(v, s) ==
  /\ s \in notified[v]
  /\ notified' = [notified EXCEPT ![v] = @ \ {s}]
  /\ tail' = [tail EXCEPT ![v] = IF Len(@) < TailMax THEN Append(@, s) ELSE @]
  /\ UNCHANGED <<log, lastSeq, task, tables, memory, faults>>

\* A completion the tail loop has seen starts an analysis with the embedded
\* worker, whether or not applying it succeeded.
SpawnAnalysis(s) ==
  LET idle == {a \in Analysts : task[a].pc = "idle"} IN
  IF log[s] = "InterviewCompleted" /\ idle # {}
    THEN \E a \in idle : task' = [task EXCEPT ![a] = Started("analyze")]
    ELSE UNCHANGED task

\* Mutant of TailApply: the loop projects only what it also analyzes.
TailApplyCompletionsOnly(v) ==
  /\ tail[v] # <<>>
  /\ LET s == Head(tail[v]) IN
       /\ IF log[s] = "InterviewCompleted" THEN Apply(s, FALSE) ELSE UNCHANGED tables
       /\ SpawnAnalysis(s)
  /\ tail' = [tail EXCEPT ![v] = Tail(@)]
  /\ UNCHANGED <<log, lastSeq, memory, notified, faults>>

\* _tail_loop takes the next event and applies it; it never projects StudyDrafted.
TailApply(v) ==
  /\ tail[v] # <<>>
  /\ LET s == Head(tail[v]) IN Apply(s, FALSE) /\ SpawnAnalysis(s)
  /\ tail' = [tail EXCEPT ![v] = Tail(@)]
  /\ UNCHANGED <<log, lastSeq, memory, notified, faults>>

\* apply raises: the loop logs it and never tries this event again.
TailFault(v) ==
  /\ tail[v] # <<>> /\ faults < MaxFaults
  /\ SpawnAnalysis(Head(tail[v]))
  /\ tail' = [tail EXCEPT ![v] = Tail(@)]
  /\ faults' = faults + 1
  /\ UNCHANGED <<log, lastSeq, tables, memory, notified>>

\* The server restarts: nothing catches up on what it had not applied.
Restart(v) ==
  /\ faults < MaxFaults
  /\ notified[v] # {} \/ tail[v] # <<>>
  /\ notified' = [notified EXCEPT ![v] = {}]
  /\ tail' = [tail EXCEPT ![v] = <<>>]
  /\ faults' = faults + 1
  /\ UNCHANGED <<log, lastSeq, task, tables, memory>>

\* The campaign's memory key reaches the end of its time to live in Redis.
ExpireMemory ==
  /\ memory /\ faults < MaxFaults
  /\ memory' = FALSE
  /\ faults' = faults + 1
  /\ UNCHANGED <<log, lastSeq, task, tables, notified, tail>>

-----------------------------------------------------------------------------
TaskStep(p) ==
  \/ Insert(p)
  \/ Commit(p)
  \/ EndWrite(p)
  \/ ReadStream(p)
  \/ SyncApply(p)
  \/ SyncFault(p)
  \/ Abort(p)

ServerStep(v) ==
  \/ \E s \in notified[v] : Notify(v, s)
  \/ TailApply(v)
  \/ TailFault(v)
  \/ Restart(v)

Next ==
  \/ \E r \in Requests, kind \in Menu : Begin(r, kind)
  \/ \E p \in Tasks : TaskStep(p)
  \/ \E v \in Servers : ServerStep(v)
  \/ ExpireMemory

Spec == Init /\ [][Next]_vars

-----------------------------------------------------------------------------
TaskStates ==
  [kind : Kinds, pc : {"idle", "write", "read", "sync", "done", "failed"},
   todo : Seq(EventKinds), inserting : Nat, own : SUBSET Nat, sync : SUBSET Nat,
   seed : BOOLEAN]

LogType ==
  /\ lastSeq \in 0..MaxSeq
  /\ DOMAIN log \subseteq 1..lastSeq
  /\ \A s \in DOMAIN log : log[s] \in EventKinds

TaskType ==
  /\ task \in [Tasks -> TaskStates]
  /\ \A p \in Tasks : task[p].own \subseteq DOMAIN log /\ task[p].sync \subseteq DOMAIN log

TablesType == row \in Rows /\ progress \in Progress /\ insights \subseteq DOMAIN log

ServersType ==
  /\ notified \in [Servers -> SUBSET DOMAIN log]
  /\ tail \in [Servers -> Seq(DOMAIN log)]

\* The type of every variable: in particular, all that a task or a server still
\* has to apply is committed, although numbers become visible out of order.
TypeOK ==
  /\ LogType /\ TaskType /\ TablesType /\ ServersType
  /\ memory \in BOOLEAN /\ faults \in Nat

\* The committed events of a kind up to sequence number n.
Committed(kind, n) == {s \in DOMAIN log : log[s] = kind /\ s <= n}

\* Every counter counts an event at most once, however many request handlers
\* and tail loops apply it: it never exceeds the events of its kind that the
\* store holds up to the cursor of the snapshot (_bump's last_event_seq guard).
CountersBackedByLog ==
  \A k \in CounterKinds : progress.count[k] <= Cardinality(Committed(k, progress.seq))

\* The snapshot implements the abstract counters: each of its steps records one
\* countable event, counts one event past the cursor, or changes nothing.
Counters == INSTANCE AtMostOnceCounters WITH
  Kinds   <- CounterKinds,
  Numbers <- 1..MaxSeq,
  facts   <- [s \in {t \in DOMAIN log : log[t] \in CounterKinds} |-> log[s]],
  count   <- progress.count,
  cursor  <- progress.seq

CountsAtMostOnce == Counters!Spec

\* The row shows nothing the log does not say: the version counts each
\* SpecUpdated at most once, and a study is live or closed only if an event up
\* to last_event_seq says so.
RowBackedByLog ==
  /\ row.version <= 1 + Cardinality(Committed("SpecUpdated", row.seq))
  /\ \A k \in StatusKinds : row.status = StatusOf(k) => Committed(k, row.seq) # {}

\* A status is only ever replaced by that of a newer event: replaying the whole
\* stream (as a refinement or any MCP call does) never reopens a closed study
\* and never unpublishes a live one (the guard of the status UPDATE).
StatusMovesForward ==
  [][row.status # "none" /\ row'.status # row.status =>
       /\ row'.seq > row.seq
       /\ \E k \in StatusKinds : row'.seq \in Committed(k, lastSeq) /\ row'.status = StatusOf(k)]_vars

\* What server v has heard of and its loop has not taken yet.
Held(v) == notified[v] \cup {tail[v][i] : i \in DOMAIN tail[v]}

\* Interview events are projected by tail loops alone.  Every server hears of a
\* committed event, and lets go of one that is counted only when the snapshot
\* reflects it, in a fault, or because its queue is full: nothing else is ever
\* missing from the counters, whoever else applies events meanwhile.
LossesAreDrops ==
  [][\A v \in Servers :
       /\ DOMAIN log' \ DOMAIN log \subseteq Held(v)'
       /\ \A s \in Held(v) \ Held(v)' :
            log[s] \in CounterKinds =>
              \/ progress'.seq >= s
              \/ faults' > faults
              \/ s \in notified[v] /\ Len(tail[v]) >= TailMax]_vars

-----------------------------------------------------------------------------
\* campaigns.py:334 says of _apply_pending_to_projection: "Called after write
\* commands so the caller can immediately GET the projection without a race".
\* When start_campaign has finished and no later event changes the status, the
\* row shows the study live.
ReadYourWrites ==
  \A r \in Requests, s \in DOMAIN log :
    /\ task[r].kind = "start" /\ task[r].pc = "done" /\ s \in task[r].own
    /\ \A t \in DOMAIN log : log[t] \in StatusKinds => t <= s
    => row.status = "live"

-----------------------------------------------------------------------------
\* The insights that a replay of the stream ends with: those after the last reset.
StreamInsights ==
  {s \in Committed("InsightGenerated", lastSeq) : \A t \in Committed("InsightSetReplaced", lastSeq) : t < s}

\* No handler is at work and every event has reached every tail loop.
Quiet ==
  /\ \A p \in Tasks : task[p].pc \in {"idle", "done"}
  /\ \A v \in Servers : notified[v] = {} /\ tail[v] = <<>>

\* campaign_projector.py:119 says that applying events is "Idempotent per
\* (campaign_id, seq)".  When everything has been applied, by the analysis and
\* again by the tail loops, the table shows the insights of the stream.
InsightsFollowStream == Quiet => insights = StreamInsights

=============================================================================
