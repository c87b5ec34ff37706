----------------------- MODULE CampaignPipelineProofs -----------------------
(***************************************************************************)
(* Proofs about CampaignPipeline, for any number of servers, requests and  *)
(* analysis tasks and for every value of the bounds.                       *)
(*                                                                         *)
(* The argument has two halves.  What a task or a tail loop is about to    *)
(* apply is committed, and a number being inserted is nobody else's        *)
(* (TypeOK, FreshNumbers), hence a step either extends the log and leaves  *)
(* the tables alone or applies one committed event (StepShape).  From      *)
(* there on only the projector matters: its cursors never fall behind an   *)
(* event they count.                                                       *)
(***************************************************************************)
EXTENDS CampaignPipeline, FiniteSetTheorems, SequenceTheorems, TLAPS

\* BIGSERIAL never gives out a number twice: one that a task is inserting, for
\* the next event of its list, is allocated, not committed yet, and not that of
\* another task.
FreshNumbers ==
  /\ \A p \in Tasks : task[p].inserting # 0 =>
       task[p].inserting \in (1..lastSeq) \ DOMAIN log /\ task[p].todo # <<>>
  /\ \A p, q \in Tasks : task[p].inserting # 0 /\ p # q =>
       task[p].inserting # task[q].inserting

\* The committed events stay as they are.
LogGrows == \A s \in DOMAIN log : s \in DOMAIN log' /\ log'[s] = log[s]

\* One committed event is applied to the three tables.
Applied(s) ==
  /\ row' = ApplyToRow(row, s, log[s])
  /\ progress' = Bump(progress, s, log[s])
  /\ insights' = ApplyToInsights(insights, s, log[s])

\* One event is committed.
OneMore(s) == s \notin DOMAIN log /\ DOMAIN log' = DOMAIN log \cup {s}

StepShape ==
  /\ LogGrows
  /\ \/ UNCHANGED log /\ UNCHANGED tables
     \/ UNCHANGED tables /\ \E s \in 1..lastSeq : OneMore(s)
     \/ UNCHANGED log /\ \E s \in DOMAIN log : Applied(s)

-----------------------------------------------------------------------------
LEMMA PlanType ==
  ASSUME NEW k \in Kinds \ {"none"}
  PROVE  Plan(k) \in Seq(EventKinds)
<1> USE DEF EventKinds, StatusKinds, CounterKinds, InsightKinds
<1>1. /\ <<"StudyDrafted", "SpecUpdated">> \in Seq(EventKinds)
      /\ <<"SpecUpdated">> \in Seq(EventKinds)
      /\ <<"CampaignPublished">> \in Seq(EventKinds)
      /\ <<"CampaignClosed">> \in Seq(EventKinds)
      /\ <<"InviteDispatched">> \in Seq(EventKinds)
      /\ <<"InterviewStarted", "InterviewCompleted">> \in Seq(EventKinds)
      /\ <<>> \in Seq(EventKinds)
      /\ <<"InsightSetReplaced", "InsightGenerated">> \in Seq(EventKinds)
  OBVIOUS
<1>2. QED
  BY <1>1 DEF Plan, Kinds, RequestKinds

\* The projector keeps the three tables well typed.
LEMMA ApplyType ==
  ASSUME NEW r \in Rows, NEW g \in Progress, NEW i, NEW s \in Nat, NEW k \in EventKinds
  PROVE  /\ ApplyToRow(r, s, k) \in Rows
         /\ Bump(g, s, k) \in Progress
         /\ ApplyToInsights(i, s, k) \subseteq i \cup {s}
<1>1. ApplyToRow(r, s, k) \in Rows
  BY DEF ApplyToRow, Accepts, Rows, Statuses, StatusOf, StatusKinds
<1>2. Bump(g, s, k) \in Progress
  BY DEF Bump, Progress
<1>3. ApplyToInsights(i, s, k) \subseteq i \cup {s}
  BY DEF ApplyToInsights
<1>4. QED
  BY <1>1, <1>2, <1>3

LEMMA ApplyShape ==
  ASSUME NEW s, NEW seed, Apply(s, seed)
  PROVE  UNCHANGED tables \/ Applied(s)
  BY DEF Apply, Applied

LEMMA StartedType ==
  ASSUME NEW k \in Kinds \ {"none"}
  PROVE  /\ Started(k) \in TaskStates
         /\ Started(k).own = {} /\ Started(k).sync = {} /\ Started(k).inserting = 0
<1>1. IdleTask \in TaskStates
  BY EmptySeq DEF IdleTask, TaskStates, Kinds
<1>2. QED
  BY <1>1, PlanType DEF Started, TaskStates, IdleTask

-----------------------------------------------------------------------------
\* Appending a committed event to the log: the old events keep their place.
LEMMA CommitGrows ==
  ASSUME TypeOK, FreshNumbers, NEW p \in Tasks, Commit(p)
  PROVE  /\ LogGrows
         /\ DOMAIN log' = DOMAIN log \cup {task[p].inserting}
         /\ task[p].inserting \in (1..lastSeq) \ DOMAIN log
  BY DEF Commit, LogGrows, FreshNumbers

LEMMA ShapeOfSteps ==
  TypeOK /\ FreshNumbers /\ [Next]_vars => StepShape
<1> SUFFICES ASSUME TypeOK, FreshNumbers, [Next]_vars PROVE StepShape
  OBVIOUS
<1> USE DEF StepShape, LogGrows, tables
<1>1. ASSUME NEW r \in Requests, NEW k \in Menu, Begin(r, k) PROVE StepShape
  BY <1>1 DEF Begin
<1>2. ASSUME NEW p \in Tasks, TaskStep(p) PROVE StepShape
  <2>1. CASE Insert(p)
    BY <2>1 DEF Insert
  <2>2. CASE Commit(p)
    BY <2>2, CommitGrows DEF Commit, OneMore
  <2>3. CASE EndWrite(p)
    BY <2>3 DEF EndWrite
  <2>4. CASE ReadStream(p)
    BY <2>4 DEF ReadStream
  <2>5. CASE SyncApply(p)
    <3>1. PICK s \in task[p].sync : Apply(s, task[p].seed)
      BY <2>5 DEF SyncApply
    <3>2. s \in DOMAIN log
      BY <3>1 DEF TypeOK, TaskType
    <3>3. UNCHANGED log
      BY <2>5 DEF SyncApply
    <3>4. QED
      BY <3>1, <3>2, <3>3, ApplyShape
  <2>6. CASE SyncFault(p)
    BY <2>6 DEF SyncFault
  <2>7. CASE Abort(p)
    BY <2>7 DEF Abort
  <2>8. QED
    BY <1>2, <2>1, <2>2, <2>3, <2>4, <2>5, <2>6, <2>7 DEF TaskStep
<1>3. ASSUME NEW v \in Servers, ServerStep(v) PROVE StepShape
  <2>1. CASE \E s \in notified[v] : Notify(v, s)
    BY <2>1 DEF Notify
  <2>2. CASE TailApply(v)
    <3>1. tail[v] \in Seq(DOMAIN log) /\ tail[v] # <<>>
      BY <2>2 DEF TailApply, TypeOK, ServersType
    <3>2. Head(tail[v]) \in DOMAIN log
      BY <3>1, HeadTailProperties
    <3>3. UNCHANGED log /\ Apply(Head(tail[v]), FALSE)
      BY <2>2 DEF TailApply
    <3>4. QED
      BY <3>2, <3>3, ApplyShape
  <2>3. CASE TailFault(v)
    BY <2>3 DEF TailFault
  <2>4. CASE Restart(v)
    BY <2>4 DEF Restart
  <2>5. QED
    BY <1>3, <2>1, <2>2, <2>3, <2>4 DEF ServerStep
<1>4. CASE ExpireMemory
  BY <1>4 DEF ExpireMemory
<1>5. CASE UNCHANGED vars
  BY <1>5 DEF vars
<1>6. QED
  BY <1>1, <1>2, <1>3, <1>4, <1>5 DEF Next
-----------------------------------------------------------------------------
(* Type correctness.  One lemma per part of TypeOK, the tasks' by action.  *)

LEMMA TablesStep ==
  ASSUME TypeOK, StepShape
  PROVE  TablesType'
<1>1. CASE UNCHANGED tables
  BY <1>1 DEF TypeOK, TablesType, StepShape, LogGrows, tables
<1>2. ASSUME NEW s \in DOMAIN log, Applied(s), UNCHANGED log PROVE TablesType'
  <2>1. s \in Nat /\ log[s] \in EventKinds
    BY DEF TypeOK, LogType
  <2>2. row \in Rows /\ progress \in Progress /\ insights \in SUBSET DOMAIN log
    BY DEF TypeOK, TablesType
  <2>3. /\ ApplyToRow(row, s, log[s]) \in Rows
        /\ Bump(progress, s, log[s]) \in Progress
        /\ ApplyToInsights(insights, s, log[s]) \subseteq insights \cup {s}
    BY <2>1, <2>2, ApplyType
  <2>4. DOMAIN log' = DOMAIN log
    BY <1>2
  <2>5. QED
    BY <1>2, <2>2, <2>3, <2>4 DEF Applied, TablesType
<1>3. QED
  BY <1>1, <1>2 DEF StepShape

LEMMA LogStep ==
  ASSUME TypeOK, FreshNumbers, [Next]_vars
  PROVE  LogType'
<1> USE DEF LogType
<1>1. ASSUME NEW p \in Tasks, Insert(p) PROVE LogType'
  BY <1>1, BoundAssumption DEF Insert, TypeOK
<1>2. ASSUME NEW p \in Tasks, Commit(p) PROVE LogType'
  <2>1. task[p].todo \in Seq(EventKinds)
    BY DEF TypeOK, TaskType, TaskStates
  <2>2. task[p].todo # <<>> => Head(task[p].todo) \in EventKinds
    BY <2>1, HeadTailProperties
  <2>3. task[p].todo # <<>>
    BY <1>2 DEF Commit, FreshNumbers
  <2>4. QED
    BY <1>2, <2>2, <2>3, CommitGrows DEF Commit, TypeOK
<1>3. CASE UNCHANGED <<log, lastSeq>>
  BY <1>3 DEF TypeOK
<1>4. QED
  BY <1>1, <1>2, <1>3
  DEF Next, TaskStep, ServerStep, vars, Begin, EndWrite, ReadStream, SyncApply, SyncFault,
      Abort, Notify, TailApply, TailFault, Restart, ExpireMemory

-----------------------------------------------------------------------------
LEMMA ServersStep ==
  ASSUME TypeOK, FreshNumbers, [Next]_vars
  PROVE  ServersType'
<1> USE DEF ServersType
<1>1. LogGrows
  BY ShapeOfSteps DEF StepShape
<1>2. DOMAIN log \subseteq DOMAIN log'
  BY <1>1 DEF LogGrows
<1>3. /\ notified \in [Servers -> SUBSET DOMAIN log]
      /\ tail \in [Servers -> Seq(DOMAIN log)]
  BY DEF TypeOK
<1>4. /\ notified \in [Servers -> SUBSET DOMAIN log']
      /\ tail \in [Servers -> Seq(DOMAIN log')]
  BY <1>2, <1>3
<1>5. ASSUME NEW p \in Tasks, Commit(p) PROVE ServersType'
  BY <1>4, <1>5, CommitGrows DEF Commit
<1>6. ASSUME NEW v \in Servers, ServerStep(v) PROVE ServersType'
  <2>1. ASSUME NEW s \in notified[v], Notify(v, s) PROVE ServersType'
    <3>1. s \in DOMAIN log' /\ tail[v] \in Seq(DOMAIN log')
      BY <1>4
    <3>2. Append(tail[v], s) \in Seq(DOMAIN log')
      BY <3>1
    <3>3. QED
      BY <1>4, <2>1, <3>1, <3>2 DEF Notify
  <2>2. CASE TailApply(v) \/ TailFault(v)
    <3>1. tail[v] \in Seq(DOMAIN log') /\ tail[v] # <<>>
      BY <1>4, <2>2 DEF TailApply, TailFault
    <3>2. Tail(tail[v]) \in Seq(DOMAIN log')
      BY <3>1, HeadTailProperties
    <3>3. QED
      BY <1>4, <2>2, <3>2 DEF TailApply, TailFault
  <2>3. CASE Restart(v)
    <3>1. <<>> \in Seq(DOMAIN log')
      BY EmptySeq
    <3>2. QED
      BY <1>4, <2>3, <3>1 DEF Restart
  <2>4. QED
    BY <1>6, <2>1, <2>2, <2>3 DEF ServerStep
<1>7. CASE UNCHANGED <<notified, tail>>
  BY <1>4, <1>7
<1>8. QED
  BY <1>5, <1>6, <1>7
  DEF Next, TaskStep, vars, Begin, Insert, EndWrite, ReadStream, SyncApply, SyncFault,
      Abort, ExpireMemory

-----------------------------------------------------------------------------
\* A task that moves to a well typed state leaves the tasks well typed.
LEMMA TaskMoves ==
  ASSUME TypeOK, LogGrows, NEW p \in Tasks, NEW t \in TaskStates,
         t.own \subseteq DOMAIN log', t.sync \subseteq DOMAIN log',
         task' = [task EXCEPT ![p] = t]
  PROVE  TaskType'
<1>1. DOMAIN log \subseteq DOMAIN log'
  BY DEF LogGrows
<1>2. /\ task \in [Tasks -> TaskStates]
      /\ \A q \in Tasks : task[q].own \subseteq DOMAIN log /\ task[q].sync \subseteq DOMAIN log
  BY DEF TypeOK, TaskType
<1>3. task' \in [Tasks -> TaskStates]
  BY <1>2
<1>4. ASSUME NEW q \in Tasks
      PROVE  task'[q].own \subseteq DOMAIN log' /\ task'[q].sync \subseteq DOMAIN log'
  BY <1>1, <1>2
<1>5. QED
  BY <1>3, <1>4 DEF TaskType

LEMMA TaskStep_Type ==
  ASSUME TypeOK, FreshNumbers, LogGrows, NEW p \in Tasks, TaskStep(p)
  PROVE  TaskType'
<1> DEFINE t == task[p]
<1>1. /\ t \in TaskStates
      /\ t.own \subseteq DOMAIN log /\ t.sync \subseteq DOMAIN log
  BY DEF TypeOK, TaskType
<1>2. task \in [Tasks -> TaskStates] /\ lastSeq \in Nat /\ DOMAIN log \subseteq Nat
  BY BoundAssumption DEF TypeOK, TaskType, LogType
<1>3. DOMAIN log \subseteq DOMAIN log'
  BY DEF LogGrows
<1>4. CASE Insert(p)
  <2>1. task' = [task EXCEPT ![p] = [t EXCEPT !.inserting = lastSeq + 1]]
    BY <1>4 DEF Insert
  <2> DEFINE u == [t EXCEPT !.inserting = lastSeq + 1]
  <2>2. lastSeq + 1 \in Nat
    BY <1>2
  <2>3. u \in TaskStates /\ u.own = t.own /\ u.sync = t.sync
    BY <1>1, <2>2 DEF TaskStates
  <2>4. QED
    BY <1>1, <1>3, <2>1, <2>3, TaskMoves
<1>5. CASE Commit(p)
  <2> DEFINE u == [t EXCEPT !.todo = Tail(@), !.inserting = 0, !.own = @ \cup {t.inserting}]
  <2>1. task' = [task EXCEPT ![p] = u]
    BY <1>5 DEF Commit
  <2>2. t.inserting \in Nat /\ DOMAIN log' = DOMAIN log \cup {t.inserting} /\ t.todo # <<>>
    BY <1>1, <1>5, CommitGrows DEF FreshNumbers, TaskStates, Commit
  <2>3. Tail(t.todo) \in Seq(EventKinds)
    BY <1>1, <2>2, HeadTailProperties DEF TaskStates
  <2>4. u \in TaskStates /\ u.own = t.own \cup {t.inserting} /\ u.sync = t.sync
    BY <1>1, <2>2, <2>3 DEF TaskStates
  <2>5. QED
    BY <1>1, <2>1, <2>2, <2>4, TaskMoves
<1>6. CASE EndWrite(p)
  <2> DEFINE u == IF t.kind \in AppliesOwn THEN [t EXCEPT !.pc = "sync", !.sync = t.own]
                  ELSE [t EXCEPT !.pc = IF t.kind \in AppliesStream THEN "read" ELSE "done"]
  <2>1. task' = [task EXCEPT ![p] = u]
    BY <1>6 DEF EndWrite
  <2>2. u \in TaskStates /\ u.own = t.own /\ u.sync \subseteq t.sync \cup t.own
    BY <1>1 DEF TaskStates
  <2>3. QED
    BY <1>1, <1>3, <2>1, <2>2, TaskMoves
<1>7. CASE ReadStream(p)
  <2> DEFINE u == [t EXCEPT !.pc = IF DOMAIN log = {} THEN "done" ELSE "sync",
                            !.sync = DOMAIN log, !.seed = memory]
  <2>1. task' = [task EXCEPT ![p] = u]
    BY <1>7 DEF ReadStream
  <2>2. memory \in BOOLEAN
    BY DEF TypeOK
  <2>3. u \in TaskStates /\ u.own = t.own /\ u.sync = DOMAIN log
    BY <1>1, <1>2, <2>2 DEF TaskStates
  <2>4. QED
    BY <1>1, <1>3, <2>1, <2>3, TaskMoves
<1>8. CASE SyncApply(p) \/ SyncFault(p)
  <2>1. PICK s \in t.sync : \/ task' = [task EXCEPT ![p] = Past(t, s)]
                            \/ task' = [task EXCEPT ![p] = [t EXCEPT !.pc = "failed"]]
    BY <1>8 DEF SyncApply, SyncFault
  <2>2. /\ Past(t, s) \in TaskStates
        /\ Past(t, s).own = t.own /\ Past(t, s).sync \subseteq t.sync
    BY <1>1 DEF Past, TaskStates
  <2>3. /\ [t EXCEPT !.pc = "failed"] \in TaskStates
        /\ [t EXCEPT !.pc = "failed"].own = t.own
        /\ [t EXCEPT !.pc = "failed"].sync = t.sync
    BY <1>1 DEF TaskStates
  <2>4. QED
    BY <1>1, <1>3, <2>1, <2>2, <2>3, TaskMoves
<1>9. CASE Abort(p)
  <2> DEFINE u == [t EXCEPT !.pc = "failed", !.inserting = 0]
  <2>1. task' = [task EXCEPT ![p] = u]
    BY <1>9 DEF Abort
  <2>2. u \in TaskStates /\ u.own = t.own /\ u.sync = t.sync
    BY <1>1 DEF TaskStates
  <2>3. QED
    BY <1>1, <1>3, <2>1, <2>2, TaskMoves
<1>10. QED
  BY <1>4, <1>5, <1>6, <1>7, <1>8, <1>9 DEF TaskStep

\* A handler that starts is in the first state of its kind.
LEMMA StartMoves ==
  ASSUME TypeOK, LogGrows, NEW p \in Tasks, NEW k \in Kinds \ {"none"},
         task' = [task EXCEPT ![p] = Started(k)]
  PROVE  TaskType'
  BY StartedType, TaskMoves

LEMMA TasksStep ==
  ASSUME TypeOK, FreshNumbers, [Next]_vars
  PROVE  TaskType'
<1>1. LogGrows
  BY ShapeOfSteps DEF StepShape
<1>2. ASSUME NEW r \in Requests, NEW k \in Menu, Begin(r, k) PROVE TaskType'
  <2>1. r \in Tasks /\ k \in Kinds \ {"none"}
    BY MenuAssumption DEF Tasks, Kinds, RequestKinds
  <2>2. QED
    BY <1>1, <1>2, <2>1, StartMoves DEF Begin
<1>3. CASE UNCHANGED task
  BY <1>1, <1>3 DEF TypeOK, TaskType, LogGrows
<1>4. ASSUME NEW s, SpawnAnalysis(s) PROVE TaskType'
  <2>1. CASE UNCHANGED task
    BY <1>3, <2>1
  <2>2. ASSUME NEW a \in Analysts, task' = [task EXCEPT ![a] = Started("analyze")]
        PROVE  TaskType'
    <3>1. a \in Tasks /\ "analyze" \in Kinds \ {"none"}
      BY DEF Tasks, Kinds
    <3>2. QED
      BY <1>1, <2>2, <3>1, StartMoves
  <2>3. QED
    BY <1>4, <2>1, <2>2 DEF SpawnAnalysis
<1>5. ASSUME NEW v \in Servers, ServerStep(v) PROVE TaskType'
  BY <1>3, <1>4, <1>5 DEF ServerStep, Notify, TailApply, TailFault, Restart
<1>6. QED
  BY <1>1, <1>2, <1>3, <1>5, TaskStep_Type DEF Next, ExpireMemory, vars

-----------------------------------------------------------------------------
LEMMA FreshStep ==
  ASSUME TypeOK, FreshNumbers, [Next]_vars
  PROVE  FreshNumbers'
<1>1. /\ lastSeq \in Nat /\ DOMAIN log \subseteq 1..lastSeq
      /\ task \in [Tasks -> TaskStates]
      /\ \A q \in Tasks : task[q].inserting \in Nat
  BY BoundAssumption DEF TypeOK, LogType, TaskType, TaskStates
<1>2. ASSUME NEW p \in Tasks, Insert(p) PROVE FreshNumbers'
  <2>1. /\ task'[p].inserting = lastSeq + 1 /\ task'[p].todo = task[p].todo
        /\ task[p].todo # <<>>
        /\ \A q \in Tasks \ {p} : task'[q] = task[q]
        /\ lastSeq' = lastSeq + 1 /\ log' = log
    BY <1>1, <1>2 DEF Insert, TaskStates
  <2>2. ASSUME NEW q \in Tasks, task'[q].inserting # 0
        PROVE  task'[q].inserting \in (1..lastSeq') \ DOMAIN log' /\ task'[q].todo # <<>>
    BY <1>1, <2>1, <2>2 DEF FreshNumbers
  <2>3. ASSUME NEW q \in Tasks, NEW r \in Tasks, task'[q].inserting # 0, q # r
        PROVE  task'[q].inserting # task'[r].inserting
    BY <1>1, <2>1, <2>3 DEF FreshNumbers
  <2>4. QED
    BY <2>2, <2>3 DEF FreshNumbers
<1>3. ASSUME NEW p \in Tasks, Commit(p) PROVE FreshNumbers'
  <2>1. /\ task'[p].inserting = 0
        /\ \A q \in Tasks \ {p} : task'[q] = task[q]
        /\ lastSeq' = lastSeq /\ DOMAIN log' = DOMAIN log \cup {task[p].inserting}
        /\ task[p].inserting # 0
    BY <1>1, <1>3, CommitGrows DEF Commit, TaskStates
  <2>2. ASSUME NEW q \in Tasks, task'[q].inserting # 0
        PROVE  task'[q].inserting \in (1..lastSeq') \ DOMAIN log' /\ task'[q].todo # <<>>
    BY <1>1, <2>1, <2>2 DEF FreshNumbers
  <2>3. ASSUME NEW q \in Tasks, NEW r \in Tasks, task'[q].inserting # 0, q # r
        PROVE  task'[q].inserting # task'[r].inserting
    BY <1>1, <2>1, <2>3 DEF FreshNumbers
  <2>4. QED
    BY <2>2, <2>3 DEF FreshNumbers
<1>4. ASSUME UNCHANGED <<log, lastSeq>>,
             NEW p \in Tasks, \A q \in Tasks \ {p} : task'[q] = task[q],
             \/ task'[p].inserting = 0
             \/ task'[p].inserting = task[p].inserting /\ task'[p].todo = task[p].todo
      PROVE  FreshNumbers'
  BY <1>4 DEF FreshNumbers
<1>5. ASSUME NEW p \in Tasks, TaskStep(p) PROVE FreshNumbers'
  <2>1. CASE EndWrite(p)
    BY <1>1, <1>4, <2>1 DEF EndWrite, TaskStates
  <2>2. CASE ReadStream(p)
    BY <1>1, <1>4, <2>2 DEF ReadStream, TaskStates
  <2>3. CASE SyncApply(p) \/ SyncFault(p)
    <3>1. PICK s : \/ task' = [task EXCEPT ![p] = Past(task[p], s)]
                   \/ task' = [task EXCEPT ![p] = [task[p] EXCEPT !.pc = "failed"]]
      BY <2>3 DEF SyncApply, SyncFault
    <3>2. \A q \in Tasks \ {p} : task'[q] = task[q]
      BY <1>1, <3>1
    <3>3. task[p] \in TaskStates
      BY <1>1
    <3>4. task'[p].inserting = task[p].inserting /\ task'[p].todo = task[p].todo
      <4>1. /\ Past(task[p], s).inserting = task[p].inserting
            /\ Past(task[p], s).todo = task[p].todo
            /\ [task[p] EXCEPT !.pc = "failed"].inserting = task[p].inserting
            /\ [task[p] EXCEPT !.pc = "failed"].todo = task[p].todo
        BY <3>3 DEF Past, TaskStates
      <4>2. QED
        BY <1>1, <3>1, <4>1
    <3>5. QED
      BY <1>4, <2>3, <3>2, <3>4 DEF SyncApply, SyncFault
  <2>4. CASE Abort(p)
    BY <1>1, <1>4, <2>4 DEF Abort, TaskStates
  <2>5. QED
    BY <1>2, <1>3, <1>5, <2>1, <2>2, <2>3, <2>4 DEF TaskStep
<1>6. ASSUME UNCHANGED <<log, lastSeq>>,
             UNCHANGED task \/ \E p \in Tasks, k \in Kinds \ {"none"} :
                                task' = [task EXCEPT ![p] = Started(k)]
      PROVE  FreshNumbers'
  <2>1. CASE UNCHANGED task
    BY <1>6, <2>1 DEF FreshNumbers
  <2>2. ASSUME NEW p \in Tasks, NEW k \in Kinds \ {"none"}, task' = [task EXCEPT ![p] = Started(k)]
        PROVE  FreshNumbers'
    <3>1. task'[p] = Started(k) /\ \A q \in Tasks \ {p} : task'[q] = task[q]
      BY <1>1, <2>2
    <3>2. task'[p].inserting = 0
      BY <3>1, StartedType
    <3>3. UNCHANGED <<log, lastSeq>>
      BY <1>6
    <3>4. \A q \in Tasks \ {p} : task'[q] = task[q]
      BY <3>1
    <3>5. QED
      BY <1>4, <3>2, <3>3, <3>4
  <2>3. QED
    BY <1>6, <2>1, <2>2
<1>7. ASSUME NEW s, SpawnAnalysis(s)
      PROVE  UNCHANGED task \/ \E p \in Tasks, k \in Kinds \ {"none"} :
                                task' = [task EXCEPT ![p] = Started(k)]
  BY <1>7 DEF SpawnAnalysis, Tasks, Kinds
<1>8. ASSUME NEW v \in Servers, ServerStep(v) PROVE FreshNumbers'
  BY <1>6, <1>7, <1>8 DEF ServerStep, Notify, TailApply, TailFault, Restart
<1>9. ASSUME NEW r \in Requests, NEW k \in Menu, Begin(r, k) PROVE FreshNumbers'
  <2>1. r \in Tasks /\ k \in Kinds \ {"none"}
    BY MenuAssumption DEF Tasks, Kinds, RequestKinds
  <2>2. QED
    BY <1>6, <1>9, <2>1 DEF Begin
<1>10. QED
  BY <1>5, <1>6, <1>8, <1>9 DEF Next, ExpireMemory, vars

-----------------------------------------------------------------------------
LEMMA InitTypes ==
  Init => TypeOK /\ FreshNumbers
<1> SUFFICES ASSUME Init PROVE TypeOK /\ FreshNumbers
  OBVIOUS
<1>1. LogType
  BY BoundAssumption DEF Init, LogType, NoEvents, LiveLog, EventKinds, StatusKinds
<1>2. IdleTask \in TaskStates /\ IdleTask.own = {} /\ IdleTask.sync = {} /\ IdleTask.inserting = 0
  BY EmptySeq DEF IdleTask, TaskStates, Kinds
<1>3. TaskType /\ FreshNumbers
  BY <1>2 DEF Init, TaskType, FreshNumbers
<1>4. TablesType
  BY DEF Init, TablesType, Rows, Progress, NoRow, LiveRow, NoProgress, Statuses
<1>5. ServersType
  BY EmptySeq DEF Init, ServersType
<1>6. QED
  BY <1>1, <1>3, <1>4, <1>5 DEF TypeOK, Init

\* Nothing but allocated, committed and unapplied events is ever at work:
\* TypeOK is inductive together with the freshness of sequence numbers.
LEMMA TypeStep ==
  ASSUME TypeOK, FreshNumbers, [Next]_vars
  PROVE  TypeOK' /\ FreshNumbers'
<1>1. TablesType'
  BY ShapeOfSteps, TablesStep
<1>2. memory' \in BOOLEAN /\ faults' \in Nat
  <2>1. memory \in BOOLEAN /\ faults \in Nat
    BY DEF TypeOK
  <2>2. memory' \in {memory, TRUE, FALSE}
    BY <2>1
    DEF Next, TaskStep, ServerStep, vars, Begin, Insert, Commit, EndWrite, ReadStream, SyncApply,
        SyncFault, Abort, Notify, TailApply, TailFault, Restart, ExpireMemory
  <2>3. faults' \in {faults, faults + 1}
    BY DEF Next, TaskStep, ServerStep, vars, Begin, Insert, Commit, EndWrite, ReadStream, SyncApply,
        SyncFault, Abort, Notify, TailApply, TailFault, Restart, ExpireMemory
  <2>4. memory' \in BOOLEAN
    BY <2>1, <2>2
  <2>5. faults' \in Nat
    BY <2>1, <2>3
  <2>6. QED
    BY <2>4, <2>5
<1>3. QED
  BY <1>1, <1>2, LogStep, TasksStep, ServersStep, FreshStep DEF TypeOK

\* Whatever is about to be applied is committed, in every reachable state: no
\* task and no server ever works on a number that the log does not hold.
THEOREM TypeCorrect == Spec => [](TypeOK /\ FreshNumbers)
<1>1. Init => TypeOK /\ FreshNumbers
  BY InitTypes
<1>2. TypeOK /\ FreshNumbers /\ [Next]_vars => (TypeOK /\ FreshNumbers)'
  BY TypeStep
<1>3. QED
  BY <1>1, <1>2, PTL DEF Spec

-----------------------------------------------------------------------------
(* What the tables say is in the log.  The committed events up to a cursor *)
(* are finitely many and never become fewer; one more is among them when   *)
(* the cursor moves to it.                                                 *)

LEMMA CommittedFinite ==
  ASSUME LogType, NEW k, NEW n
  PROVE  IsFiniteSet(Committed(k, n)) /\ Cardinality(Committed(k, n)) \in Nat
<1>1. IsFiniteSet(1..lastSeq)
  BY FS_Interval, BoundAssumption DEF LogType
<1>2. Committed(k, n) \in SUBSET (1..lastSeq)
  BY DEF Committed, LogType
<1>3. QED
  BY <1>1, <1>2, FS_Subset, FS_CardinalityType

LEMMA CommittedStays ==
  ASSUME LogType', LogGrows, NEW k, NEW n
  PROVE  /\ Committed(k, n) \subseteq Committed(k, n)'
         /\ Cardinality(Committed(k, n)) <= Cardinality(Committed(k, n)')
         /\ Cardinality(Committed(k, n)') \in Nat
<1>1. Committed(k, n) \subseteq Committed(k, n)'
  BY DEF Committed, LogGrows
<1>2. IsFiniteSet(Committed(k, n)')
  <2>1. IsFiniteSet(1..lastSeq')
    BY FS_Interval, BoundAssumption DEF LogType
  <2>2. Committed(k, n)' \in SUBSET (1..lastSeq')
    BY DEF Committed, LogType
  <2>3. QED
    BY <2>1, <2>2, FS_Subset
<1>3. Committed(k, n) \in SUBSET Committed(k, n)'
  BY <1>1
<1>4. QED
  BY <1>1, <1>2, <1>3, FS_Subset, FS_CardinalityType

LEMMA CommittedAhead ==
  ASSUME LogType, NEW k, NEW n \in Nat, NEW m \in DOMAIN log, n < m
  PROVE  /\ Committed(k, n) \subseteq Committed(k, m)
         /\ Cardinality(Committed(k, n)) <= Cardinality(Committed(k, m))
         /\ log[m] = k => Cardinality(Committed(k, n)) + 1 <= Cardinality(Committed(k, m))
<1>1. m \in Nat /\ \A s \in DOMAIN log : s \in Nat
  BY DEF LogType
<1>2. Committed(k, n) \subseteq Committed(k, m)
  BY <1>1 DEF Committed
<1>3. Cardinality(Committed(k, n)) <= Cardinality(Committed(k, m))
  BY <1>2, CommittedFinite, FS_Subset
<1>4. ASSUME log[m] = k
      PROVE  Cardinality(Committed(k, n)) + 1 <= Cardinality(Committed(k, m))
  <2>1. m \notin Committed(k, n)
    BY <1>1 DEF Committed
  <2>2. Committed(k, n) \cup {m} \in SUBSET Committed(k, m)
    BY <1>1, <1>2, <1>4 DEF Committed
  <2>3. Cardinality(Committed(k, n) \cup {m}) = Cardinality(Committed(k, n)) + 1
    BY <2>1, CommittedFinite, FS_AddElement
  <2>4. Cardinality(Committed(k, n) \cup {m}) <= Cardinality(Committed(k, m))
    BY <2>2, CommittedFinite, FS_Subset
  <2>5. QED
    BY <2>3, <2>4
<1>5. QED
  BY <1>2, <1>3, <1>4

-----------------------------------------------------------------------------
\* A step leaves the tables alone, while the log may grow, or applies one
\* event to them, while the log stays the same.
LEMMA TablesOrLog ==
  ASSUME TypeOK, FreshNumbers, [Next]_vars
  PROVE  /\ LogGrows /\ TypeOK'
         /\ UNCHANGED tables \/ (UNCHANGED log /\ \E s \in DOMAIN log : Applied(s))
  BY ShapeOfSteps, TypeStep DEF StepShape

LEMMA CountersStep ==
  ASSUME TypeOK, FreshNumbers, CountersBackedByLog, [Next]_vars
  PROVE  CountersBackedByLog'
<1>1. /\ progress \in Progress /\ progress.seq \in Nat
      /\ \A k \in CounterKinds : progress.count[k] \in Nat
  BY DEF TypeOK, TablesType, Progress
<1>2. LogType /\ LogType' /\ LogGrows
  BY TablesOrLog DEF TypeOK
<1>3. CASE UNCHANGED tables
  <2>1. progress' = progress
    BY <1>3 DEF tables
  <2>2. ASSUME NEW k \in CounterKinds, NEW n, n = progress.seq
        PROVE  progress.count[k] <= Cardinality(Committed(k, n)')
    <3>1. progress.count[k] <= Cardinality(Committed(k, n))
      BY <2>2 DEF CountersBackedByLog
    <3>2. Cardinality(Committed(k, n)) <= Cardinality(Committed(k, n)')
      BY <1>2, CommittedStays
    <3>3. Cardinality(Committed(k, n)) \in Nat /\ Cardinality(Committed(k, n)') \in Nat
      BY <1>2, CommittedFinite, CommittedStays
    <3>4. QED
      BY <1>1, <3>1, <3>2, <3>3
  <2>3. QED
    BY <2>1, <2>2 DEF CountersBackedByLog, Committed
<1>4. ASSUME NEW s \in DOMAIN log, Applied(s), UNCHANGED log PROVE CountersBackedByLog'
  <2>1. progress' = Bump(progress, s, log[s])
    BY <1>4 DEF Applied
  <2>2. CASE progress' = progress
    BY <1>4, <2>2 DEF CountersBackedByLog, Committed
  <2>3. CASE /\ log[s] \in CounterKinds /\ progress.seq < s
             /\ progress' = [count |-> [progress.count EXCEPT ![log[s]] = @ + 1], seq |-> s]
    <3> SUFFICES ASSUME NEW k \in CounterKinds
                 PROVE  progress'.count[k] <= Cardinality(Committed(k, s))
      BY <1>4, <2>3 DEF CountersBackedByLog, Committed
    <3>1. progress.count[k] <= Cardinality(Committed(k, progress.seq))
      BY DEF CountersBackedByLog
    <3>2. /\ Cardinality(Committed(k, progress.seq)) <= Cardinality(Committed(k, s))
          /\ log[s] = k => Cardinality(Committed(k, progress.seq)) + 1 <= Cardinality(Committed(k, s))
      BY <1>1, <1>2, <2>3, CommittedAhead
    <3>3. progress'.count[k] = IF log[s] = k THEN progress.count[k] + 1 ELSE progress.count[k]
      BY <1>1, <2>3 DEF Progress
    <3>4. /\ Cardinality(Committed(k, progress.seq)) \in Nat
          /\ Cardinality(Committed(k, s)) \in Nat
      BY <1>2, CommittedFinite
    <3>5. QED
      BY <1>1, <3>1, <3>2, <3>3, <3>4
  <2>4. QED
    BY <2>1, <2>2, <2>3 DEF Bump
<1>5. QED
  BY <1>3, <1>4, TablesOrLog

-----------------------------------------------------------------------------
\* Distinct status events write distinct statuses, and none of them draft.
LEMMA StatusesDiffer ==
  ASSUME NEW k \in StatusKinds
  PROVE  /\ StatusOf(k) \in Statuses \ {"none", "draft"}
         /\ \A j \in StatusKinds : StatusOf(j) = StatusOf(k) => j = k
  BY DEF StatusOf, StatusKinds, Statuses

\* What applying an event may do to the row.
RowMove(s) ==
  \/ row' = row
  \/ /\ row.status = "none" /\ log[s] = "StudyDrafted"
     /\ row' = [status |-> "draft", version |-> 1, seq |-> s]
  \/ /\ row.seq < s /\ log[s] = "SpecUpdated"
     /\ row' = [status |-> row.status, version |-> row.version + 1, seq |-> s]
  \/ /\ row.seq < s /\ log[s] \in StatusKinds /\ row.status # "none"
     /\ row' = [status |-> StatusOf(log[s]), version |-> row.version, seq |-> s]

LEMMA RowMoves ==
  ASSUME NEW s, Applied(s)
  PROVE  RowMove(s)
  BY DEF Applied, ApplyToRow, Accepts, RowMove

LEMMA RowStep ==
  ASSUME TypeOK, FreshNumbers, RowBackedByLog, [Next]_vars
  PROVE  RowBackedByLog'
<1>1. /\ row \in Rows /\ row.seq \in Nat /\ row.version \in Nat
      /\ LogType /\ LogType' /\ LogGrows
  BY TablesOrLog DEF TypeOK, TablesType, Rows
<1>2. CASE UNCHANGED tables
  <2>1. row' = row
    BY <1>2 DEF tables
  <2>2. ASSUME NEW n, n = row.seq
        PROVE  /\ row.version <= 1 + Cardinality(Committed("SpecUpdated", n)')
               /\ \A k \in StatusKinds : row.status = StatusOf(k) => Committed(k, n)' # {}
    <3> DEFINE c == Cardinality(Committed("SpecUpdated", n))
               d == Cardinality(Committed("SpecUpdated", n)')
    <3>1. c \in Nat /\ d \in Nat /\ c <= d
      BY <1>1, CommittedFinite, CommittedStays
    <3>2. row.version <= 1 + c
      BY <2>2 DEF RowBackedByLog
    <3>3. row.version <= 1 + d
      <4> HIDE DEF c, d
      <4> QED
        BY <1>1, <3>1, <3>2
    <3>4. ASSUME NEW k \in StatusKinds, row.status = StatusOf(k)
          PROVE  Committed(k, n)' # {}
      <4>1. Committed(k, n) # {}
        BY <2>2, <3>4 DEF RowBackedByLog
      <4>2. QED
        BY <1>1, <4>1, CommittedStays
    <3>5. QED
      BY <3>3, <3>4
  <2>3. QED
    BY <2>1, <2>2 DEF RowBackedByLog, Committed
<1>3. ASSUME NEW s \in DOMAIN log, RowMove(s), UNCHANGED log PROVE RowBackedByLog'
  <2> SUFFICES ASSUME row' # row
               PROVE  /\ row'.version <= 1 + Cardinality(Committed("SpecUpdated", row'.seq))
                      /\ \A k \in StatusKinds :
                           row'.status = StatusOf(k) => Committed(k, row'.seq) # {}
    BY <1>3 DEF RowBackedByLog, Committed
  <2>1. s \in Nat
    BY <1>1 DEF LogType
  <2>2. CASE row' = [status |-> "draft", version |-> 1, seq |-> s]
    <3>1. Cardinality(Committed("SpecUpdated", s)) \in Nat
      BY <1>1, CommittedFinite
    <3>2. QED
      BY <2>2, <3>1, StatusesDiffer
  <2>3. CASE /\ row.seq < s
             /\ \/ /\ log[s] = "SpecUpdated"
                   /\ row' = [status |-> row.status, version |-> row.version + 1, seq |-> s]
                \/ /\ log[s] \in StatusKinds
                   /\ row' = [status |-> StatusOf(log[s]), version |-> row.version, seq |-> s]
    <3>1. row'.seq = s
      BY <2>3
    <3> DEFINE c == Cardinality(Committed("SpecUpdated", row.seq))
               d == Cardinality(Committed("SpecUpdated", s))
    <3>2. c \in Nat /\ d \in Nat /\ c <= d /\ (log[s] = "SpecUpdated" => c + 1 <= d)
      BY <1>1, <2>3, CommittedFinite, CommittedAhead
    <3>3. row.version <= 1 + c
      BY DEF RowBackedByLog
    <3>4. \/ log[s] = "SpecUpdated" /\ row'.version = row.version + 1
          \/ row'.version = row.version
      BY <2>3
    <3>5. row'.version <= 1 + d
      <4> HIDE DEF c, d
      <4> QED
        BY <1>1, <3>2, <3>3, <3>4
    <3>6. ASSUME NEW k \in StatusKinds, row'.status = StatusOf(k)
          PROVE  Committed(k, s) # {}
      <4>1. CASE row.status = StatusOf(k)
        <5>1. Committed(k, row.seq) # {}
          BY <4>1 DEF RowBackedByLog
        <5>2. Committed(k, row.seq) \subseteq Committed(k, s)
          BY <1>1, <2>3, CommittedAhead
        <5>3. QED
          BY <5>1, <5>2
      <4>2. CASE log[s] \in StatusKinds /\ row'.status = StatusOf(log[s])
        <5>1. log[s] = k
          BY <3>6, <4>2, StatusesDiffer
        <5>2. s \in Committed(k, s)
          BY <2>1, <5>1 DEF Committed
        <5>3. QED
          BY <5>2
      <4>3. QED
        BY <2>3, <3>6, <4>1, <4>2
    <3>7. QED
      BY <3>1, <3>5, <3>6
  <2>4. QED
    BY <1>3, <2>2, <2>3 DEF RowMove
<1>4. QED
  BY <1>2, <1>3, TablesOrLog, RowMoves

-----------------------------------------------------------------------------
IInv == TypeOK /\ FreshNumbers /\ CountersBackedByLog /\ RowBackedByLog

LEMMA InitIInv == Init => IInv
<1> SUFFICES ASSUME Init PROVE IInv
  OBVIOUS
<1>1. TypeOK /\ FreshNumbers
  BY InitTypes
<1>2. \A k, n : Cardinality(Committed(k, n)) \in Nat
  BY <1>1, CommittedFinite DEF TypeOK
<1>3. CountersBackedByLog
  <2>1. progress.seq = 0 /\ \A k \in CounterKinds : progress.count[k] = 0
    BY DEF Init, NoProgress
  <2>2. \A k : Cardinality(Committed(k, progress.seq)) \in Nat
    BY <1>2
  <2>3. \A k \in CounterKinds : 0 <= Cardinality(Committed(k, progress.seq))
    BY <2>2
  <2>4. QED
    BY <2>1, <2>3 DEF CountersBackedByLog
<1>4. RowBackedByLog
  <2>1. CASE row = NoRow
    BY <1>2, <2>1, StatusesDiffer DEF RowBackedByLog, NoRow
  <2>2. CASE log = LiveLog /\ row = LiveRow
    <3>1. 2 \in Committed("SpecUpdated", 3) /\ 3 \in Committed("CampaignPublished", 3)
      BY <2>2 DEF Committed, LiveLog
    <3>2. Cardinality(Committed("SpecUpdated", 3)) # 0
      BY <1>1, <3>1, CommittedFinite, FS_EmptySet DEF TypeOK
    <3>3. row.version <= 1 + Cardinality(Committed("SpecUpdated", 3))
      BY <1>2, <2>2, <3>2 DEF LiveRow
    <3>4. \A k \in StatusKinds : StatusOf(k) = "live" => k = "CampaignPublished"
      BY DEF StatusOf, StatusKinds
    <3>5. QED
      BY <2>2, <3>1, <3>3, <3>4 DEF RowBackedByLog, LiveRow
  <2>3. QED
    BY <2>1, <2>2 DEF Init
<1>5. QED
  BY <1>1, <1>3, <1>4 DEF IInv

LEMMA StepIInv == IInv /\ [Next]_vars => IInv'
  BY TypeStep, CountersStep, RowStep DEF IInv

\* The counters count nothing twice and nothing the log does not hold, for any
\* number of servers and requests.
THEOREM CountersAreBacked == Spec => []CountersBackedByLog
<1>1. IInv => CountersBackedByLog
  BY DEF IInv
<1>2. QED
  BY <1>1, InitIInv, StepIInv, PTL DEF Spec

\* The version and the status of the row are those of committed events.
THEOREM RowIsBacked == Spec => []RowBackedByLog
<1>1. IInv => RowBackedByLog
  BY DEF IInv
<1>2. QED
  BY <1>1, InitIInv, StepIInv, PTL DEF Spec

\* Replays and late notifications never move a study's status back.
THEOREM StatusForward == Spec => StatusMovesForward
<1> DEFINE A == row.status # "none" /\ row'.status # row.status =>
       /\ row'.seq > row.seq
       /\ \E k \in StatusKinds : row'.seq \in Committed(k, lastSeq) /\ row'.status = StatusOf(k)
<1>1. IInv /\ [Next]_vars => [A]_vars
  <2> SUFFICES ASSUME IInv, [Next]_vars, row.status # "none", row'.status # row.status
               PROVE  /\ row'.seq > row.seq
                      /\ \E k \in StatusKinds :
                           row'.seq \in Committed(k, lastSeq) /\ row'.status = StatusOf(k)
    OBVIOUS
  <2>1. row' # row
    OBVIOUS
  <2>2. PICK s \in DOMAIN log : Applied(s)
    BY <2>1, TablesOrLog DEF IInv, tables
  <2>3. /\ row.seq < s /\ log[s] \in StatusKinds
        /\ row' = [status |-> StatusOf(log[s]), version |-> row.version, seq |-> s]
    BY <2>2, RowMoves DEF RowMove
  <2>4. s \in Committed(log[s], lastSeq) /\ s \in Nat /\ row.seq \in Nat
    BY DEF IInv, TypeOK, LogType, TablesType, Rows, Committed
  <2>5. QED
    BY <2>3, <2>4
<1>2. QED
  BY <1>1, InitIInv, StepIInv, PTL DEF Spec, StatusMovesForward

-----------------------------------------------------------------------------
(* What becomes of an event that a server has heard of.                    *)

Same(v) == notified'[v] = notified[v] /\ tail'[v] = tail[v]

\* What a step may do to what server v holds.
HoldShape(v) ==
  \/ UNCHANGED log /\ Same(v)
  \/ \E s : DOMAIN log' = DOMAIN log \cup {s} /\ notified'[v] = notified[v] \cup {s} /\ tail'[v] = tail[v]
  \/ /\ UNCHANGED log
     /\ \E s : Notify(v, s)
  \/ /\ UNCHANGED log /\ tail[v] # <<>> /\ notified'[v] = notified[v] /\ tail'[v] = Tail(tail[v])
     /\ Apply(Head(tail[v]), FALSE) \/ faults' > faults
  \/ UNCHANGED log /\ faults' > faults

LEMMA HoldShapes ==
  ASSUME TypeOK, [Next]_vars, NEW v \in Servers
  PROVE  HoldShape(v)
<1>1. faults \in Nat /\ notified \in [Servers -> SUBSET DOMAIN log] /\ tail \in [Servers -> Seq(DOMAIN log)]
  BY DEF TypeOK, ServersType
<1>2. CASE UNCHANGED <<log, notified, tail>>
  BY <1>2 DEF HoldShape, Same
<1>3. ASSUME NEW p \in Tasks, Commit(p) PROVE HoldShape(v)
  <2>1. PICK s : /\ log' = [t \in DOMAIN log \cup {s} |-> IF t = s THEN Head(task[p].todo) ELSE log[t]]
                 /\ notified' = [w \in Servers |-> notified[w] \cup {s}] /\ tail' = tail
    BY <1>3 DEF Commit
  <2>2. DOMAIN log' = DOMAIN log \cup {s} /\ notified'[v] = notified[v] \cup {s} /\ tail'[v] = tail[v]
    BY <2>1
  <2>3. QED
    BY <2>2 DEF HoldShape
<1>4. ASSUME NEW w \in Servers, NEW s, Notify(w, s) PROVE HoldShape(v)
  <2>1. CASE w = v
    BY <1>4, <2>1 DEF HoldShape, Notify
  <2>2. CASE w # v
    BY <1>1, <1>4, <2>2 DEF HoldShape, Notify, Same
  <2>3. QED
    BY <2>1, <2>2
<1>5. ASSUME NEW w \in Servers, TailApply(w) PROVE HoldShape(v)
  <2>1. CASE w = v
    BY <1>1, <1>5, <2>1 DEF HoldShape, TailApply
  <2>2. CASE w # v
    BY <1>1, <1>5, <2>2 DEF HoldShape, TailApply, Same
  <2>3. QED
    BY <2>1, <2>2
<1>6. ASSUME NEW w \in Servers, TailFault(w) \/ Restart(w) PROVE HoldShape(v)
  <2>1. UNCHANGED log /\ faults' = faults + 1
    BY <1>6 DEF TailFault, Restart
  <2>2. faults' > faults
    BY <1>1, <2>1
  <2>3. QED
    BY <2>1, <2>2 DEF HoldShape
<1>7. ASSUME NEW p \in Tasks, TaskStep(p), ~Commit(p) PROVE UNCHANGED <<log, notified, tail>>
  BY <1>7 DEF TaskStep, Insert, EndWrite, ReadStream, SyncApply, SyncFault, Abort
<1>8. QED
  BY <1>2, <1>3, <1>4, <1>5, <1>6, <1>7 DEF Next, ServerStep, Begin, ExpireMemory, vars

\* For any number of servers, tasks and faults, no countable event slips past the
\* counters except in a fault or at a full queue.
THEOREM OnlyDropsAreLost == Spec => LossesAreDrops
<1> DEFINE B(v) ==
       /\ DOMAIN log' \ DOMAIN log \subseteq Held(v)'
       /\ \A s \in Held(v) \ Held(v)' :
            log[s] \in CounterKinds =>
              \/ progress'.seq >= s
              \/ faults' > faults
              \/ s \in notified[v] /\ Len(tail[v]) >= TailMax
<1>1. ASSUME IInv, [Next]_vars, NEW v \in Servers PROVE B(v)
  <2>1. TypeOK /\ TypeOK' /\ HoldShape(v)
    BY <1>1, HoldShapes, TypeStep DEF IInv
  <2>2. /\ notified[v] \subseteq DOMAIN log /\ tail[v] \in Seq(DOMAIN log) /\ TailMax \in Nat
        /\ \A n \in DOMAIN log : n \in Nat
    BY <2>1, BoundAssumption DEF TypeOK, ServersType, LogType
  <2>3. CASE UNCHANGED log /\ Same(v)
    BY <2>3 DEF Same, Held
  <2>4. ASSUME NEW s, DOMAIN log' = DOMAIN log \cup {s}, notified'[v] = notified[v] \cup {s}, tail'[v] = tail[v]
        PROVE  B(v)
    BY <2>4 DEF Held
  <2>5. ASSUME NEW s, Notify(v, s), UNCHANGED log PROVE B(v)
    <3>1. /\ notified \in [Servers -> SUBSET DOMAIN log] /\ tail \in [Servers -> Seq(DOMAIN log)]
          /\ s \in notified[v] /\ s \in DOMAIN log
      BY <2>1, <2>5 DEF Notify, TypeOK, ServersType
    <3>2. notified'[v] = notified[v] \ {s}
      BY <2>5, <3>1 DEF Notify
    <3>3. tail'[v] = IF Len(tail[v]) < TailMax THEN Append(tail[v], s) ELSE tail[v]
      BY <2>5, <3>1 DEF Notify
    <3>4. CASE Len(tail[v]) < TailMax
      <4>1. tail'[v] = Append(tail[v], s)
        BY <3>3, <3>4
      <4>2. /\ \A i \in DOMAIN tail[v] : i \in DOMAIN tail'[v] /\ tail'[v][i] = tail[v][i]
            /\ Len(tail[v]) + 1 \in DOMAIN tail'[v] /\ tail'[v][Len(tail[v]) + 1] = s
        BY <2>2, <3>1, <4>1
      <4>3. Held(v) \subseteq Held(v)'
        BY <3>2, <4>2 DEF Held
      <4>4. QED
        BY <2>5, <4>3
    <3>5. CASE ~(Len(tail[v]) < TailMax)
      <4>1. tail'[v] = tail[v]
        BY <3>3, <3>5
      <4>2. Len(tail[v]) >= TailMax
        BY <2>2, <3>5
      <4>3. \A t \in Held(v) \ Held(v)' : t = s
        BY <3>2, <4>1 DEF Held
      <4>4. QED
        BY <2>5, <3>1, <4>2, <4>3
    <3>6. QED
      BY <3>4, <3>5
  <2>6. ASSUME UNCHANGED log, tail[v] # <<>>, notified'[v] = notified[v], tail'[v] = Tail(tail[v]),
               Apply(Head(tail[v]), FALSE) \/ faults' > faults
        PROVE  B(v)
    <3>1. \A t \in Held(v) \ Held(v)' : t = Head(tail[v])
      <4>1. \A i \in DOMAIN tail[v] : i # 1 => i - 1 \in DOMAIN Tail(tail[v]) /\ Tail(tail[v])[i - 1] = tail[v][i]
        BY <2>2, <2>6
      <4>2. Head(tail[v]) = tail[v][1]
        BY <2>2, <2>6
      <4>3. QED
        BY <2>6, <4>1, <4>2 DEF Held
    <3>2. Head(tail[v]) \in DOMAIN log
      BY <2>2, <2>6
    <3>3. ASSUME Apply(Head(tail[v]), FALSE), log[Head(tail[v])] \in CounterKinds
          PROVE  progress'.seq >= Head(tail[v])
      <4>1. progress' = Bump(progress, Head(tail[v]), log[Head(tail[v])])
        BY <3>3 DEF Apply, CounterKinds
      <4>2. progress.seq \in Nat /\ Head(tail[v]) \in Nat
        BY <2>1, <2>2, <3>2 DEF TypeOK, TablesType, Progress
      <4>3. QED
        BY <3>3, <4>1, <4>2 DEF Bump
    <3>4. QED
      BY <2>6, <3>1, <3>3
  <2>7. CASE UNCHANGED log /\ faults' > faults
    BY <2>7
  <2>8. QED
    BY <2>1, <2>3, <2>4, <2>5, <2>6, <2>7 DEF HoldShape
<1>2. IInv /\ [Next]_vars => [\A v \in Servers : B(v)]_vars
  BY <1>1
<1>3. QED
  BY <1>2, InitIInv, StepIInv, PTL DEF Spec, LossesAreDrops

-----------------------------------------------------------------------------
(* Refinement: the countable events of the log and the snapshot behave as  *)
(* the facts, the counters and the cursor of AtMostOnceCounters.           *)

CountedEvents == {t \in DOMAIN log : log[t] \in CounterKinds}
Facts == [s \in CountedEvents |-> log[s]]

LEMMA InitCounters == Init => Counters!Init
<1> SUFFICES ASSUME Init PROVE Counters!Init
  OBVIOUS
<1>1. CountedEvents = {}
  BY DEF Init, CountedEvents, NoEvents, LiveLog, CounterKinds
<1>2. Facts = [n \in {} |-> ""]
  BY <1>1 DEF Facts
<1>3. QED
  BY <1>2 DEF Init, Counters!Init, NoProgress, Facts, CountedEvents

\* A commit records a fact, or an event that nobody counts.
LEMMA CommitCounters ==
  ASSUME TypeOK, TypeOK', LogGrows, UNCHANGED tables, NEW n \in 1..lastSeq, OneMore(n)
  PROVE  [Counters!Next]_<<Facts, progress.count, progress.seq>>
<1>1. n \in 1..MaxSeq
  BY BoundAssumption DEF TypeOK, LogType
<1>2. UNCHANGED <<progress.count, progress.seq>>
  BY DEF tables
<1>3. ASSUME NEW k \in CounterKinds, log'[n] = k
      PROVE  [Counters!Next]_<<Facts, progress.count, progress.seq>>
  <2>1. CountedEvents' = CountedEvents \cup {n} /\ n \notin CountedEvents
    BY <1>3 DEF CountedEvents, OneMore, LogGrows
  <2>2. Facts' = [m \in CountedEvents \cup {n} |-> IF m = n THEN k ELSE Facts[m]]
    BY <1>3, <2>1 DEF Facts, LogGrows, CountedEvents
  <2>3. DOMAIN Facts = CountedEvents
    BY DEF Facts
  <2>4. Counters!Record(n, k)
    BY <1>2, <2>1, <2>2, <2>3 DEF Counters!Record, Facts, CountedEvents
  <2>5. \E m \in 1..MaxSeq, j \in CounterKinds : Counters!Record(m, j)
    BY <1>1, <2>4
  <2>6. Counters!Next
    BY <2>5 DEF Counters!Next
  <2>7. QED
    BY <2>6
<1>4. CASE log'[n] \notin CounterKinds
  <2>1. CountedEvents' = CountedEvents
    BY <1>4 DEF CountedEvents, OneMore, LogGrows
  <2>2. Facts' = Facts
    BY <2>1 DEF Facts, LogGrows, CountedEvents
  <2>3. QED
    BY <1>2, <2>2
<1>5. QED
  BY <1>3, <1>4

\* Applying an event counts one fact past the cursor, or none.
LEMMA ApplyCounters ==
  ASSUME TypeOK, UNCHANGED log, NEW s \in DOMAIN log, Applied(s)
  PROVE  [Counters!Next]_<<Facts, progress.count, progress.seq>>
<1>1. Facts' = Facts
  BY DEF Facts, CountedEvents
<1>2. progress' = Bump(progress, s, log[s])
  BY DEF Applied
<1>3. CASE progress' = progress
  BY <1>1, <1>3
<1>4. CASE /\ log[s] \in CounterKinds /\ progress.seq < s
           /\ progress' = [count |-> [progress.count EXCEPT ![log[s]] = @ + 1], seq |-> s]
  <2>1. s \in DOMAIN Facts /\ Facts[s] = log[s]
    BY <1>4 DEF Facts, CountedEvents
  <2>2. s \in Nat /\ progress.seq \in Nat
    BY DEF TypeOK, LogType, TablesType, Progress
  <2>3. Counters!Count(s)
    BY <1>1, <1>4, <2>1, <2>2 DEF Counters!Count, Facts, CountedEvents
  <2>4. QED
    BY <2>1, <2>3 DEF Counters!Next, Facts, CountedEvents
<1>5. QED
  BY <1>2, <1>3, <1>4 DEF Bump

\* Whatever the interleaving of tasks and tail loops, faults and restarts, the
\* pipeline counts each event at most once, in the order of the cursor.
THEOREM CountsOnce == Spec => CountsAtMostOnce
<1>1. IInv /\ [Next]_vars => [Counters!Next]_<<Facts, progress.count, progress.seq>>
  <2> SUFFICES ASSUME IInv, [Next]_vars
               PROVE  [Counters!Next]_<<Facts, progress.count, progress.seq>>
    OBVIOUS
  <2>1. TypeOK /\ FreshNumbers /\ TypeOK' /\ StepShape
    BY ShapeOfSteps, TypeStep DEF IInv
  <2>2. CASE UNCHANGED log /\ UNCHANGED tables
    BY <2>2 DEF Facts, CountedEvents, tables
  <2>3. CASE UNCHANGED tables /\ \E s \in 1..lastSeq : OneMore(s)
    BY <2>1, <2>3, CommitCounters DEF StepShape
  <2>4. CASE UNCHANGED log /\ \E s \in DOMAIN log : Applied(s)
    BY <2>1, <2>4, ApplyCounters
  <2>5. QED
    BY <2>1, <2>2, <2>3, <2>4 DEF StepShape
<1>2. QED
  BY <1>1, InitCounters, InitIInv, StepIInv, PTL
  DEF Spec, CountsAtMostOnce, Counters!Spec, Facts, CountedEvents
=============================================================================
