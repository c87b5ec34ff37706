-------------------------- MODULE InterviewSession --------------------------
(***************************************************************************)
(* One interview, from the moment a respondent has joined: the handlers    *)
(* that take the respondent's replies, the interview's memory in Redis and *)
(* the interview's events in the event store.                              *)
(*                                                                         *)
(* A client is a browser tab on /ws/interview or a caller of /reply, with  *)
(* the handler that serves it.  A resume token is good for several tabs,   *)
(* and a handler whose client went away still ends its turn, so handlers   *)
(* interleave.  Each await of a handler is a step of its own:              *)
(*                                                                         *)
(*   idle -> hydrate (-> replay) -> fetch -> put                           *)
(*        -> context -> think -> persist -> fetch -> put -> idle           *)
(*                                                                         *)
(* The first line is hydrate_respondent_interview_context, the second      *)
(* Harness.handle.  Both end in RedisMemory.update, which reads the whole  *)
(* memory ("fetch") and writes it back changed ("put").                    *)
(***************************************************************************)
EXTENDS InterviewGuide, FiniteSets, SequencesExt

CONSTANTS
  Clients,
  Guides,      \* the guides the study may have: one, unless it is refined meanwhile
  MaxReplies,  \* bound: replies that clients send
  Upsets,      \* what may come between: failures, and changes of the study
  MaxUpsets    \* bound: how often

ASSUME GuideAssumption ==
  /\ Guides # {}
  /\ \A guide \in Guides :
       /\ guide \in Seq(Items)
       /\ \A m, n \in DOMAIN guide : guide[m] = guide[n] => m = n
ASSUME SessionAssumption ==
  /\ MaxReplies \in Nat /\ MaxUpsets \in Nat
  /\ Upsets \subseteq {"llm", "abort", "expire", "lapse", "refine"}

VARIABLES
  guide,    \* the outline in the study's spec
  log,      \* the interview's TurnRecorded and InterviewCompleted events
  memory,   \* the interview's key in Redis
  client,   \* the handlers
  replies,  \* replies sent
  upsets    \* upsets so far

vars == <<guide, log, memory, client, replies, upsets>>

-----------------------------------------------------------------------------
\* `turns` is the length of interview_history; the history is absent until
\* someone hydrates the memory.
Memories == [present : BOOLEAN, turns : Nat, place : Places]
Nothing  == [present |-> FALSE, turns |-> 0, place |-> Start]

\* The opening question is in the history of a websocket interview only, and
\* is not recorded in the event store.
Opened(n) == [Nothing EXCEPT !.present = TRUE, !.turns = n]

Respondent(n)        == [role |-> "respondent", order |-> n, item |-> NoItem, kind |-> "reply", stop |-> FALSE]
Interviewer(n, turn) == [role |-> "interviewer", order |-> n, item |-> turn.item, kind |-> turn.kind, stop |-> FALSE]
Completed(stop)      == [role |-> "completed", order |-> 0, item |-> NoItem, kind |-> "wrap_up", stop |-> stop]

Turns     == {n \in DOMAIN log : log[n].role # "completed"}
IsOver    == \E n \in DOMAIN log : log[n].role = "completed"

\* What a handler knows: where it is, what it does after writing memory, the
\* guide and the memory it has read, what it writes, and what it still appends.
Idle ==
  [pc |-> "idle", then |-> "idle", write |-> "none", guide |-> <<>>, base |-> Nothing,
   delta |-> Nothing, todo |-> <<>>]

\* RedisMemory.update merges the fields of the delta into what it has read.
\* Hydrating changes the elapsed time only, or restores history and coverage.
Merged(write, base, delta) ==
  CASE write = "touch"   -> base
    [] write = "restore" -> [base EXCEPT !.present = TRUE, !.turns = delta.turns,
                                         !.place.coverage = Start.coverage]
    [] write = "turn"    -> delta

-----------------------------------------------------------------------------
\* The respondent has joined: through the websocket, which greets with the
\* first question, through /join, or with a memory that could not be written.
Init ==
  /\ guide \in Guides
  /\ log = <<>>
  /\ memory \in {Opened(1), Opened(0), Nothing}
  /\ client = [c \in Clients |-> Idle]
  /\ replies = 0 /\ upsets = 0

\* A reply arrives: on a websocket that is open, whatever has happened to the
\* interview since it was opened, or as a request, which checks nothing either.
Receive(c) ==
  /\ client[c].pc = "idle" /\ replies < MaxReplies
  /\ replies' = replies + 1
  /\ client' = [client EXCEPT ![c].pc = "hydrate", ![c].then = "context"]
  /\ UNCHANGED <<guide, log, memory, upsets>>

\* A client opens the websocket again with its resume token.
Resume(c) ==
  /\ client[c].pc = "idle" /\ ~IsOver
  /\ client' = [client EXCEPT ![c].pc = "hydrate"]
  /\ UNCHANGED <<guide, log, memory, replies, upsets>>

Hydrate(c) ==
  /\ client[c].pc = "hydrate"
  /\ client' = [client EXCEPT ![c].pc    = IF memory.present THEN "fetch" ELSE "replay",
                              ![c].write = IF memory.present THEN "touch" ELSE "restore"]
  /\ UNCHANGED <<guide, log, memory, replies, upsets>>

\* Mutant of Replay: the history is not restored from the event store.
ReplayNothing(c) ==
  /\ client[c].pc = "replay"
  /\ client' = [client EXCEPT ![c].pc = "fetch", ![c].delta = Opened(0)]
  /\ UNCHANGED <<guide, log, memory, replies, upsets>>

\* The history that was lost is read back from the event store.
Replay(c) ==
  /\ client[c].pc = "replay"
  /\ client' = [client EXCEPT ![c].pc = "fetch", ![c].delta = Opened(Cardinality(Turns))]
  /\ UNCHANGED <<guide, log, memory, replies, upsets>>

Fetch(c) ==
  /\ client[c].pc = "fetch"
  /\ client' = [client EXCEPT ![c].pc = "put", ![c].base = memory]
  /\ UNCHANGED <<guide, log, memory, replies, upsets>>

Put(c) ==
  LET t == client[c] IN
  /\ t.pc = "put"
  /\ memory' = Merged(t.write, t.base, t.delta)
  /\ client' = [client EXCEPT ![c] = [Idle EXCEPT !.pc = t.then]]
  /\ UNCHANGED <<guide, log, replies, upsets>>

\* _load_context: the study's memory and the interview's.
LoadContext(c) ==
  /\ client[c].pc = "context"
  /\ client' = [client EXCEPT ![c].pc = "think", ![c].guide = guide, ![c].base = memory]
  /\ UNCHANGED <<guide, log, memory, replies, upsets>>

\* The model has answered and the interviewer agent has made its turn: the
\* harness first appends the events, then updates the memory.
Think(c) ==
  LET t == client[c] IN
  /\ t.pc = "think"
  /\ \E said \in Actions, stop \in BOOLEAN :
       LET n    == t.base.turns
           turn == Turn(t.guide, t.base.place, said, stop)
           done == IF turn.kind = "wrap_up" THEN <<Completed(stop)>> ELSE <<>>
       IN client' = [client EXCEPT ![c] =
            [t EXCEPT !.pc = "persist", !.write = "turn", !.base = Nothing,
                      !.todo = <<Respondent(n + 1), Interviewer(n + 2, turn)>> \o done,
                      !.delta = [present |-> TRUE, turns |-> n + 2, place |-> turn.place]]]
  /\ UNCHANGED <<guide, log, memory, replies, upsets>>

\* Mutant of Persist: it does not see that the event was the last one.
PersistPastTheLast(c) ==
  LET t == client[c] IN
  /\ t.pc = "persist"
  /\ log' = Append(log, Head(t.todo))
  /\ client' = [client EXCEPT ![c].todo = Tail(@),
                              ![c].pc = IF t.todo = <<>> THEN "fetch" ELSE "persist"]
  /\ UNCHANGED <<guide, memory, replies, upsets>>

\* append_many: one INSERT after the other.
Persist(c) ==
  LET t == client[c] IN
  /\ t.pc = "persist"
  /\ log' = Append(log, Head(t.todo))
  /\ client' = [client EXCEPT ![c].todo = Tail(@),
                              ![c].pc = IF Len(t.todo) = 1 THEN "fetch" ELSE "persist"]
  /\ UNCHANGED <<guide, memory, replies, upsets>>

-----------------------------------------------------------------------------
Upset(kind) == kind \in Upsets /\ upsets < MaxUpsets /\ upsets' = upsets + 1

\* The model is unavailable: the respondent may try again.
ModelFails(c) ==
  /\ client[c].pc = "think" /\ Upset("llm")
  /\ client' = [client EXCEPT ![c] = Idle]
  /\ UNCHANGED <<guide, log, memory, replies>>

\* Mutant of Abort: an event that was not stored does not end the turn.
AbortIgnored(c) ==
  /\ client[c].pc # "idle" /\ Upset("abort")
  /\ client' = [client EXCEPT ![c] = IF @.pc = "persist" THEN [@ EXCEPT !.pc = "fetch"] ELSE Idle]
  /\ UNCHANGED <<guide, log, memory, replies>>

\* The process dies or the event store fails: the turn ends where it is.
Abort(c) ==
  /\ client[c].pc # "idle" /\ Upset("abort")
  /\ client' = [client EXCEPT ![c] = Idle]
  /\ UNCHANGED <<guide, log, memory, replies>>

\* memory_ttl_seconds have passed since the memory was written, or Redis has
\* lost it: at any time, or while the respondent is away.
Expire ==
  /\ memory.present
  /\ \/ Upset("expire")
     \/ Upset("lapse") /\ \A c \in Clients : client[c].pc = "idle"
  /\ memory' = Nothing
  /\ UNCHANGED <<guide, log, client, replies>>

\* The researcher refines the study while the interview goes on.
Refine ==
  /\ Upset("refine")
  /\ guide' \in Guides \ {guide}
  /\ UNCHANGED <<log, memory, client, replies>>

Handle(c) ==
  \/ Hydrate(c)
  \/ Replay(c)
  \/ Fetch(c)
  \/ Put(c)
  \/ LoadContext(c)
  \/ Think(c)
  \/ Persist(c)

Next ==
  \/ \E c \in Clients : Receive(c) \/ Resume(c) \/ Handle(c) \/ ModelFails(c) \/ Abort(c)
  \/ Expire
  \/ Refine

Spec == Init /\ [][Next]_vars

-----------------------------------------------------------------------------
Events ==
  [role : {"respondent", "interviewer", "completed"}, order : Nat, item : Items \cup {NoItem},
   kind : {"reply", "ask", "probe", "acknowledge_and_move", "wrap_up"}, stop : BOOLEAN]

Handlers ==
  [pc    : {"idle", "hydrate", "replay", "fetch", "put", "context", "think", "persist"},
   then  : {"idle", "context"},
   write : {"none", "touch", "restore", "turn"},
   guide : Seq(Items), base : Memories, delta : Memories, todo : Seq(Events)]

\* The type of every variable.
TypeOK ==
  /\ guide \in Guides
  /\ log \in Seq(Events)
  /\ memory \in Memories
  /\ client \in [Clients -> Handlers]
  /\ \A c \in Clients :
       /\ client[c].pc = "persist" => client[c].todo # <<>> /\ client[c].write = "turn"
       /\ client[c].pc \in {"replay", "fetch", "put"} => client[c].write # "none"
  /\ replies \in 0..MaxReplies /\ upsets \in 0..MaxUpsets

\* What build_campaign_evidence takes for covered: an item that an interviewer
\* turn refers to, and the first one, which the greeting asked.
Asked(i, g) ==
  \/ g # <<>> /\ g[1] = i
  \/ \E n \in DOMAIN log : log[n].role = "interviewer" /\ log[n].item = i

\* No interview ends early: when the interviewer is about to record the
\* completion of an interview that the respondent did not stop, the transcript
\* covers every item of the guide -- whatever the model says, after a crash or
\* the loss of the memory, and with several tabs open (_normalize_action
\* "cannot skip guide items, ... or report zero coverage").
CompletionCoversGuide ==
  \A c \in Clients :
    LET t == client[c] IN
    (t.pc = "persist" /\ Head(t.todo).role = "completed" /\ ~Head(t.todo).stop) =>
      \A i \in Range(t.guide) : Asked(i, t.guide)

\* The memory never knows a turn that the event store does not have, but for
\* the greeting: the events are appended before the memory is updated.
MemoryBehindLog == memory.turns <= Cardinality(Turns) + 1

\* Sorting the turns by `order`, as the evidence view does, keeps the order in
\* which they were recorded.
TranscriptInOrder ==
  \A m, n \in Turns : m < n => log[m].order <= log[n].order

\* The replies that a guide leaves room for: one to each item, and one to each of
\* its follow-ups.
Room(outline) == UNION {{n} \X (0 .. Limit[outline[n]]) : n \in DOMAIN outline}

\* However the model labels the turns, an interview needs no more replies than
\* one for each item and each follow-up of the guide, and as many again each
\* time the memory is lost.
RepliesBounded ==
  LET replied == Cardinality({n \in Turns : log[n].role = "respondent"})
  IN  guide # <<>> /\ ~IsOver => replied <= (upsets + 1) * Cardinality(Room(guide))

=============================================================================
