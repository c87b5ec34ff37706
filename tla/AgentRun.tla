------------------------------ MODULE AgentRun ------------------------------
(***************************************************************************)
(* One durable run of the conversational agent: the tool-calling loop that *)
(* drives it, the events it appends to agent_run_events, the confirmations *)
(* its outward actions wait for, and the recovery at the start of a        *)
(* server.                                                                 *)
(*                                                                         *)
(* OrchestratorAgent.chat is a generator and _drive_run appends each event *)
(* it yields before it asks for the next one.  So a driver has a queue     *)
(* `out` of the events it is about to yield, and takes its next decision   *)
(* when the queue is empty:                                                *)
(*                                                                         *)
(*   thinking -> asking (<-> waiting) -> executing -> thinking             *)
(*   thinking, closing -> ending -> idle                                   *)
(*   reading -> thinking, stopping -> idle         at the start of a server *)
(*                                                                         *)
(* A failure of the store or of a tool's plumbing leads to `failing`, the  *)
(* exception handler of _drive_run; `stopping` has no handler, a failure   *)
(* there ends the process.                                                 *)
(***************************************************************************)
EXTENDS FiniteSets, SequencesExt

CONSTANTS
  Servers,
  Calls,       \* what a tool_use block stands for: each is requested at most once
  Outward,     \* the calls of start_campaign, dispatch_invites and push_insights
  NoCall,
  MaxTurns,    \* max_turns
  MaxBatch,    \* bound: calls in one answer of the model
  MaxUpsets    \* bound: servers that stop, statements that raise, connections lost

ASSUME AgentAssumption ==
  /\ Outward \subseteq Calls /\ NoCall \notin Calls
  /\ MaxTurns \in Nat \ {0} /\ MaxBatch \in Nat /\ MaxUpsets \in Nat

VARIABLES
  status,        \* of the row in agent_runs
  log,           \* its agent_run_events by seq
  confirmation,  \* agent_run_confirmations: "none", "pending", "approved" or "denied"
  performed,     \* the calls whose side effect has happened
  drive,         \* what each server does for this run
  up,            \* the servers that are running
  upsets,        \* stops, failures and lost connections so far
  orphaned       \* history: the driver ended and could not write the run's final status

run == <<status, log, confirmation, performed>>
vars == <<run, drive, up, upsets, orphaned>>

-----------------------------------------------------------------------------
(* Events and conversations.  A message of a conversation is known by its   *)
(* author and the calls its tool blocks name; usage, plan_update,           *)
(* compaction and verification events change nothing here.                  *)
Kinds == {"text", "confirm_request", "confirmation_result", "tool_call", "tool_result",
          "tool_error", "done", "incomplete", "error"}
Event(kind, call) == [kind |-> kind, call |-> call]
Note(kind)        == <<Event(kind, NoCall)>>
Said(text)        == IF text THEN Note("text") ELSE <<>>

Answers == {"tool_result", "tool_error"}
Uses(calls)    == [role |-> "assistant", calls |-> calls]
Results(calls) == [role |-> "user", calls |-> calls]

\* `incomplete` is a done event whose status is incomplete.
Logged(kind, call) == \E n \in DOMAIN log : log[n] = Event(kind, call)

-----------------------------------------------------------------------------
(* _rebuild_conversation *)
Scan == [convo |-> <<>>, said |-> FALSE, uses |-> {}, results |-> {}, pending |-> {}]

FlushUses(r) ==
  IF r.said \/ r.uses # {}
  THEN [r EXCEPT !.convo = Append(@, Uses(r.uses)), !.said = FALSE, !.uses = {}]
  ELSE r
FlushResults(r) ==
  IF r.results # {}
  THEN [r EXCEPT !.convo = Append(@, Results(r.results)), !.results = {}]
  ELSE r

Replayed(r, event) ==
  CASE event.kind = "text" ->
         [FlushUses(FlushResults(r)) EXCEPT !.said = TRUE]
    [] event.kind = "tool_call" ->
         [r EXCEPT !.pending = @ \union {event.call}, !.uses = @ \union {event.call}]
    [] event.kind \in Answers ->
         [FlushUses(r) EXCEPT !.pending = @ \ {event.call}, !.results = @ \union {event.call}]
    [] OTHER -> r

\* A fold over the events; the singleton has TLC evaluate a prefix only once.
Rebuilt(events) ==
  LET scan[n \in 0..Len(events)] ==
        IF n = 0 THEN {Scan} ELSE {Replayed(r, events[n]) : r \in scan[n - 1]}
  IN CHOOSE r \in {FlushResults(FlushUses(q)) : q \in scan[Len(events)]} : TRUE
\* A mistake: only a call that is the last event is taken for unanswered.
LastUncertain(events) == events # <<>> /\ Last(events).kind = "tool_call"

Uncertain(events) == Rebuilt(events).pending # {}

-----------------------------------------------------------------------------
Idle ==
  [pc |-> "idle", turn |-> 0, convo |-> <<>>, calls |-> <<>>, allowed |-> <<>>,
   outcome |-> <<>>, out |-> <<>>, final |-> "completed"]
Thinking(convo) == [Idle EXCEPT !.pc = "thinking", !.convo = convo]

\* A call that no answer of the model has asked for yet.
Fresh == {c \in Calls : /\ confirmation[c] = "none"
                        /\ ~Logged("tool_call", c) /\ ~Logged("tool_error", c)
                        /\ \A s \in Servers : c \notin Range(drive[s].calls)}
Batches == {calls \in UNION {[1..k -> Fresh] : k \in 1..MaxBatch} : IsInjective(calls)}

\* The driver of s goes from one of the places `pcs`, its events all appended.
At(s, pcs) == drive[s].pc \in pcs /\ drive[s].out = <<>>
Goes(s, d) == drive' = [drive EXCEPT ![s] = d]

Upset == upsets < MaxUpsets /\ upsets' = upsets + 1

-----------------------------------------------------------------------------
\* create_agent_run: the row is inserted and one server drives the run.
Init ==
  /\ status = "running" /\ log = <<>>
  /\ confirmation = [c \in Calls |-> "none"] /\ performed = {}
  /\ \E s \in Servers :
       /\ up = {s}
       /\ drive = [t \in Servers |-> IF t = s THEN Thinking(<<>>) ELSE Idle]
  /\ upsets = 0 /\ orphaned = FALSE

\* store.append of the next event the generator has yielded.
Emit(s) ==
  /\ drive[s].out # <<>>
  /\ log' = Append(log, Head(drive[s].out))
  /\ Goes(s, [drive[s] EXCEPT !.out = Tail(@)])
  /\ UNCHANGED <<status, confirmation, performed, up, upsets, orphaned>>

\* llm.complete: it fails, it answers, or it asks for tools.
Think(s) ==
  /\ At(s, {"thinking"})
  /\ \/ Goes(s, [drive[s] EXCEPT !.pc = "ending", !.out = Note("error"), !.final = "failed"])
     \/ \E text \in BOOLEAN :
          Goes(s, [drive[s] EXCEPT !.pc = "ending", !.out = Said(text) \o Note("done")])
     \/ \E text \in BOOLEAN, calls \in Batches :
          Goes(s, [drive[s] EXCEPT !.pc = "asking", !.out = Said(text), !.calls = calls,
                                   !.allowed = <<>>])
  /\ UNCHANGED <<run, up, upsets, orphaned>>

\* The next call of the batch: announced, or first put to the user.
Ask(s) ==
  LET d == drive[s]
      call == d.calls[Len(d.allowed) + 1]
  IN /\ At(s, {"asking"}) /\ Len(d.allowed) < Len(d.calls)
     /\ IF call \in Outward
        THEN /\ confirmation' = [confirmation EXCEPT ![call] = "pending"]
             /\ Goes(s, [d EXCEPT !.pc = "waiting", !.out = <<Event("confirm_request", call)>>])
        ELSE /\ Goes(s, [d EXCEPT !.allowed = Append(@, TRUE), !.out = <<Event("tool_call", call)>>])
             /\ UNCHANGED confirmation
     /\ UNCHANGED <<status, log, performed, up, upsets, orphaned>>

\* A mistake: the wait has no deadline.
DecideWithoutDeadline(s) ==
  LET d == drive[s]
      call == d.calls[Len(d.allowed) + 1]
  IN /\ At(s, {"waiting"}) /\ confirmation[call] # "pending"
     /\ Goes(s, [d EXCEPT !.pc = "asking", !.allowed = Append(@, confirmation[call] = "approved"),
            !.out = <<Event("confirmation_result", call)>> \o
                    (IF confirmation[call] = "approved" THEN <<Event("tool_call", call)>> ELSE <<>>)])
     /\ UNCHANGED <<run, up, upsets, orphaned>>

\* _wait_for_confirmation: the wait ends early with the user's decision, or
\* with a refusal after ten minutes, whatever happens to the row afterwards.
Decide(s) ==
  LET d == drive[s]
      call == d.calls[Len(d.allowed) + 1]
  IN /\ At(s, {"waiting"})
     /\ \E approved \in BOOLEAN :
          /\ approved => confirmation[call] = "approved"
          /\ Goes(s, [d EXCEPT !.pc = "asking", !.allowed = Append(@, approved),
                 !.out = <<Event("confirmation_result", call)>> \o
                         (IF approved THEN <<Event("tool_call", call)>> ELSE <<>>)])
     /\ UNCHANGED <<run, up, upsets, orphaned>>

\* All calls are decided: asyncio.gather starts the allowed ones.
Gather(s) ==
  LET d == drive[s] IN
  /\ At(s, {"asking"}) /\ Len(d.allowed) = Len(d.calls)
  /\ Goes(s, [d EXCEPT !.pc = "executing",
         !.outcome = [n \in DOMAIN d.calls |-> IF d.allowed[n] THEN "none" ELSE "tool_error"]])
  /\ UNCHANGED <<run, up, upsets, orphaned>>

\* _execute_tool; a handler that raises may have acted before it did.
Execute(s) ==
  /\ At(s, {"executing"})
  /\ \E n \in DOMAIN drive[s].calls, answer \in Answers, acts \in BOOLEAN :
       /\ drive[s].outcome[n] = "none"
       /\ answer = "tool_result" => acts
       /\ performed' = IF acts THEN performed \union {drive[s].calls[n]} ELSE performed
       /\ Goes(s, [drive[s] EXCEPT !.outcome[n] = answer])
  /\ UNCHANGED <<status, log, confirmation, up, upsets, orphaned>>

\* The results are yielded in the order of the calls, and the model is asked
\* again, or for a last answer without tools when its turns are used up.
Collect(s) ==
  LET d == drive[s] IN
  /\ At(s, {"executing"}) /\ "none" \notin Range(d.outcome)
  /\ Goes(s, [d EXCEPT !.turn = @ + 1,
         !.pc = IF d.turn + 1 < MaxTurns THEN "thinking" ELSE "closing",
         !.out = [n \in DOMAIN d.calls |-> Event(d.outcome[n], d.calls[n])],
         !.convo = @ \o <<Uses(Range(d.calls)), Results(Range(d.calls))>>,
         !.calls = <<>>, !.allowed = <<>>, !.outcome = <<>>])
  /\ UNCHANGED <<run, up, upsets, orphaned>>

\* The tool-free synthesis succeeds, or the run is left incomplete.
Close(s) ==
  /\ At(s, {"closing"})
  /\ \/ Goes(s, [drive[s] EXCEPT !.pc = "ending", !.out = Note("text") \o Note("done")])
     \/ Goes(s, [drive[s] EXCEPT !.pc = "ending", !.out = Note("incomplete"), !.final = "incomplete"])
  /\ UNCHANGED <<run, up, upsets, orphaned>>

\* store.finish; it may fail as well, and the row stays as it is.
Finish(s) ==
  /\ At(s, {"ending", "failing", "stopping"})
  /\ Goes(s, Idle)
  /\ \/ status' = drive[s].final /\ UNCHANGED <<upsets, orphaned>>
     \/ /\ drive[s].pc # "stopping"
        /\ Upset /\ orphaned' = TRUE /\ UNCHANGED status
  /\ UNCHANGED <<log, confirmation, performed, up>>

\* A statement raises, with or without its effect: the append of an event, or
\* a read or write between two events.  gather does not stop the other tools.
\* Inside the handler itself a second failure goes straight to finish.
Fail(s) ==
  LET d == drive[s]
      failing == [Idle EXCEPT !.pc = "failing", !.final = "failed",
                    !.out = IF d.pc = "failing" THEN <<>> ELSE Note("error")]
      running == {d.calls[n] : n \in {m \in DOMAIN d.outcome : d.outcome[m] = "none"}}
  IN /\ Upset
     /\ d.pc \notin {"idle", "reading", "stopping"}
     /\ d.out = <<>> => \/ d.pc \in {"thinking", "waiting", "executing"}
                        \/ /\ d.pc = "asking" /\ Len(d.allowed) < Len(d.calls)
                           /\ d.calls[Len(d.allowed) + 1] \in Outward
     /\ \/ d.out # <<>> /\ log' = Append(log, Head(d.out))
        \/ UNCHANGED log
     /\ \E acted \in SUBSET running : performed' = performed \union acted
     /\ Goes(s, failing)
     /\ UNCHANGED <<status, confirmation, up, orphaned>>

-----------------------------------------------------------------------------
\* A mistake: a cancelled driver writes a final status too.
CrashFinishes(s) ==
  /\ s \in up /\ Upset
  /\ up' = up \ {s}
  /\ Goes(s, Idle)
  /\ status' = IF drive[s].pc \in {"idle", "reading"} THEN status ELSE drive[s].final
  /\ UNCHANGED <<log, confirmation, performed, orphaned>>

\* The process stops: shutdown cancels the driver, and its row stays running.
Crash(s) ==
  /\ s \in up /\ Upset
  /\ up' = up \ {s}
  /\ Goes(s, Idle)
  /\ UNCHANGED <<run, orphaned>>

\* A mistake: every run is resumed.
StartAny(s) ==
  /\ s \notin up
  /\ up' = up \union {s}
  /\ Goes(s, [Idle EXCEPT !.pc = "reading"])
  /\ orphaned' = FALSE
  /\ UNCHANGED <<run, upsets>>

\* resume_incomplete_agent_runs lists the runs that are running,
Start(s) ==
  /\ s \notin up
  /\ up' = up \union {s}
  /\ Goes(s, IF status = "running" THEN [Idle EXCEPT !.pc = "reading"] ELSE Idle)
  /\ orphaned' = FALSE
  /\ UNCHANGED <<run, upsets>>

\* and reads the run's events: it is driven again, or given up.
Recover(s) ==
  /\ At(s, {"reading"})
  /\ Goes(s, IF Uncertain(log)
             THEN [Idle EXCEPT !.pc = "stopping", !.out = Note("incomplete"), !.final = "incomplete"]
             ELSE Thinking(Rebuilt(log).convo))
  /\ UNCHANGED <<run, up, upsets, orphaned>>

\* A mistake: a later answer replaces an earlier one.
ResolveAgain(call, decision) ==
  /\ up # {}
  /\ Logged("confirm_request", call)
  /\ confirmation' = [confirmation EXCEPT ![call] = decision]
  /\ UNCHANGED <<status, log, performed, drive, up, upsets, orphaned>>

\* The user answers a confirmation whose id an event has shown.
Resolve(call, decision) ==
  /\ up # {}
  /\ Logged("confirm_request", call)
  /\ confirmation[call] = "pending"
  /\ confirmation' = [confirmation EXCEPT ![call] = decision]
  /\ UNCHANGED <<status, log, performed, drive, up, upsets, orphaned>>

-----------------------------------------------------------------------------
Step(s) ==
  \/ Emit(s) \/ Think(s) \/ Ask(s) \/ Decide(s) \/ Gather(s) \/ Execute(s)
  \/ Collect(s) \/ Close(s) \/ Finish(s) \/ Start(s) \/ Recover(s)

Next ==
  \/ \E s \in Servers : Step(s) \/ Fail(s) \/ Crash(s)
  \/ \E call \in Calls, decision \in {"approved", "denied"} : Resolve(call, decision)

\* A server runs its tasks, a wait times out, and a machine is started again.
\* What the user does is not promised.
Fairness == \A s \in Servers : WF_vars(Step(s))
Spec == Init /\ [][Next]_vars /\ Fairness

-----------------------------------------------------------------------------
Places == {"idle", "reading", "stopping", "thinking", "asking", "waiting", "executing",
           "closing", "ending", "failing"}
Events   == [kind : Kinds, call : Calls \union {NoCall}]

Answered(convo) == UNION {convo[n].calls : n \in {m \in DOMAIN convo : convo[m].role = "user"}}

\* An outward-facing call acts only under a confirmation that the user has
\* approved and that stays approved (main.py:387-417, resolve_confirmation).
ActsOnlyIfApproved == \A c \in performed \intersect Outward : confirmation[c] = "approved"

\* Whenever the model is asked what to do next, by a first driver or by one
\* that recovered the run, it is told of every side effect the run has had:
\* "automatic retry is unsafe because the side effect may already exist"
\* (routers/agent.py:232).
ModelKnowsEffects ==
  \A s \in Servers : drive[s].pc \in {"thinking", "closing"} => performed \subseteq Answered(drive[s].convo)

\* The status of an ended run says what its last event says.
StatusMatchesLog ==
  /\ status = "completed" => log # <<>> /\ Last(log) = Event("done", NoCall)
  /\ status = "incomplete" => log # <<>> /\ Last(log) = Event("incomplete", NoCall)

\* A run that has ended stays ended: no event and no other status follows,
\* whatever restarts (list_running, and the cancelled driver of _drive_run).
EndedStaysEnded == [][status # "running" => UNCHANGED <<status, log>>]_vars

\* A run is not left running for ever, unless the final status could not be
\* written and no server has started since.
RunSettles == <>[](status # "running" \/ orphaned)

=============================================================================
