------------------------------ MODULE AgentPanel ------------------------------
(***************************************************************************)
(* The agent's drawer: what its panel shows of a run, the decisions it     *)
(* sends, and how it is closed, left in the background, resumed and opened *)
(* again (AgentDock.tsx, GlobalAgentPanel.tsx).  AgentStream says how the  *)
(* events get to the panel; here they are a script that the server plays.  *)
(*                                                                         *)
(* A loop that watches a run goes stream -> asking -> pause -> stream ...  *)
(* Closing the drawer aborts the loop; one whose run is only then created  *)
(* starts with nobody to abort it.                                         *)
(***************************************************************************)
EXTENDS Naturals, Sequences, SequencesExt, FiniteSets

CONSTANTS
  Scripts,    \* what runs may do: sequences of events
  MaxRuns,    \* bound: runs that are started
  MaxVisits,  \* bound: times the drawer is opened
  MaxCuts     \* bound: calls and connections that are lost

VARIABLES
  runs,    \* on the server: the runs, with what is left of their script
  saved,   \* in the browser's storage: the run to come back to, 0 if none
  panel,   \* the drawer and the component's state
  loops,   \* the loops that watch
  call,    \* the call that starts a run
  verdict, \* the call that sends a decision
  cuts

panelVars == <<runs, saved, panel, loops, call, verdict, cuts>>

\* Tools are called in batches, under one name here: what tells their results
\* apart is the id.
Event(type, id) == [type |-> type, id |-> id]
Ends == {"done", "error"}

\* A loop that a panel has left behind may have had the end of its run.
Loops  == 1 .. 3
NoLoop == [st |-> "idle", run |-> 0, live |-> FALSE, mine |-> FALSE, ended |-> FALSE]

\* A panel that is mounted anew; the one before it keeps nothing.  `gone` are the
\* panels before it that asked for the remembered run and have no answer yet.
Empty == [open |-> FALSE, mounted |-> FALSE, phase |-> "idle", run |-> 0, cursor |-> 0, cards |-> <<>>, visits |-> 0,
          restoring |-> FALSE, gone |-> 0]

Busy == panel.phase \in {"starting", "running", "reconnecting", "background"}

Init ==
  /\ runs = <<>> /\ saved = 0 /\ cuts = 0
  /\ panel = Empty
  /\ loops = [l \in Loops |-> NoLoop]
  /\ call = "idle" /\ verdict = [st |-> "idle", run |-> 0]

Loss == cuts < MaxCuts /\ cuts' = cuts + 1

-----------------------------------------------------------------------------
(* The server plays a script to its end; a run that asks waits for the     *)
(* answer.                                                                 *)

Status(r) == IF runs[r].over THEN "over" ELSE "running"

Emit(r) ==
  LET next == runs[r].script[Len(runs[r].log) + 1] IN
  /\ Len(runs[r].log) < Len(runs[r].script)
  /\ next.type = "confirmation_result" => runs[r].decided
  /\ runs' = [runs EXCEPT ![r].log = Append(@, next)]
  /\ UNCHANGED <<saved, panel, loops, call, verdict, cuts>>
Finish(r) ==
  /\ Len(runs[r].log) = Len(runs[r].script) /\ ~runs[r].over
  /\ runs' = [runs EXCEPT ![r].over = TRUE]
  /\ UNCHANGED <<saved, panel, loops, call, verdict, cuts>>

-----------------------------------------------------------------------------
(* What an event shows: consumeEvent.                                      *)

Card(kind, r, id, phase) == [kind |-> kind, run |-> r, id |-> id, phase |-> phase]

\* Mutant of LastRunning: any call that runs will do.
LastRunningAny(cards, r, id) ==
  {i \in DOMAIN cards : cards[i].kind = "tool" /\ cards[i].phase = "running"}

LastRunning(cards, r, id) ==
  {i \in DOMAIN cards : cards[i].kind = "tool" /\ cards[i].phase = "running" /\ cards[i].run = r /\ cards[i].id = id}

\* markLastTool
Marked(cards, r, id, phase) ==
  LET is == LastRunning(cards, r, id)
  IN [i \in DOMAIN cards |-> IF i \in is /\ \A j \in is : j <= i THEN [cards[i] EXCEPT !.phase = phase] ELSE cards[i]]

\* patchConfirmation
Decided(cards, r, phase) ==
  [i \in DOMAIN cards |-> IF cards[i].kind = "confirmation" /\ cards[i].run = r THEN [cards[i] EXCEPT !.phase = phase] ELSE cards[i]]

\* upsertPlan: one plan, always the last one.
Planned(cards, r, id) ==
  IF \E i \in DOMAIN cards : cards[i].kind = "plan"
  THEN [i \in DOMAIN cards |-> IF cards[i].kind = "plan" THEN Card("plan", r, id, "shown") ELSE cards[i]]
  ELSE Append(cards, Card("plan", r, id, "shown"))

After(cards, r, e) ==
  CASE e.type = "tool_call"           -> Append(cards, Card("tool", r, e.id, "running"))
    [] e.type = "tool_result"         -> Marked(cards, r, e.id, "done")
    [] e.type = "campaigns"           -> Append(Marked(cards, r, e.id, "done"), Card("campaigns", r, e.id, "shown"))
    [] e.type = "tool_error"          -> Marked(cards, r, e.id, "error")
    [] e.type = "plan_update"         -> Planned(cards, r, e.id)
    [] e.type = "verification"        -> Append(cards, Card("verification", r, e.id, "shown"))
    [] e.type = "confirm_request"     -> Append(cards, Card("confirmation", r, e.id, "pending"))
    [] e.type = "confirmation_result" -> Decided(cards, r, "decided")
    [] OTHER                          -> cards

\* An event that comes to a mounted panel, and what one does that comes to a
\* panel that is gone: the end of a run is the end of coming back to it.
Consumed(p, r, e) ==
  [p EXCEPT !.cursor = @ + 1, !.cards = After(@, r, e),
            !.phase = IF e.type = "done" THEN "completed" ELSE IF e.type = "error" THEN "failed" ELSE @]

-----------------------------------------------------------------------------
(* Watching.                                                               *)

\* abort: a loop that asks for the status goes on until it has the answer.
Aborted ==
  [l \in Loops |-> IF ~loops[l].live \/ ~loops[l].mine THEN loops[l]
                   ELSE IF loops[l].st = "asking" THEN [loops[l] EXCEPT !.live = FALSE]
                   ELSE NoLoop]

\* The loops once r is watched anew, by the panel or on behalf of one that is gone.
Watching(r, mine) ==
  LET ls == IF mine THEN Aborted ELSE loops
      l  == CHOOSE l \in Loops : ls[l].st = "idle"
  IN [ls EXCEPT ![l] = [st |-> "stream", run |-> r, live |-> TRUE, mine |-> mine, ended |-> FALSE]]
Room == \E l \in Loops : loops[l].st = "idle"

\* Where the event stands that a loop is to have next: the panel's cursor, or all of them for a
\* panel that is gone.
Turn(l) == IF loops[l].mine THEN panel.cursor + 1 ELSE Len(runs[loops[l].run].log)

Deliver(l) ==
  LET r == loops[l].run
      e == runs[r].log[Turn(l)]
  IN /\ loops[l].st = "stream"
     /\ Turn(l) \in DOMAIN runs[r].log
     /\ ~loops[l].mine => e.type \in Ends /\ ~loops[l].ended
     /\ panel' = IF loops[l].mine THEN Consumed(panel, r, e) ELSE panel
     /\ loops' = IF loops[l].mine THEN loops ELSE [loops EXCEPT ![l].ended = TRUE]
     /\ saved' = IF e.type \in Ends THEN 0 ELSE saved
     /\ UNCHANGED <<runs, call, verdict, cuts>>

\* The stream of a run that is over ends; then the loop asks how it went.
StreamEnds(l) ==
  LET r == loops[l].run IN
  /\ loops[l].st = "stream" /\ Status(r) = "over"
  /\ loops[l].mine => panel.cursor = Len(runs[r].log)
  /\ loops' = [loops EXCEPT ![l].st = "asking"]
  /\ UNCHANGED <<runs, saved, panel, call, verdict, cuts>>
\* The connection ends early, or it or the call fails: a loop that still watches
\* for the panel tries again.
StreamCut(l) ==
  /\ loops[l].st \in {"stream", "asking"} /\ Loss
  /\ \/ /\ loops[l].st = "stream"
        /\ loops' = [loops EXCEPT ![l].st = "asking"] /\ UNCHANGED panel
     \/ /\ loops[l].mine /\ loops[l].live
        /\ loops' = [loops EXCEPT ![l].st = "pause"]
        /\ panel' = [panel EXCEPT !.phase = "reconnecting"]
     \/ /\ ~(loops[l].mine /\ loops[l].live)
        /\ loops' = [loops EXCEPT ![l] = NoLoop] /\ UNCHANGED panel
  /\ UNCHANGED <<runs, saved, call, verdict>>

\* The answer counts whether or not the loop has been aborted meanwhile.
Told(l) ==
  LET r    == loops[l].run
      over == Status(r) = "over"
  IN /\ loops[l].st = "asking"
     /\ panel' = IF ~loops[l].mine THEN panel
                 ELSE [panel EXCEPT !.phase = IF over THEN (IF Last(runs[r].log).type = "done" THEN "completed" ELSE "failed") ELSE "reconnecting"]
     /\ saved' = IF over /\ Last(runs[r].log).type # "done" THEN 0 ELSE saved
     /\ loops' = [loops EXCEPT ![l] = IF over \/ ~loops[l].live THEN NoLoop ELSE [@ EXCEPT !.st = "pause"]]
     /\ UNCHANGED <<runs, call, verdict, cuts>>
Again(l) ==
  /\ loops[l].st = "pause"
  /\ loops' = [loops EXCEPT ![l].st = "stream"]
  /\ UNCHANGED <<runs, saved, panel, call, verdict, cuts>>

-----------------------------------------------------------------------------
(* The drawer.                                                             *)

\* Nothing of a loop reaches a panel that is gone; one that asks has the answer
\* all the same.
Orphaned == [l \in Loops |-> [Aborted[l] EXCEPT !.mine = FALSE]]

\* The panel is mounted, and asks for the run that is remembered.
Opened ==
  [Empty EXCEPT !.open = TRUE, !.mounted = TRUE, !.visits = panel.visits + 1, !.gone = panel.gone,
                !.restoring = saved # 0, !.run = saved, !.phase = IF saved # 0 THEN "reconnecting" ELSE "idle"]

\* Or unmounted: the calls it has made go on without it.
Unmounted(open) ==
  /\ panel.mounted
  /\ panel' = [Empty EXCEPT !.open = open, !.visits = panel.visits,
                             !.gone = panel.gone + (IF panel.restoring THEN 1 ELSE 0)]
  /\ loops' = Orphaned
  /\ call' = CASE call = "sent" -> "orphan sent" [] call = "made" -> "orphan made" [] OTHER -> call
  /\ verdict' = [verdict EXCEPT !.st = "idle"]
  /\ UNCHANGED <<runs, saved, cuts>>

OpenDrawer ==
  /\ ~panel.open /\ panel.visits < MaxVisits
  /\ panel' = Opened
  /\ UNCHANGED <<runs, saved, loops, call, verdict, cuts>>
CloseDrawer == Unmounted(FALSE)

\* The studio of a new study hides the drawer, and does not close it.
EnterStudio == panel.visits < MaxVisits /\ Unmounted(TRUE)
LeaveStudio ==
  /\ panel.open /\ ~panel.mounted
  /\ panel' = Opened
  /\ UNCHANGED <<runs, saved, loops, call, verdict, cuts>>

Restored ==
  /\ panel.restoring /\ Room
  /\ panel' = [panel EXCEPT !.restoring = FALSE, !.cursor = 0, !.cards = <<>>, !.phase = "running"]
  /\ loops' = Watching(panel.run, TRUE)
  /\ UNCHANGED <<runs, saved, call, verdict, cuts>>
NotRestored ==
  /\ panel.restoring /\ Loss
  /\ panel' = [panel EXCEPT !.restoring = FALSE, !.run = 0, !.phase = "idle"]
  /\ saved' = 0
  /\ UNCHANGED <<runs, loops, call, verdict>>

\* The answer comes to a panel that is gone: a failure forgets what is remembered.
LookupEnds ==
  /\ panel.gone > 0
  /\ panel' = [panel EXCEPT !.gone = @ - 1]
  /\ \/ UNCHANGED <<saved, cuts>>
     \/ Loss /\ saved' = 0
  /\ UNCHANGED <<runs, loops, call, verdict>>

\* submit, by the composer or a suggestion.
Submit ==
  /\ panel.mounted /\ ~Busy /\ call = "idle" /\ Len(runs) < MaxRuns
  /\ panel' = [panel EXCEPT !.phase = "starting"]
  /\ call' = "sent"
  /\ UNCHANGED <<runs, saved, loops, verdict, cuts>>

Gone == {"orphan sent", "orphan made"}

ServeRun ==
  /\ call \in {"sent", "orphan sent"}
  /\ \E script \in Scripts : runs' = Append(runs, [script |-> script, log |-> <<>>, decided |-> FALSE, over |-> FALSE])
  /\ call' = IF call \in Gone THEN "orphan made" ELSE "made"
  /\ UNCHANGED <<saved, panel, loops, verdict, cuts>>

\* The run is remembered and watched, even if the panel is gone.
RunCreated ==
  LET r == Len(runs) IN
  /\ call \in {"made", "orphan made"} /\ Room
  /\ saved' = r
  /\ loops' = Watching(r, call \notin Gone)
  /\ panel' = IF call \in Gone THEN panel ELSE [panel EXCEPT !.run = r, !.cursor = 0, !.phase = "running"]
  /\ call' = "idle"
  /\ UNCHANGED <<runs, verdict, cuts>>

\* The call is lost before or after the server has started a run.
RunNotCreated ==
  /\ call # "idle" /\ Loss
  /\ panel' = IF call \in Gone THEN panel ELSE [panel EXCEPT !.phase = "failed"]
  /\ call' = "idle"
  /\ UNCHANGED <<runs, saved, loops, verdict>>

\* continueInBackground and resumeWatching
Background ==
  /\ panel.mounted /\ panel.phase \in {"starting", "running", "reconnecting"}
  /\ panel' = [panel EXCEPT !.phase = "background"]
  /\ loops' = Aborted
  /\ UNCHANGED <<runs, saved, call, verdict, cuts>>
Resume ==
  /\ panel.mounted /\ panel.phase = "background" /\ panel.run # 0 /\ Room
  /\ panel' = [panel EXCEPT !.phase = IF panel.cursor > 0 THEN "reconnecting" ELSE "running"]
  /\ loops' = Watching(panel.run, TRUE)
  /\ UNCHANGED <<runs, saved, call, verdict, cuts>>

\* decide: a card that asks, or whose decision failed to be sent.
Decide(i) ==
  /\ panel.mounted /\ panel.run # 0 /\ verdict.st = "idle"   \* bound: one decision at a time
  /\ panel.cards[i].kind = "confirmation" /\ panel.cards[i].phase \in {"pending", "error"}
  /\ panel' = [panel EXCEPT !.cards = Decided(@, panel.cards[i].run, "sending")]
  /\ verdict' = [st |-> "sent", run |-> panel.run]
  /\ UNCHANGED <<runs, saved, loops, call, cuts>>

\* The server takes the first decision and refuses any other.
ServeVerdict ==
  /\ verdict.st = "sent"
  /\ runs' = [runs EXCEPT ![verdict.run].decided = TRUE]
  /\ verdict' = [verdict EXCEPT !.st = IF runs[verdict.run].decided THEN "refused" ELSE "taken"]
  /\ UNCHANGED <<saved, panel, loops, call, cuts>>
VerdictTaken ==
  /\ verdict.st = "taken"
  /\ verdict' = [verdict EXCEPT !.st = "idle"]
  /\ UNCHANGED <<runs, saved, panel, loops, call, cuts>>
VerdictFailed ==
  /\ \/ verdict.st = "refused" /\ UNCHANGED cuts
     \/ verdict.st \in {"sent", "taken"} /\ Loss
  /\ panel' = [panel EXCEPT !.cards = Decided(@, verdict.run, "error")]
  /\ verdict' = [verdict EXCEPT !.st = "idle"]
  /\ UNCHANGED <<runs, saved, loops, call>>

-----------------------------------------------------------------------------
Watch(l) == Deliver(l) \/ StreamEnds(l) \/ StreamCut(l) \/ Told(l) \/ Again(l)

Assist ==
  \/ \E r \in DOMAIN runs : Emit(r) \/ Finish(r)
  \/ \E l \in Loops : Watch(l)
  \/ OpenDrawer \/ CloseDrawer \/ EnterStudio \/ LeaveStudio \/ Restored \/ NotRestored \/ LookupEnds
  \/ Submit \/ ServeRun \/ RunCreated \/ RunNotCreated \/ Background \/ Resume
  \/ \E i \in DOMAIN panel.cards : Decide(i)
  \/ ServeVerdict \/ VerdictTaken \/ VerdictFailed
=============================================================================
