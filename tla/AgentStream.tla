----------------------------- MODULE AgentStream -----------------------------
(***************************************************************************)
(* The agent panel of the browser that watches a run: the event stream of  *)
(* _stream_run, which alternates between reading the new events and asking *)
(* for the run's status, and watch of GlobalAgentPanel, which opens the    *)
(* stream again after its last event until the run has ended.              *)
(*                                                                         *)
(*   watching -> checking -> watching ...                                  *)
(*                        -> asking -> settled                             *)
(***************************************************************************)
EXTENDS AgentRun

VARIABLE
  panel   \* where it is, the last event it has, the events shown, whether it
          \* remembers the run

all == <<vars, panel>>

Opened == [at |-> "watching", cursor |-> 0, shown |-> <<>>, saved |-> TRUE]

\* consumeEvent for the next k events: the last event of a run has the panel
\* forget the run.
Shown(k) ==
  LET new == [n \in 1..k |-> panel.cursor + n]
  IN [panel EXCEPT !.cursor = @ + k, !.shown = @ \o new,
        !.saved = @ /\ \A n \in Range(new) : log[n].kind \notin {"done", "incomplete", "error"}]
Unread == Len(log) - panel.cursor

\* The stream reads what is new and sends all of it.
Read ==
  /\ panel.at = "watching" /\ up # {}
  /\ panel' = [Shown(Unread) EXCEPT !.at = "checking"]
  /\ UNCHANGED vars

\* Then it looks at the run, and closes when the run has ended.
Check ==
  /\ panel.at = "checking"
  /\ panel' = [panel EXCEPT !.at = IF status = "running" THEN "watching" ELSE "asking"]
  /\ UNCHANGED vars

\* A mistake: a closed stream is always opened again.
AskNothing ==
  /\ panel.at = "asking" /\ up # {}
  /\ panel' = [panel EXCEPT !.at = "watching"]
  /\ UNCHANGED vars

\* The stream has closed: getAgentRun tells whether to open it again.
AskStatus ==
  /\ panel.at = "asking" /\ up # {}
  /\ panel' = IF status = "running" THEN [panel EXCEPT !.at = "watching"]
              ELSE [panel EXCEPT !.at = "settled", !.saved = @ /\ status = "completed"]
  /\ UNCHANGED vars

\* The connection is lost, perhaps with some of the new events delivered, and
\* watch starts again after the last of them.
Drop ==
  /\ Upset /\ UNCHANGED <<run, drive, up, orphaned>>
  /\ panel.at # "settled"
  /\ \E k \in 0 .. (IF panel.at = "watching" THEN Unread ELSE 0) :
       panel' = [Shown(k) EXCEPT !.at = "watching"]

\* A mistake: the cursor survives the events it stands for.
ReloadFromCursor ==
  /\ Upset /\ UNCHANGED <<run, drive, up, orphaned>>
  /\ panel.saved
  /\ panel' = [Opened EXCEPT !.cursor = panel.cursor]

\* The page is loaded again: a run it remembers is shown from the start.
Reload ==
  /\ Upset /\ UNCHANGED <<run, drive, up, orphaned>>
  /\ panel.saved
  /\ panel' = Opened

Watch == Read \/ Check \/ AskStatus

\* A server that stops takes its connections along.
Cut == IF panel.at = "settled" THEN panel ELSE [panel EXCEPT !.at = "watching"]

WatchedNext ==
  \/ Next /\ panel' = (IF up' \subseteq up /\ up' # up THEN Cut ELSE panel)
  \/ Watch \/ Drop \/ Reload

WatchedInit == Init /\ panel = Opened
WatchedSpec ==
  /\ WatchedInit
  /\ [][WatchedNext]_all
  /\ Fairness /\ WF_all(Watch)

-----------------------------------------------------------------------------
\* What the panel shows is the run's events in their order, none missing and
\* none twice, however often the connection is lost (agentChat.ts:4-6).
ShownInOrder == panel.shown = [n \in 1..panel.cursor |-> n]

\* The panel of a run that has ended stops watching it.
PanelSettles == status # "running" ~> panel.at = "settled"

\* A panel that has stopped watching has shown the end of the run: the stream
\* delivers "tool_call", "tool_result", "text", "done"
\* (test_agent_chat.py:107).
SettledPanelSawAll == panel.at = "settled" => panel.cursor = Len(log)
=============================================================================
