------------------------------ MODULE EmbedHost ------------------------------
(***************************************************************************)
(* <telepace-interview>, the element with which a site embeds the page of  *)
(* an interview in a frame: it opens and closes the frame, waits for the   *)
(* page to say it is ready, and shows what the page tells it.              *)
(***************************************************************************)
EXTENDS RespondentPage

CONSTANT MaxOpens   \* bound: how often the frame is opened

ASSUME HostAssumption == MaxOpens \in Nat

VARIABLE host   \* the element: dataset.state, what its error says, the timer

hostVars == <<host>>

Closing == [state |-> "closed", error |-> "none", timer |-> FALSE, opens |-> host.opens]

\* A frame is there from open() to close(); posted messages are taken from it only.
Framed == page.info # "absent"

\* open(): nothing if there is a frame.  The frame may show the page in any
\* language; with attributes that are wrong there is no frame, only an error.
HostOpen ==
  /\ ~Framed /\ host.opens < MaxOpens
  /\ \/ /\ host' = [state |-> "loading", error |-> "none", timer |-> TRUE, opens |-> host.opens + 1]
        /\ \E aligned \in BOOLEAN : page' = Mounted(aligned, TRUE)
     \/ /\ host' = [state |-> "error", error |-> "configuration", timer |-> FALSE, opens |-> host.opens + 1]
        /\ UNCHANGED page
  /\ UNCHANGED <<token, sock, late, stale, mail, serverVars>>

\* close(): the frame is removed, with the page in it and what it had posted.
HostClose ==
  /\ host.state # "closed" /\ host.state # "idle"
  /\ host' = Closing
  /\ page' = Absent /\ mail' = <<>> /\ sock' = NoSock /\ late' = <<>> /\ stale' = 0
  /\ limbo' = IF sock.id = 0 THEN limbo ELSE limbo \o Surviving(sock)
  /\ UNCHANGED <<token, interviews, replies, faults>>

\* showError: the timer is cleared with it.
WithError(what) == [host EXCEPT !.state = "error", !.error = what, !.timer = FALSE]

ReadyTimeout ==
  /\ host.timer
  /\ host' = WithError("timeout")
  /\ UNCHANGED <<pageVars, serverVars>>

\* Mutant of HandleMessage: a page that is ready does not stop the timer.
HandleMessageTimerRuns ==
  /\ mail # <<>> /\ Framed
  /\ mail' = Tail(mail)
  /\ LET m == Head(mail) IN
       host' = CASE m = "ready"    -> [host EXCEPT !.state = "ready", !.error = "none"]
                 [] m = "error"    -> WithError("unavailable")
                 [] m = "complete" -> [host EXCEPT !.state = "complete"]
  /\ UNCHANGED <<page, token, sock, late, stale, serverVars>>

\* handleMessage: the first message the frame has posted.
HandleMessage ==
  /\ mail # <<>> /\ Framed
  /\ mail' = Tail(mail)
  /\ LET m == Head(mail) IN
       host' = CASE m = "ready"    -> [host EXCEPT !.state = "ready", !.error = "none", !.timer = FALSE]
                 [] m = "error"    -> WithError("unavailable")
                 [] m = "complete" -> [host EXCEPT !.state = "complete"]
  /\ UNCHANGED <<page, token, sock, late, stale, serverVars>>

HostIdle == [state |-> "idle", error |-> "none", timer |-> FALSE, opens |-> 0]

-----------------------------------------------------------------------------
\* The page in its frame, and all that may happen to it.
PageInit ==
  /\ page = Absent /\ token = 0 /\ sock = NoSock /\ late = <<>> /\ stale = 0 /\ mail = <<>>

PageStep ==
  \/ Preflight \/ Align \/ Tick \/ (\E mode \in {"text", "voice"} : Start(mode))
  \/ Opened \/ Closed \/ StaleClose \/ Reconnect
  \/ Shake \/ Serve \/ ServeVoice
  \/ OnMessage \/ SendReply \/ Watchdog \/ LingerEnds \/ Redirect
  \/ OnVoiceMessage \/ AudioEnds \/ MicAnswered \/ OrbTap \/ ToggleReadAloud
  \/ SwitchToText \/ Reload

HostStep == HostOpen \/ HostClose \/ ReadyTimeout \/ HandleMessage

ElementStep ==
  \/ PageStep /\ UNCHANGED host
  \/ HostStep
  \/ Straggler /\ UNCHANGED <<pageVars, host>>
=============================================================================
