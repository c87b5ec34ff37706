--------------------------- MODULE HeadlessClient ---------------------------
(***************************************************************************)
(* TelepaceInterviewClient, with which a site builds an interview of its   *)
(* own: load and start over HTTP, then one socket, a reply at a time.      *)
(*                                                                         *)
(* The client ignores the events of a socket it no longer holds, but a     *)
(* frame that was being decoded when it let go (`sdkLate`) is still        *)
(* handled, and nothing stops a start() under way.                         *)
(***************************************************************************)
EXTENDS InterviewServer

VARIABLES
  sdk,      \* the client's state
  link,     \* this.socket, or NoLink
  fetches,  \* requests under way: "load" and "session"
  sdkLate   \* frames being decoded that came over a socket the client has let go

sdkVars == <<sdk, link, fetches, sdkLate>>

NoLink == [st |-> "none", id |-> 0, up |-> <<>>, down |-> <<>>]
Error(recoverable) == IF recoverable THEN "recoverable" ELSE "fatal"

\* The client before load(): no campaign, no messages, no error.
Idle == [phase |-> "idle", loaded |-> FALSE, log |-> <<>>, last |-> 0, error |-> "none", deliberate |-> FALSE]

Fail(s, recoverable) == [s EXCEPT !.phase = "error", !.error = Error(recoverable)]

-----------------------------------------------------------------------------
\* disconnectSocket: the socket is closed and let go.  The server may still
\* serve what has been sent, and frames that have arrived are decoded.
Sent(l) == [k \in DOMAIN SelectSeq(l.up, LAMBDA f : f > 0) |->
              [id |-> l.id, n |-> SelectSeq(l.up, LAMBDA f : f > 0)[k]]]
Disconnect ==
  /\ link' = NoLink
  /\ limbo' = IF link.id = 0 THEN limbo ELSE limbo \o Sent(link)
  /\ \E k \in 0 .. Len(link.down) : sdkLate' = sdkLate \o SubSeq(link.down, 1, k)

Deliberate(s) == [s EXCEPT !.deliberate = @ \/ link.st # "none"]

Load ==
  /\ sdk.phase \in {"idle", "error"} /\ fetches = <<>>
  /\ sdk' = [sdk EXCEPT !.phase = "loading", !.error = "none"]
  /\ fetches' = Append(fetches, "load")
  /\ UNCHANGED <<link, sdkLate, serverVars>>

Loaded ==
  /\ fetches # <<>> /\ Head(fetches) = "load" /\ fetches' = Tail(fetches)
  /\ \/ sdk' = [sdk EXCEPT !.phase = "consent", !.loaded = TRUE, !.error = "none"] /\ UNCHANGED faults
     \/ /\ faults < MaxFaults /\ faults' = faults + 1
        /\ \E closed \in BOOLEAN : sdk' = Fail(sdk, ~closed)
  /\ UNCHANGED <<link, sdkLate, interviews, limbo, replies>>

\* start(), with the consent it asks for or without: a second call while the
\* first waits for its session is not held back.
StartSession(s) ==
  /\ Len(fetches) < 2
  /\ sdk' = [Deliberate(s) EXCEPT !.phase = "authorizing", !.error = "none"]
  /\ Disconnect
  /\ fetches' = Append(fetches, "session")

SdkStart(consent) ==
  /\ sdk.loaded /\ sdk.phase # "error"
  /\ \/ consent /\ StartSession(sdk)
     \/ ~consent /\ sdk' = Fail(sdk, TRUE) /\ UNCHANGED <<link, limbo, sdkLate, fetches>>
  /\ UNCHANGED <<interviews, replies, faults>>

\* restart(): everything anew.
Restart ==
  /\ sdk.loaded
  /\ StartSession([sdk EXCEPT !.log = <<>>, !.last = 0])
  /\ UNCHANGED <<interviews, replies, faults>>

\* The session is there and connect() opens a socket, whatever has happened to
\* the client since; a socket it still holds is overwritten and stays open.
Authorized ==
  /\ fetches # <<>> /\ Head(fetches) = "session" /\ fetches' = Tail(fetches)
  /\ \/ /\ sdk'  = [sdk EXCEPT !.phase = "connecting", !.error = "none", !.deliberate = FALSE]
        /\ link' = [NoLink EXCEPT !.st = "connecting"]
        /\ UNCHANGED faults
     \/ /\ faults < MaxFaults /\ faults' = faults + 1
        /\ sdk' = Fail(sdk, TRUE)
        /\ UNCHANGED link
  /\ UNCHANGED <<sdkLate, interviews, limbo, replies>>

-----------------------------------------------------------------------------
(* The socket the client holds.  Its first frame authenticates it.         *)

SocketOpen ==
  /\ link.st = "connecting" /\ sdkLate = <<>>
  /\ link' = [link EXCEPT !.st = "open", !.up = <<0>>]
  /\ UNCHANGED <<sdk, fetches, sdkLate, serverVars>>

SocketClose ==
  /\ link.st # "none"
  /\ faults' = faults + (IF link.st = "ending" THEN 0 ELSE 1) /\ faults' <= MaxFaults
  /\ Disconnect
  /\ sdk' = IF sdk.deliberate \/ sdk.phase \in {"complete", "error"} THEN sdk ELSE Fail(sdk, TRUE)
  /\ UNCHANGED <<fetches, interviews, replies>>

\* The server's answer to the next frame: an interview for the first, a turn for
\* a reply, or an error, which for the first frame is a rejection.
SdkServe ==
  /\ link.st = "open" /\ link.up # <<>>
  /\ LET n == Head(link.up)
         Reply(frame, id) == link' = [link EXCEPT !.up = Tail(@), !.id = id, !.down = Append(@, frame)]
     IN \/ /\ n = 0 /\ Len(interviews) < MaxSessions
           /\ interviews' = Append(interviews, Begun)
           /\ Reply(Hello(Len(interviews'), FALSE), Len(interviews'))
           /\ UNCHANGED faults
        \/ /\ n > 0
           /\ \E kind \in Kinds(link.id) :
                /\ interviews' = WithTurn(link.id, n, kind)
                /\ Reply(TurnFrame(n, kind, link.id), link.id)
           /\ UNCHANGED faults
        \/ /\ faults < MaxFaults /\ faults' = faults + 1
           /\ IF n > 0 THEN Reply(ErrorFrame("interview_error", TRUE), link.id)
              ELSE link' = [link EXCEPT !.st = "ending", !.up = <<>>,
                                        !.down = <<ErrorFrame("interview_error", FALSE)>>]
           /\ UNCHANGED interviews
  /\ UNCHANGED <<sdk, fetches, sdkLate, limbo, replies>>

\* handleSocketMessage: HELLO starts the log, a turn is asked, and the last turn
\* lets go of the socket, which by then may be another one.
Handled(f) ==
  CASE f.type = "hello" -> [sdk EXCEPT !.phase = "asking", !.log = <<Line("interviewer", 0)>>]
    [] f.type = "error" -> Fail(sdk, f.recoverable)
    [] f.type = "turn"  -> [sdk EXCEPT !.phase = IF f.kind = "wrap_up" THEN "complete" ELSE "asking",
                                       !.log = Append(@, Line("interviewer", f.n)), !.last = 0]

LastTurn(f) == f.type = "turn" /\ f.kind = "wrap_up"

SdkMessage ==
  \/ /\ link.down # <<>>
     /\ LET f == Head(link.down) IN
          IF LastTurn(f) THEN sdk' = Deliberate(Handled(f)) /\ link' = NoLink
          ELSE sdk' = Handled(f) /\ link' = [link EXCEPT !.down = Tail(@)]
     /\ UNCHANGED <<fetches, sdkLate, serverVars>>
  \/ /\ sdkLate # <<>> /\ sdkLate' = Tail(sdkLate)
     /\ LET f == Head(sdkLate) IN
          /\ sdk'  = IF LastTurn(f) THEN Deliberate(Handled(f)) ELSE Handled(f)
          /\ link' = IF LastTurn(f) THEN NoLink ELSE link
     /\ UNCHANGED <<fetches, serverVars>>

-----------------------------------------------------------------------------
(* What the site does with the client.                                     *)

\* Mutant of SdkReply: an error does not keep the next answer back.
SdkReplyUnready ==
  /\ sdk.phase # "idle" /\ replies < MaxReplies
  /\ IF link.st = "open" /\ sdk.phase \in {"asking", "error"}
     THEN /\ replies' = replies + 1
          /\ link' = [link EXCEPT !.up = Append(@, replies')]
          /\ sdk'  = [sdk EXCEPT !.phase = "thinking", !.error = "none", !.last = replies',
                                 !.log = Append(@, Line("respondent", replies'))]
     ELSE sdk' = Fail(sdk, TRUE) /\ UNCHANGED <<link, replies>>
  /\ UNCHANGED <<fetches, sdkLate, interviews, limbo, faults>>

\* reply(): sent when the interview asks for it; otherwise an error, also when
\* the answer before is still being thought about.
SdkReply ==
  /\ sdk.phase # "idle" /\ replies < MaxReplies
  /\ IF link.st = "open" /\ sdk.phase = "asking"
     THEN /\ replies' = replies + 1
          /\ link' = [link EXCEPT !.up = Append(@, replies')]
          /\ sdk'  = [sdk EXCEPT !.phase = "thinking", !.error = "none", !.last = replies',
                                 !.log = Append(@, Line("respondent", replies'))]
     ELSE sdk' = Fail(sdk, TRUE) /\ UNCHANGED <<link, replies>>
  /\ UNCHANGED <<fetches, sdkLate, interviews, limbo, faults>>

\* retry(): the last answer again, after an error it can recover from.
SdkRetry ==
  /\ sdk.last > 0 /\ sdk.error = "recoverable" /\ link.st = "open"
  /\ replies < MaxReplies /\ replies' = replies + 1
  /\ link' = [link EXCEPT !.up = Append(@, sdk.last)]
  /\ sdk'  = [sdk EXCEPT !.phase = "thinking", !.error = "none"]
  /\ UNCHANGED <<fetches, sdkLate, interviews, limbo, faults>>

SdkClose ==
  /\ sdk.phase # "idle"
  /\ sdk' = [Deliberate(sdk) EXCEPT !.phase = "closed", !.error = "none", !.last = 0]
  /\ Disconnect
  /\ UNCHANGED <<fetches, interviews, replies, faults>>

-----------------------------------------------------------------------------
SdkInit == sdk = Idle /\ link = NoLink /\ fetches = <<>> /\ sdkLate = <<>>

SdkStep ==
  \/ Load \/ Loaded \/ (\E consent \in BOOLEAN : SdkStart(consent)) \/ Restart \/ Authorized
  \/ SocketOpen \/ SocketClose \/ SdkServe \/ SdkMessage
  \/ SdkReply \/ SdkRetry \/ SdkClose
  \/ Straggler /\ UNCHANGED sdkVars
=============================================================================
