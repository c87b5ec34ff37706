--------------------------- MODULE RespondentPage ---------------------------
(***************************************************************************)
(* The page a respondent is interviewed on: preflight, consent, the text   *)
(* interview over one websocket, the voice interview over another, and the *)
(* farewell.                                                               *)
(*                                                                         *)
(* A frame of the text interview is decoded asynchronously, so frames of a *)
(* connection that is gone (`late`) are still handled, and the close event *)
(* of a connection the page has replaced (`stale`) may come at any later   *)
(* moment.  Both act on the one page there is.                             *)
(***************************************************************************)
EXTENDS InterviewServer

VARIABLES
  page,   \* the component's state, refs included
  token,  \* sessionStorage: the interview the resume token is for, 0 for none
  sock,   \* the connection of the effect that is mounted
  late,   \* frames of earlier connections that are being decoded
  stale,  \* close events of earlier connections still to come
  mail    \* messages posted to the page that embeds this one

pageVars == <<page, token, sock, late, stale, mail>>

-----------------------------------------------------------------------------
Silent == [denied |-> FALSE, mic |-> "none", phase |-> "idle", speaking |-> FALSE,
           read |-> TRUE, playing |-> "none", queue |-> <<>>]

\* Where the respondent is: the question, and the probes of it; nowhere before
\* the server has said how many questions there are.
NoProgress == [order |-> 0, probe |-> 0]

\* A page as it is mounted, in the study's language or in another one, in a
\* frame of another page or on its own.
Mounted(aligned, embedded) ==
  [info |-> "loading", aligned |-> aligned, embedded |-> embedded, phase |-> "consent",
   consented |-> FALSE, mode |-> "text",
   log |-> <<>>, connected |-> FALSE, dropped |-> FALSE, awaiting |-> FALSE,
   linger |-> FALSE, at |-> NoProgress, voice |-> Silent]

Absent  == [Mounted(TRUE, TRUE) EXCEPT !.info = "absent"]
NoSock  == [kind |-> "none", st |-> "closed", id |-> 0, up |-> <<>>, down |-> <<>>]
Dial(k) == [NoSock EXCEPT !.kind = k, !.st = "connecting"]

\* The bubble that stands for the answer to come is taken away.
Settled(log) ==
  LET kept[n \in 0 .. Len(log)] ==
        IF n = 0 THEN <<>>
        ELSE IF log[n].who = "pending" THEN kept[n - 1] ELSE Append(kept[n - 1], log[n])
  IN kept[Len(log)]
Notice(log) == Append(Settled(log), Line("system", 0))

\* postEmbedEvent: to the page that embeds this one, if there is one.  Of the
\* messages only those are kept which that page acts on: ready, complete and an
\* error that is not recoverable.  It passes on the others.
Posted(messages) == mail' = IF page.embedded THEN mail \o messages ELSE mail

-----------------------------------------------------------------------------
(* What is on the screen, and which of its controls can be used.           *)

Here == page.info \notin {"absent", "left"}

Screen ==
  IF page.info # "ready" THEN page.info
  ELSE IF page.phase = "consent" THEN "consent"
  ELSE IF page.phase = "done" THEN "thanks"
  ELSE IF page.mode = "voice" THEN "voice" ELSE "text"

\* The stage shows the last question, dots while one is being composed, or the
\* connecting beat.
Hero ==
  LET pending == (\E k \in DOMAIN page.log :
                    /\ page.log[k].who = "pending"
                    /\ \A m \in k + 1 .. Len(page.log) : page.log[m].who # "interviewer")
                 \/ (page.log = <<>> /\ page.connected)
  IN IF pending THEN "dots"
     ELSE IF ~page.connected THEN "connecting"
     ELSE IF \A k \in DOMAIN page.log : page.log[k].who # "interviewer" THEN "blank" ELSE "question"

ComposerOn == Screen = "text" /\ page.connected /\ ~page.awaiting

\* VoiceOrb: it shows who has the floor, and is what the respondent taps to
\* speak and to send.
Orb ==
  IF page.voice.phase = "recording" THEN "stop"
  ELSE IF page.voice.speaking THEN "wave" ELSE "microphone"

\* It cannot be tapped while the interviewer speaks or the last answer is being
\* sent.
OrbOn ==
  /\ Screen = "voice" /\ page.connected
  /\ ~page.voice.speaking /\ page.voice.phase # "sending"

-----------------------------------------------------------------------------
(* Preflight and consent.                                                  *)

Preflight ==
  /\ page.info = "loading"
  /\ \E answer \in {"live", "closed", "failed"} :
       /\ answer = "live" => page.aligned
       /\ page' = [page EXCEPT !.info = IF answer = "live" THEN "ready" ELSE "unavailable"]
       /\ Posted(CASE answer = "live"   -> <<"ready">>
                    [] answer = "closed" -> <<"error">>
                    [] answer = "failed" -> <<>>)
       /\ answer # "live" => faults < MaxFaults
       /\ faults' = faults + (IF answer = "live" THEN 0 ELSE 1)
  /\ UNCHANGED <<token, sock, late, stale, interviews, limbo, replies>>

\* The study is in another language than the address: the page is replaced.
Align ==
  /\ page.info = "loading" /\ ~page.aligned
  /\ page' = Mounted(TRUE, page.embedded)
  /\ UNCHANGED <<token, sock, late, stale, mail, serverVars>>

\* The checkbox of a study that asks for consent.
Tick ==
  /\ Screen = "consent"
  /\ page' = [page EXCEPT !.consented = ~@]
  /\ UNCHANGED <<token, sock, late, stale, mail, serverVars>>

\* The interview opens its socket, in the mode that was chosen.
Start(mode) ==
  /\ Screen = "consent" /\ page.consented
  /\ page' = [page EXCEPT !.mode = mode, !.phase = IF mode = "voice" THEN "voice" ELSE "chat"]
  /\ sock' = Dial(mode)
  /\ UNCHANGED <<token, late, stale, mail, serverVars>>

-----------------------------------------------------------------------------
(* Connections.                                                            *)

\* The effect's cleanup closes its socket: frames that have arrived are still
\* decoded, replies under way reach the server or not, and the close event
\* comes later.
Retired(s, k) ==
  /\ late' = IF s.kind = "text" THEN late \o SubSeq(s.down, 1, k) ELSE late
  /\ stale' = stale + (IF s.st = "closed" THEN 0 ELSE 1)
\* (After the handshake all that is under way to the server are replies.)
Surviving(s) == [k \in DOMAIN s.up |-> [id |-> s.id, n |-> s.up[k].n]]

\* onopen: the first frame says whether an interview is to be resumed.  Opening
\* a connection takes longer than decoding a frame.
Opened ==
  /\ sock.st = "connecting" /\ late = <<>>
  /\ sock' = [sock EXCEPT !.st = "open",
                          !.up = IF sock.kind = "text"
                                 THEN <<[type |-> IF token = 0 THEN "start" ELSE "resume", n |-> token]>>
                                 ELSE <<[type |-> "start", n |-> 0]>>]
  /\ page' = [page EXCEPT !.connected = TRUE,
                          !.dropped = IF sock.kind = "text" THEN FALSE ELSE @]
  /\ UNCHANGED <<token, late, stale, mail, serverVars>>

\* onclose: at the end of a rejected connection, or because it was lost.  The
\* text interview offers to reconnect, the voice interview does not.
Closed ==
  /\ sock.st \in {"connecting", "open", "ending", "closing"}
  /\ faults' = faults + (IF sock.st \in {"ending", "closing"} THEN 0 ELSE 1)
  /\ faults' <= MaxFaults
  /\ page' = [page EXCEPT !.connected = FALSE,
                          !.dropped = IF sock.kind = "text" THEN TRUE ELSE @]
  /\ \E k \in 0 .. Len(sock.down) :
       /\ sock.st = "ending" => k = Len(sock.down)
       /\ late' = IF sock.kind = "text" THEN late \o SubSeq(sock.down, 1, k) ELSE late
  /\ \E lost \in BOOLEAN :
       limbo' = IF lost \/ sock.id = 0 THEN limbo ELSE limbo \o Surviving(sock)
  /\ sock' = [NoSock EXCEPT !.kind = sock.kind]
  /\ UNCHANGED <<token, stale, mail, interviews, replies>>

\* The close event of a socket an earlier effect has opened.
StaleClose ==
  /\ stale > 0 /\ Here
  /\ stale' = stale - 1
  /\ page' = [page EXCEPT !.connected = FALSE]
  /\ UNCHANGED <<token, sock, late, mail, serverVars>>

\* The banner's button: the effect runs again.
Reconnect ==
  /\ Screen = "text" /\ page.dropped /\ sock.st # "connecting"
  /\ \E k \in 0 .. Len(sock.down) : Retired(sock, k)
  /\ sock' = Dial("text")
  /\ UNCHANGED <<page, token, mail, serverVars>>

-----------------------------------------------------------------------------
(* The server's side of a connection.                                      *)

\* The voice server sends its messages as bytes, like the speech.
DrainSendJson(about, n) == [binary |-> TRUE, about |-> about, n |-> n]

Send(frames) == sock' = [sock EXCEPT !.up = Tail(@), !.down = @ \o frames]

Joined(resumed, i) ==
  sock' = [sock EXCEPT !.up = Tail(@), !.id = i,
                       !.down = Append(@, IF sock.kind = "text" THEN Hello(i, resumed)
                                          ELSE DrainSendJson("hello", 0))]

Shake ==
  /\ sock.st = "open" /\ sock.up # <<>>
  /\ Head(sock.up).type \in {"start", "resume"}
  /\ LET f == Head(sock.up) IN
     \/ \* a new interview
        /\ f.type = "start" /\ Len(interviews) < MaxSessions
        /\ interviews' = Append(interviews,
                           IF sock.kind = "text" THEN Begun ELSE [Begun EXCEPT !.lines = <<>>])
        /\ Joined(FALSE, Len(interviews'))
        /\ UNCHANGED faults
     \/ \* the one the token is for
        /\ f.type = "resume" /\ ~interviews[f.n].over
        /\ Joined(TRUE, f.n)
        /\ UNCHANGED <<interviews, faults>>
     \/ /\ sock.kind = "text"
        /\ \/ /\ f.type = "resume" /\ interviews[f.n].over
              /\ sock' = [sock EXCEPT !.st = "ending", !.up = <<>>,
                            !.down = <<ErrorFrame("interview_already_completed", FALSE)>>]
              /\ UNCHANGED faults
           \/ /\ faults < MaxFaults /\ faults' = faults + 1
              /\ \E reason \in Rejections(f.n) :
                   sock' = [sock EXCEPT !.st = "ending", !.up = <<>>,
                                        !.down = <<ErrorFrame(reason, FALSE)>>]
        /\ UNCHANGED interviews
  /\ UNCHANGED <<page, token, late, stale, mail, limbo, replies>>

\* A reply of the text interview is answered with a turn, or with an error
\* when the turn has failed; the text of the frames is abstracted to numbers.
Serve ==
  /\ sock.st = "open" /\ sock.kind = "text" /\ sock.up # <<>> /\ Head(sock.up).type = "reply"
  /\ LET n == Head(sock.up).n IN
     \/ \E kind \in Kinds(sock.id) :
          /\ interviews' = WithTurn(sock.id, n, kind)
          /\ Send(<<TurnFrame(n, kind, sock.id)>>)
          /\ UNCHANGED faults
     \/ /\ faults < MaxFaults /\ faults' = faults + 1
        /\ Send(<<ErrorFrame("interviewer_unavailable", TRUE)>>)
        /\ UNCHANGED interviews
  /\ UNCHANGED <<page, token, late, stale, mail, limbo, replies>>

\* The transcript of an utterance, then the turn and its speech.
Spoken(n, kind) ==
  <<DrainSendJson("stt_final", n), DrainSendJson(IF kind = "wrap_up" THEN "farewell" ELSE "turn", n),
    DrainSendJson("tts_start", n), [binary |-> TRUE, about |-> "speech", n |-> n],
    DrainSendJson("tts_end", n)>>

ServeVoice ==
  /\ sock.st = "open" /\ sock.kind = "voice" /\ sock.up # <<>> /\ Head(sock.up).type = "reply"
  /\ LET n == Head(sock.up).n IN
     \E kind \in Kinds(sock.id) :
       /\ interviews' = WithTurn(sock.id, n, kind)
       /\ Send(Spoken(n, kind))
  /\ UNCHANGED <<page, token, late, stale, mail, limbo, replies, faults>>

-----------------------------------------------------------------------------
(* What the text interview makes of a frame.                               *)

Restored(p, f) ==
  IF f.resumed THEN [p EXCEPT !.log = f.history, !.awaiting = FALSE] ELSE p

\* Mutant of Greeted: whatever the page shows, the opening follows.
GreetedAgain(p, f) ==
  [Restored(p, f) EXCEPT !.at = [NoProgress EXCEPT !.order = f.order],
                         !.log = Append(@, Line("interviewer", 0))]

\* The opening is shown on an empty page only.
Greeted(p, f) ==
  LET q == Restored(p, f)
      r == [q EXCEPT !.at = [NoProgress EXCEPT !.order = f.order]]
  IN IF r.log = <<>> THEN [r EXCEPT !.log = <<Line("interviewer", 0)>>] ELSE r

\* A wrap-up is at the end, a probe of the same question counts.
Progress(at, f) ==
  [order |-> IF f.kind = "wrap_up" THEN Questions ELSE f.order,
   probe |-> IF f.kind = "probe" /\ f.order = at.order THEN at.probe + 1 ELSE 0]

TurnTaken(p, f) ==
  [p EXCEPT !.awaiting = FALSE,
            !.log    = Append(Settled(@), Line("interviewer", f.n)),
            !.at     = Progress(@, f),
            !.linger = @ \/ f.kind = "wrap_up"]

\* Mutant of Failed: the hiccup is not shown.
FailedSilently(p, f) ==
  LET q == [p EXCEPT !.awaiting = FALSE] IN
  CASE f.recoverable                          -> [q EXCEPT !.log = Settled(@)]
    [] f.reason = "interview_resume_invalid"    -> [q EXCEPT !.dropped = TRUE]
    [] f.reason = "interview_already_completed" -> [q EXCEPT !.phase = "done"]
    [] OTHER -> [q EXCEPT !.connected = FALSE, !.info = "unavailable"]

\* Mutant of Failed: a token that is refused is taken for a completed interview.
FailedAsCompleted(p, f) ==
  LET q == [p EXCEPT !.awaiting = FALSE] IN
  CASE f.recoverable -> [q EXCEPT !.log = Notice(@)]
    [] f.reason \in {"interview_resume_invalid", "interview_already_completed"} -> [q EXCEPT !.phase = "done"]
    [] OTHER -> [q EXCEPT !.connected = FALSE, !.info = "unavailable"]

\* An error that is not recoverable ends the connection: a token that is refused
\* leaves the banner, a completed interview the farewell, any other rejection
\* an unavailable study.
Failed(p, f) ==
  LET q == [p EXCEPT !.awaiting = FALSE] IN
  CASE f.recoverable                          -> [q EXCEPT !.log = Notice(@)]
    [] f.reason = "interview_resume_invalid"    -> [q EXCEPT !.dropped = TRUE]
    [] f.reason = "interview_already_completed" -> [q EXCEPT !.phase = "done"]
    [] OTHER -> [q EXCEPT !.connected = FALSE, !.info = "unavailable"]

Understood(p, f) ==
  CASE f.type = "hello" -> Greeted(p, f)
    [] f.type = "turn"  -> TurnTaken(p, f)
    [] f.type = "error" -> Failed(p, f)

\* The token follows HELLO, and is forgotten when it is refused or used up: the
\* effect of reaching the farewell forgets it too, and tells the embedding page.
TokenAfter(f, p) ==
  CASE p.phase = "done" /\ page.phase # "done" -> 0
    [] f.type = "hello" -> f.id
    [] f.type = "error" /\ f.reason = "interview_resume_invalid" -> 0
    [] OTHER -> token

PostsAfter(f, p) ==
  (IF f.type = "error" /\ ~f.recoverable THEN <<"error">> ELSE <<>>)
    \o (IF p.phase = "done" /\ page.phase # "done" THEN <<"complete">> ELSE <<>>)

\* A frame of the mounted connection, or one of an earlier connection.  The
\* handler closes the socket it belongs to; an already completed interview and
\* a rejection close it on purpose.
Current(f) ==
  /\ sock.kind = "text" /\ sock.st \in {"open", "ending"} /\ sock.down # <<>> /\ f = Head(sock.down)
  /\ sock' = IF f.type = "error" /\ ~f.recoverable
             THEN IF f.reason = "interview_resume_invalid" THEN [sock EXCEPT !.st = "closing", !.down = <<>>]
                  ELSE NoSock
             ELSE [sock EXCEPT !.down = Tail(@)]
  /\ stale' = stale + (IF sock'.st = "closed" THEN 1 ELSE 0)
  /\ late' = late

Earlier(f) ==
  /\ late # <<>> /\ f = Head(late) /\ late' = Tail(late)
  /\ sock'  = IF Understood(page, f).phase = "done" THEN NoSock ELSE sock
  /\ stale' = stale + (IF sock' # sock /\ sock.st # "closed" THEN 1 ELSE 0)

OnMessage ==
  /\ Here
  /\ \E f \in {Head(q) : q \in {sock.down, late} \ {<<>>}} :
       /\ Current(f) \/ Earlier(f)
       /\ page'  = Understood(page, f)
       /\ token' = TokenAfter(f, page')
       /\ Posted(PostsAfter(f, page'))
  /\ UNCHANGED serverVars

-----------------------------------------------------------------------------
(* The respondent answers.                                                 *)

\* The line is shown and sent.  A socket that is closing takes it and says
\* nothing.  One that is still connecting throws: the handler ends there, with
\* the line on the stage and nothing waiting for an answer to it.  (The page
\* shows an unsent line like any other; the model tells them apart.)
SendReply ==
  /\ ComposerOn /\ replies < MaxReplies
  /\ replies' = replies + 1
  /\ \/ /\ sock.st = "connecting"
        /\ page' = [page EXCEPT !.log = Append(@, Line("unsent", replies'))]
        /\ sock' = sock
     \/ /\ sock.st # "connecting"
        /\ page' = [page EXCEPT !.awaiting = TRUE,
                                !.log = @ \o <<Line("respondent", replies'), Line("pending", 0)>>]
        /\ sock' = IF sock.st = "open"
                   THEN [sock EXCEPT !.up = Append(@, [type |-> "reply", n |-> replies'])] ELSE sock
  /\ UNCHANGED <<token, late, stale, mail, interviews, limbo, faults>>

\* Mutant of Watchdog: the bubble goes, the composer stays locked.
WatchdogClearsBubble ==
  /\ page.awaiting
  /\ page' = [page EXCEPT !.log = Settled(@)]
  /\ UNCHANGED <<token, sock, late, stale, mail, serverVars>>

\* The watchdog unlocks the composer and says so.
Watchdog ==
  /\ page.awaiting
  /\ page' = [page EXCEPT !.awaiting = FALSE, !.log = Notice(@)]
  /\ UNCHANGED <<token, sock, late, stale, mail, serverVars>>

\* The closing line has been shown for long enough; nothing cancels this timer.
\* The effects of the farewell forget the token and close the connection.
LingerEnds ==
  /\ page.linger
  /\ page' = [page EXCEPT !.linger = FALSE, !.phase = "done"]
  /\ token' = 0
  /\ Posted(IF page.phase = "done" THEN <<>> ELSE <<"complete">>)
  /\ \E k \in 0 .. Len(sock.down) : Retired(sock, k)
  /\ sock' = NoSock
  /\ limbo' = IF sock.id = 0 THEN limbo ELSE limbo \o Surviving(sock)
  /\ UNCHANGED <<interviews, replies, faults>>

\* The farewell counts down and follows the link of a study that has one.
Redirect ==
  /\ Screen = "thanks"
  /\ page' = [page EXCEPT !.info = "left"]
  /\ UNCHANGED <<token, sock, late, stale, mail, serverVars>>

-----------------------------------------------------------------------------
(* The voice interview.                                                    *)

Voice(v) == page' = [page EXCEPT !.voice = v]

\* playNextAudio: a clip that cannot be played never ends, the player stays busy
\* with it, and what is queued behind it is as good as gone.
PlayNext(v) ==
  IF v.playing = "noise" THEN [v EXCEPT !.queue = <<>>]
  ELSE IF v.playing # "none" \/ v.queue = <<>> THEN v
  ELSE [v EXCEPT !.playing = Head(v.queue),
                 !.queue = IF Head(v.queue) = "noise" THEN <<>> ELSE Tail(@)]

Enqueue(v, clip) ==
  IF v.read THEN PlayNext([v EXCEPT !.queue = Append(@, clip)]) ELSE v

\* onmessage: a frame of bytes is speech; only text is parsed.
VoiceEvent(p, f) ==
  CASE f.about \in {"turn", "farewell"} ->
         [p EXCEPT !.log = Append(@, Line("interviewer", f.n)),
                   !.linger = @ \/ f.about = "farewell"]
    [] f.about = "stt_final" ->
         [p EXCEPT !.log = Append(@, Line("respondent", f.n)), !.voice.phase = "idle"]
    [] f.about = "tts_start" -> [p EXCEPT !.voice.speaking = TRUE]
    [] f.about = "tts_end"   -> [p EXCEPT !.voice.speaking = FALSE]
    [] OTHER -> p

OnVoiceMessage ==
  /\ sock.kind = "voice" /\ sock.st = "open" /\ sock.down # <<>>
  /\ LET f == Head(sock.down) IN
       page' = IF f.binary
               THEN [page EXCEPT !.voice = Enqueue(@, IF f.about = "speech" THEN "speech" ELSE "noise")]
               ELSE VoiceEvent(page, f)
  /\ sock' = [sock EXCEPT !.down = Tail(@)]
  /\ UNCHANGED <<token, late, stale, mail, serverVars>>

AudioEnds ==
  /\ page.voice.playing = "speech"
  /\ Voice(PlayNext([page.voice EXCEPT !.playing = "none"]))
  /\ UNCHANGED <<token, sock, late, stale, mail, serverVars>>

\* The browser asks for the microphone once the connection is open; a refusal
\* is a line of the log and a banner.
MicAnswered ==
  /\ sock.kind = "voice" /\ sock.st = "open" /\ page.voice.mic = "none" /\ ~page.voice.denied
  /\ \/ Voice([page.voice EXCEPT !.mic = "ready"])
     \/ page' = [page EXCEPT !.voice.denied = TRUE, !.log = Append(@, Line("system", 0))]
  /\ UNCHANGED <<token, sock, late, stale, mail, serverVars>>

OrbTap ==
  /\ OrbOn /\ page.voice.mic = "ready"
  /\ \/ /\ Orb = "microphone" /\ replies < MaxReplies
        /\ Voice([page.voice EXCEPT !.phase = "recording"])
        /\ UNCHANGED <<sock, replies>>
     \/ /\ Orb = "stop"
        /\ Voice([page.voice EXCEPT !.phase = "sending"])
        /\ replies' = replies + 1
        /\ sock' = IF sock.st = "open"
                   THEN [sock EXCEPT !.up = Append(@, [type |-> "reply", n |-> replies'])] ELSE sock
  /\ UNCHANGED <<token, late, stale, mail, interviews, limbo, faults>>

ToggleReadAloud ==
  /\ Screen = "voice"
  /\ Voice([page.voice EXCEPT !.read = ~@])
  /\ UNCHANGED <<token, sock, late, stale, mail, serverVars>>

\* The banner of a refused microphone goes on in text; the cleanup stops the
\* recorder and the player.
SwitchToText ==
  /\ Screen = "voice" /\ page.voice.denied
  /\ page' = [page EXCEPT !.mode = "text", !.phase = "chat",
                          !.voice.denied = FALSE, !.voice.mic = "none",
                          !.voice.playing = "none", !.voice.queue = <<>>]
  /\ Retired(sock, 0)
  /\ sock' = Dial("text")
  /\ UNCHANGED <<token, mail, serverVars>>

\* The respondent loads the page anew: sessionStorage stays.
Reload ==
  /\ Here /\ faults < MaxFaults /\ faults' = faults + 1
  /\ page' = Mounted(TRUE, page.embedded)
  /\ sock' = NoSock /\ late' = <<>> /\ stale' = 0
  /\ limbo' = IF sock.id = 0 THEN limbo ELSE limbo \o Surviving(sock)
  /\ UNCHANGED <<token, mail, interviews, replies>>
=============================================================================
