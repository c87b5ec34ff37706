-------------------------- MODULE EmbeddedInterview --------------------------
(***************************************************************************)
(* A respondent's interview as a whole: a site that embeds the page with   *)
(* the element, a respondent who opens the page itself, or a site that     *)
(* uses the headless client; and the server each of them talks to.         *)
(***************************************************************************)
EXTENDS EmbedHost, HeadlessClient

CONSTANT Surfaces   \* of "element", "direct" and "headless", those that are used

ASSUME SurfacesAssumption == Surfaces \subseteq {"element", "direct", "headless"}

VARIABLE surface

vars == <<surface, pageVars, host, sdkVars, serverVars>>

Init ==
  /\ surface \in Surfaces
  /\ IF surface = "direct"
     THEN /\ page = Mounted(TRUE, FALSE) /\ token = 0 /\ sock = NoSock
          /\ late = <<>> /\ stale = 0 /\ mail = <<>>
     ELSE PageInit
  /\ host = HostIdle /\ SdkInit
  /\ interviews = <<>> /\ limbo = <<>> /\ replies = 0 /\ faults = 0

\* The page posts nothing when no page embeds it.
Embedded == surface = "element" /\ ElementStep /\ UNCHANGED <<surface, sdkVars>>
Direct   ==
  /\ surface = "direct"
  /\ PageStep \/ (Straggler /\ UNCHANGED pageVars)
  /\ UNCHANGED <<surface, host, sdkVars>>
Headless == surface = "headless" /\ SdkStep /\ UNCHANGED <<surface, pageVars, host>>

Next == Embedded \/ Direct \/ Headless

\* What the browser brings about by itself: its timers fire, a frame that has
\* arrived is decoded, and an attempt to connect ends in one way or the other.
Fairness ==
  /\ WF_vars(Watchdog /\ UNCHANGED <<surface, host, sdkVars>>)
  /\ WF_vars(OnMessage /\ UNCHANGED <<surface, host, sdkVars>>)
  /\ WF_vars((Opened \/ (sock.st = "connecting" /\ Closed)) /\ UNCHANGED <<surface, host, sdkVars>>)

Spec == Init /\ [][Next]_vars /\ Fairness
-----------------------------------------------------------------------------
(* What should hold.                                                       *)

Underway(n) ==
  \/ \E k \in DOMAIN limbo : limbo[k].n = n
  \/ \E k \in DOMAIN sock.up : sock.up[k].n = n /\ sock.up[k].type = "reply"

\* The answer of line k is in the interview's log or on its way there, or the
\* respondent is told, by a line after it or by the banner, that something went
\* wrong, or something else is still on its way.
Vouched(k) ==
  \/ Recorded(page.log[k].n) \/ Underway(page.log[k].n)
  \/ \E m \in k + 1 .. Len(page.log) : page.log[m].who = "system"
  \/ page.awaiting \/ page.dropped \/ ~page.connected
  \/ sock.up # <<>> \/ sock.down # <<>> \/ late # <<>>

\* As long as the respondent is in the interview they began: an answer that was
\* sent and that the stage shows as captured has been saved, or the respondent
\* is told otherwise.  (Not so an answer the connecting socket refused:
\* ReceiptIsTrue.)
CapturedIsSaved ==
  \A k \in DOMAIN page.log :
    Screen = "text" /\ Len(interviews) = 1 /\ page.log[k].who = "respondent" => Vouched(k)

\* The tick under an answer says that it landed (Chat.tsx:842), also under one
\* that was given while the socket was still connecting: once the interview
\* goes on, it is saved, or the respondent is told otherwise.
ReceiptIsTrue ==
  \A k \in DOMAIN page.log :
    Screen = "text" /\ sock.st = "open" /\ Len(interviews) = 1
      /\ page.log[k].who \in {"respondent", "unsent"} => Vouched(k)

\* Line m comes after line l in an interview.
Precedes(lines, l, m) ==
  \E a, b \in DOMAIN lines : a < b /\ lines[a] = l /\ lines[b] = m

\* The page puts the questions of its interview in the order in which they were
\* asked and none of them twice, however often the respondent has lost the
\* connection.  (A reply may come between: the watchdog lets the respondent go on
\* before the question has come.)
QuestionsInOrder ==
  Screen = "text" /\ Len(interviews) = 1 =>
    LET questions == {k \in DOMAIN page.log : page.log[k].who = "interviewer"}
        asked     == interviews[1].lines
    IN /\ \A k \in questions : Contains(asked, page.log[k])
       /\ \A j, k \in questions :
            j < k => page.log[j] # page.log[k] /\ Precedes(asked, page.log[j], page.log[k])

\* The element says complete only if an interview has been completed.
HostCompleteIsReal ==
  host.state = "complete" => \E i \in DOMAIN interviews : interviews[i].over

\* The overlay of a page that was too slow goes away when the page is ready.
LateReadyIsShown ==
  host.error = "timeout" /\ Framed /\ page.info = "ready" => Contains(mail, "ready")

\* No answer has been recorded twice.
RecordedOnce(i) ==
  \A j, k \in DOMAIN interviews[i].lines :
    interviews[i].lines[j] = interviews[i].lines[k] /\ interviews[i].lines[j].who = "respondent" => j = k

\* While the headless client asks the next question of the one interview it has
\* begun, every answer it lists has been recorded: reply() holds an answer back
\* until the one before is answered, and retry() has the one that failed.
\* (Unless retry() has had an answer recorded twice: the second turn makes the
\* client forget the next answer.  A client that is started twice can be a turn
\* ahead of its interview.)
SdkAnswersSaved ==
  sdk.phase = "asking" /\ link.id # 0 /\ Len(interviews) = 1 /\ RecordedOnce(1) =>
    \A k \in DOMAIN sdk.log : sdk.log[k].who = "respondent" => Recorded(sdk.log[k].n)

\* The close event of a connection the page has replaced came after the new
\* connection had opened, and the page takes the new one for lost (page.tsx:617).
Overtaken == sock.st = "open" /\ ~page.connected

\* Whatever was lost, refused, left unanswered or decoded late: a respondent on
\* the text stage can write again, or sees the banner with its button, or the
\* farewell, or that the study is unavailable - unless the connection was
\* overtaken.
StageComesBack ==
  Screen = "text" ~> ComposerOn \/ page.dropped \/ Screen # "text" \/ Overtaken
=============================================================================
