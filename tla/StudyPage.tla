------------------------------ MODULE StudyPage ------------------------------
(***************************************************************************)
(* The page of a study: its details, its evaluation state and workbench,   *)
(* publishing, closing and exporting it, and the polling that keeps a live *)
(* study fresh (studies/[id]/page.tsx).                                    *)
(*                                                                         *)
(* Every async function of the page is a call of its own here, which       *)
(* passes through                                                          *)
(*                                                                         *)
(*   command -> commanded -> detail -> detail read -> eval -> eval read    *)
(*                                                                         *)
(* as far as the function goes; an answer shows what the server had when   *)
(* it was asked, however late it comes.                                    *)
(***************************************************************************)
EXTENDS EvaluationWorkbench

VARIABLES
  campaign,  \* on the server: the status
  planned,   \* on the server: whether the study has an evaluation plan
  study,     \* the component's state
  calls      \* its async functions

studyVars == <<campaign, planned, study, calls, benchVars>>

Statuses == {"draft", "ready", "live", "closed"}
Polls    == {"poll", "next poll"}
Names    == {"load", "evaluation", "publish", "close", "export"} \cup Polls
-----------------------------------------------------------------------------
NoCall   == [st |-> "idle", seen |-> "none", version |-> 0, current |-> FALSE]
Asked(s) == [NoCall EXCEPT !.st = s]

\* The page before anything has been read.
Loading ==
  [detail |-> "none", failed |-> FALSE, evalFailed |-> FALSE, evalLoading |-> FALSE,
   busy |-> {}, confirm |-> FALSE, timer |-> FALSE]
Opening == [n \in Names |-> IF n = "load" THEN Asked("detail") ELSE NoCall]

\* A study that is opened, of any status; or a live one that has been read.
StudyInit ==
  /\ campaign \in Statuses /\ planned \in BOOLEAN
  /\ docs = <<NewProgram>> /\ shown = 0
  /\ study = Loading /\ calls = Opening
ReviewInit ==
  /\ campaign = "live" /\ planned = TRUE
  /\ docs \in {<<NewProgram>>, <<BoundProgram>>} /\ shown = 1
  /\ study = [Loading EXCEPT !.detail = "live", !.timer = TRUE]
  /\ calls = [n \in Names |-> NoCall]

-----------------------------------------------------------------------------
(* What is on the screen.                                                  *)

Polling == study.detail = "live"

\* The parts of a study that has been read: its buttons, the plan with its
\* workbench, or the card that stands in for the workbench.
Parts ==
  [publish   |-> study.detail \in {"draft", "ready"},
   close     |-> Polling,
   export    |-> planned,
   workbench |-> planned /\ shown # 0,
   stand_in  |-> planned /\ shown = 0]

Screen ==
  IF study.detail # "none" THEN {p \in DOMAIN Parts : Parts[p]}
  ELSE IF study.failed THEN {"error"} ELSE {"skeleton"}

-----------------------------------------------------------------------------
(* What a call does when its answer comes.                                 *)

\* setDetail: a study that becomes live or stops being it starts polling anew
\* or ends it; what is under way goes on, but schedules nothing.
Detailed(s) ==
  [study EXCEPT !.detail = s, !.failed = FALSE,
                !.timer = IF Polling = (s = "live") THEN @ ELSE s = "live",
                !.evalLoading = @ \/ (study.detail = "none" /\ planned)]

\* Then the effect that waits for a plan asks for its evaluation state, once.
CallsOnDetail(s, n, next) ==
  [m \in Names |->
     IF m = n THEN IF m \in Polls /\ Polling # (s = "live") THEN [next EXCEPT !.current = FALSE] ELSE next
     ELSE IF m = "evaluation" /\ study.detail = "none" /\ planned THEN Asked("eval")
     ELSE IF m \in Polls /\ Polling # (s = "live") THEN [calls[m] EXCEPT !.current = FALSE]
     ELSE calls[m]]

\* Mutant of Rescheduled: a poll that failed is the last one.
RescheduledOnSuccess(n, ok) == study.timer \/ (n \in Polls /\ calls[n].current /\ ok)

\* The next poll is scheduled when one is done, unless its effect is gone.
Rescheduled(n, ok) == study.timer \/ (n \in Polls /\ calls[n].current)

\* The flag of a button is taken back in any case.
Flags == [publish |-> "publishing", close |-> "closing", export |-> "exporting"]
Released(n) == study.busy \ (IF n \in DOMAIN Flags THEN {Flags[n]} ELSE {})

Over(n)   == [calls EXCEPT ![n] = NoCall]
Fails     == faults < MaxFaults /\ faults' = faults + 1

\* The call of n ends; the rest of the page stays as it is.
Ends(n, ok) ==
  /\ calls' = Over(n)
  /\ study' = [study EXCEPT !.busy = Released(n), !.timer = Rescheduled(n, ok)]

-----------------------------------------------------------------------------
(* Reading.                                                                *)

ServeDetail(n) ==
  /\ calls[n].st = "detail"
  /\ calls' = [calls EXCEPT ![n].st = "detail read", ![n].seen = campaign]
  /\ UNCHANGED <<campaign, planned, study, benchVars>>

\* refresh(): the detail is shown, or the call fails; insights and evidence
\* that fail leave what there was.
DetailRead(n) ==
  LET s == calls[n].seen IN
  /\ calls[n].st = "detail read"
  /\ \/ /\ n \notin Polls \/ ~planned
        /\ study' = [Detailed(s) EXCEPT !.busy = Released(n),
                       !.timer = @ \/ (n \in Polls /\ calls[n].current /\ s = "live")]
        /\ calls' = CallsOnDetail(s, n, NoCall)
        /\ UNCHANGED faults
     \/ /\ n \in Polls /\ planned
        /\ study' = [Detailed(s) EXCEPT !.evalLoading = TRUE]
        /\ calls' = CallsOnDetail(s, n, [calls[n] EXCEPT !.st = "eval"])
        /\ UNCHANGED faults
     \/ /\ Fails
        /\ calls' = Over(n)
        /\ study' = [study EXCEPT !.failed = @ \/ n = "load", !.busy = Released(n), !.timer = Rescheduled(n, FALSE)]
  /\ UNCHANGED <<campaign, planned, docs, shown, bench, typed, unheard>>

ServeEval(n) ==
  /\ calls[n].st = "eval"
  /\ calls' = [calls EXCEPT ![n].st = "eval read", ![n].version = Version]
  /\ UNCHANGED <<campaign, planned, study, benchVars>>

\* refreshEvaluation(), of the effect, the retry button or a poll.
EvalRead(n) ==
  /\ calls[n].st = "eval read"
  /\ \/ /\ shown' = ShownAfter(calls[n].version)
        /\ study' = [study EXCEPT !.evalFailed = FALSE, !.evalLoading = FALSE, !.timer = Rescheduled(n, TRUE)]
        /\ UNCHANGED faults
     \/ /\ Fails
        /\ study' = [study EXCEPT !.evalFailed = TRUE, !.evalLoading = FALSE, !.timer = Rescheduled(n, FALSE)]
        /\ UNCHANGED shown
  /\ calls' = Over(n)
  /\ UNCHANGED <<campaign, planned, docs, bench, typed, unheard>>

\* The timer of the polling effect; a hidden tab only sets it again.
PollDue(n) ==
  /\ n \in Polls /\ study.timer /\ calls[n].st = "idle"
  /\ \A m \in Polls : m # n /\ calls[m].st = "idle" => n = "poll"
  /\ calls' = [calls EXCEPT ![n] = [Asked("detail") EXCEPT !.current = TRUE]]
  /\ study' = [study EXCEPT !.timer = FALSE]
  /\ UNCHANGED <<campaign, planned, benchVars>>

\* The retry button of the card that stands in for the workbench.
Retry ==
  /\ "stand_in" \in Screen /\ ~study.evalLoading /\ calls["evaluation"].st = "idle"
  /\ calls' = [calls EXCEPT !["evaluation"] = Asked("eval")]
  /\ study' = [study EXCEPT !.evalLoading = TRUE]
  /\ UNCHANGED <<campaign, planned, benchVars>>

\* The error screen reloads the page.
Reload ==
  /\ "error" \in Screen
  /\ study' = Loading /\ calls' = Opening /\ shown' = 0 /\ bench' = NewBench
  /\ UNCHANGED <<campaign, planned, docs, typed, unheard, faults>>

-----------------------------------------------------------------------------
(* Publishing, closing, exporting.                                         *)

Command(n, flag) ==
  /\ flag \notin study.busy
  /\ study' = [study EXCEPT !.busy = @ \cup {flag}]
  /\ calls' = [calls EXCEPT ![n] = Asked("command")]
  /\ UNCHANGED <<campaign, planned, benchVars>>

Publish == "publish" \in Screen /\ Command("publish", "publishing")
Export  == "export" \in Screen /\ Command("export", "exporting")

\* The dialog that asks whether to close the study.
AskToClose ==
  /\ study.confirm \/ "close" \in Screen
  /\ study' = [study EXCEPT !.confirm = ~@]
  /\ UNCHANGED <<campaign, planned, calls, benchVars>>
Close == study.confirm /\ Command("close", "closing")

\* The server publishes whatever the status is.
ServeCommand(n) ==
  /\ n \in {"publish", "close"} /\ calls[n].st = "command"
  /\ campaign' = IF n = "publish" THEN "live" ELSE "closed"
  /\ calls' = [calls EXCEPT ![n].st = "commanded"]
  /\ UNCHANGED <<planned, study, benchVars>>

\* After publishing and closing the details are read again.
Commanded(n) ==
  /\ calls[n].st = "commanded"
  /\ calls' = [calls EXCEPT ![n] = Asked("detail")]
  /\ study' = [study EXCEPT !.confirm = @ /\ n # "close"]
  /\ UNCHANGED <<campaign, planned, benchVars>>

\* The pack is downloaded.
Exported ==
  /\ calls["export"].st = "command"
  /\ Ends("export", TRUE)
  /\ UNCHANGED <<campaign, planned, benchVars>>

\* The call fails, before or after the server has done what it says.
CommandFails(n) ==
  /\ calls[n].st \in {"command", "commanded"} /\ Fails
  /\ Ends(n, FALSE)
  /\ UNCHANGED <<campaign, planned, docs, shown, bench, typed, unheard>>

\* Another tab closes the study.
ClosedElsewhere ==
  /\ campaign = "live" /\ campaign' = "closed"
  /\ UNCHANGED <<planned, study, calls, benchVars>>

-----------------------------------------------------------------------------
Receive(n) ==
  \/ ServeDetail(n) \/ DetailRead(n) \/ ServeEval(n) \/ EvalRead(n)
  \/ ServeCommand(n) \/ Commanded(n)

\* What the page does with a study, and what a reviewer does with its program
\* while the page polls.
Operate ==
  \/ \E n \in Names : Receive(n) \/ CommandFails(n) \/ PollDue(n)
  \/ Retry \/ Reload \/ Publish \/ Export \/ Exported \/ AskToClose \/ Close \/ ClosedElsewhere
  \/ Meanwhile /\ UNCHANGED <<campaign, planned, study, calls>>
Review ==
  \/ PollDue("poll") \/ Receive("poll")
  \/ (("workbench" \in Screen /\ WorkbenchStep) \/ Meanwhile) /\ UNCHANGED <<campaign, planned, study, calls>>
=============================================================================
