---------------------------- MODULE ResearchConsole ----------------------------
(***************************************************************************)
(* The pages of a signed-in researcher, each with the server behind it:    *)
(* the page of a study and the workbench in it, the page that makes a      *)
(* study, the drawer of the agent, the report and the table of responses,  *)
(* and the frame around the pages with its notices.                        *)
(*                                                                         *)
(* The pages share no state in the browser: a behaviour stays at one of    *)
(* these desks, and what the others hold is at rest.                       *)
(***************************************************************************)
EXTENDS Naturals, Sequences, SequencesExt, FiniteSets

CONSTANTS
  MaxVersion, MaxTyped, MaxFaults,                          \* a study and its report
  Drafts, Findings, Fields, MaxTurns, MaxBeside, MaxMishaps, \* the making of one
  Scripts, MaxRuns, MaxVisits, MaxCuts,                     \* the drawer
  Documents, Queries,                                       \* the report
  Lists, Items, MaxMoves, MaxNotices                        \* the frame

\* The bounds are naturals; a guide and what it is for have the parts that the
\* page knows.
ASSUME ConsoleAssumption ==
  /\ {MaxVersion, MaxTyped, MaxFaults, MaxTurns, MaxBeside, MaxMishaps,
       MaxRuns, MaxVisits, MaxCuts, MaxMoves, MaxNotices} \subseteq Nat
  /\ Drafts \subseteq SUBSET {"evaluation", "outline", "cases", "persona", "hypotheses", "screener", "criteria"}
  /\ Findings \subseteq SUBSET {"decision", "objective", "audience"}

\* What a run does: an agent names its calls apart, and a call comes before what
\* answers it (agents/orchestrator/main.py:369-489).
Events  == [type : STRING, id : Nat]
Answers == {"tool_result", "campaigns", "tool_error"}
ASSUME ScriptsAssumption ==
  /\ Scripts \subseteq Seq(Events)
  /\ \A s \in Scripts : \A m, n \in DOMAIN s :
       s[m].type = "tool_call" /\ s[n].id = s[m].id =>
         /\ s[n].type = "tool_call" => n = m
         /\ s[n].type \in Answers => n > m

\* What the server answers with is lists, and an insight has an id of its own
\* (the key of its table, storage/projections/campaign_projector.py:58).
ASSUME DocumentsAssumption ==
  \A d \in Documents :
    /\ d.insights \in Seq(ToSet(d.insights)) /\ d.interviews \in Seq(ToSet(d.interviews))
    /\ \A n \in DOMAIN d.interviews : LET turns == d.interviews[n].turns IN turns \in Seq(ToSet(turns))
    /\ \A m, n \in DOMAIN d.insights : d.insights[m].id = d.insights[n].id => m = n

VARIABLES
  desk,                                                          \* where the behaviour is
  docs, shown, bench, typed, unheard, faults,                    \* EvaluationWorkbench
  campaign, planned, study, calls,                               \* StudyPage
  made, late, chat, page, sends, aside, reasons, mishaps,        \* StudyCreation
  runs, saved, panel, loops, call, verdict, cuts,                \* AgentPanel
  doc, read, leaf, table, misread,                               \* EvidenceReport
  visit, frame, notices, timers, raised, warned, asked           \* Workspace

Operator == INSTANCE StudyPage
Creation == INSTANCE StudyCreation
Drawer   == INSTANCE AgentPanel
Evidence == INSTANCE EvidenceReport WITH faults <- misread
Office   == INSTANCE Workspace WITH page <- visit

benchVars    == <<docs, shown, bench, typed, unheard, faults>>
studyVars    == <<campaign, planned, study, calls, benchVars>>
creationVars == <<made, late, chat, page, sends, aside, reasons, mishaps>>
panelVars    == <<runs, saved, panel, loops, call, verdict, cuts>>
reportVars   == <<doc, read, leaf, table, misread>>
officeVars   == <<visit, frame, notices, timers, raised, warned, asked>>

consoleVars == <<desk, studyVars, creationVars, panelVars, reportVars, officeVars>>

Desks == {"study", "review", "creation", "drawer", "report", "responses", "frame"}
-----------------------------------------------------------------------------
\* A page that is not looked at rests at one of its beginnings; the table of
\* responses shows interviews only, whatever the insights are.
Init ==
  /\ desk \in Desks
  /\ Operator!BenchInit
  /\ IF desk = "review" THEN Operator!ReviewInit
     ELSE Operator!StudyInit /\ (desk # "study" => campaign = "draft" /\ ~planned)
  /\ Creation!Init /\ (desk # "creation" => aside.kind = CHOOSE k \in Creation!Asides : TRUE)
  /\ Drawer!Init
  /\ Evidence!ReportInit
  /\ CASE desk = "report"    -> TRUE
       [] desk = "responses" -> doc.insights = <<>>
       [] OTHER              -> doc = CHOOSE d \in Documents : TRUE
  /\ Office!WorkspaceInit

Next ==
  /\ UNCHANGED desk
  /\ \/ /\ \/ desk = "study" /\ Operator!Operate
           \/ desk = "review" /\ Operator!Review
        /\ UNCHANGED <<creationVars, panelVars, reportVars, officeVars>>
     \/ /\ desk = "creation" /\ Creation!Create
        /\ UNCHANGED <<studyVars, panelVars, reportVars, officeVars>>
     \/ /\ desk = "drawer" /\ Drawer!Assist
        /\ UNCHANGED <<studyVars, creationVars, reportVars, officeVars>>
     \/ /\ \/ desk = "report" /\ Evidence!ReadReport
           \/ desk = "responses" /\ Evidence!BrowseResponses
        /\ UNCHANGED <<studyVars, creationVars, panelVars, officeVars>>
     \/ /\ desk = "frame" /\ Office!Work
        /\ UNCHANGED <<studyVars, creationVars, panelVars, reportVars>>

\* Every call ends: the client gives each a deadline (http.ts:30).  The calls
\* that a button waits for, and the steps of a write of the workbench.
AnswersCome ==
  /\ \A n \in {"publish", "close"} : WF_studyVars(desk = "study" /\ Operator!Receive(n))
  /\ WF_benchVars(desk = "review" /\ Operator!WriteGoesOn)

Spec == Init /\ [][Next]_consoleVars /\ AnswersCome
-----------------------------------------------------------------------------
(* The study and its evaluation.                                           *)

\* However the answers of a write, of a second read and of a poll come in, the
\* page never goes back to an older version of the evaluation than it has
\* shown (newestEvaluationState, lib/evaluationState.ts:7-12).
EvaluationNeverGoesBack == [][shown' >= shown]_studyVars

\* The outputs that a reviewer types in are recorded as a run once, unless the
\* answer that said so was lost and they are submitted again: what has been
\* recorded has left the form (EvaluationWorkbench.tsx:244-264; the server
\* takes any outputs as a run of their own).
RunsRecordedOnce ==
  LET t == docs[Operator!Version].trials
  IN \A i, j \in DOMAIN t : t[i] = t[j] /\ i # j => t[i] \in unheard

\* While a live study is shown the next poll is scheduled or under way,
\* whichever of its two reads fails and whatever else changes the study
\* meanwhile (studies/[id]/page.tsx:155-188).
PollingGoesOn ==
  Operator!Polling => study.timer \/ \E p \in Operator!Polls : calls[p].current /\ calls[p].st # "idle"

\* No button stays disabled: publishing, closing and the writes of the
\* workbench end, with the reads that follow them, whichever of these calls
\* fail (studies/[id]/page.tsx:207-234, EvaluationWorkbench.tsx:155-183).
ButtonsComeBack ==
  /\ \A flag \in {"publishing", "closing"} : flag \in study.busy ~> flag \notin study.busy
  /\ bench.write.st # "idle" ~> bench.write.st = "idle"

-----------------------------------------------------------------------------
(* The other pages.                                                        *)

\* A researcher's reason to make a study makes one, through retries after a
\* create whose answer was lost or came too late: they carry the key of the
\* first attempt (studies/new/page.tsx:559-573, 741-744, 974-988).
RetriesMakeOneStudy == Cardinality(made) <= 1 + reasons

\* A bubble that types has a turn under way that writes into it, through
\* stopping, a cut stream, a refused create and a skipped question
\* (studies/new/page.tsx:817-851).
TypingIsAwaited ==
  \A i \in DOMAIN chat :
    chat[i].typing => \E s \in Creation!Slots : sends[s].st # "idle" /\ sends[s].turn = chat[i].turn

\* The card of a tool runs until the event that answers its call has been
\* taken in, and no longer, when two tools run at once, the stream is cut and
\* taken up again, or the drawer is reopened on a run that went on without it
\* (GlobalAgentPanel.tsx:308-417, 453-492, 635-653).
CardsMatchEvents ==
  LET Answered(id) ==
        \E n \in 1 .. panel.cursor : LET e == runs[panel.run].log[n]
                                    IN e.type \in Answers /\ e.id = id
  IN \A i \in DOMAIN panel.cards :
       LET c == panel.cards[i]
       IN c.kind = "tool" /\ c.run = panel.run => (c.phase = "running" <=> ~Answered(c.id))

\* The notes of a report are numbered as a reader meets them, 1, 2, 3, on the
\* page and in the file alike, and a note opens on words of the respondent
\* (lib/reportModel.ts:24-64, report/page.tsx toMarkdown, TranscriptPanel.tsx).
NotesMatchTheText ==
  LET view == Evidence!View(read.graph)
      file == Evidence!Markdown(read.graph)
      text == view.findings \o view.analysis
      met  == FlattenSeq([n \in DOMAIN text |-> text[n].markers]) \o [n \in DOMAIN view.notes |-> view.notes[n].num]
  IN /\ Evidence!Distinct(met) = [n \in 1 .. view.quotes |-> n]
     /\ ToSet(view.findings) = ToSet(file.findings) /\ view.notes = file.notes
     /\ leaf.cited # "none" => Evidence!Highlighted.role = "respondent"

\* Undo takes back what its notice speaks of and nothing else: what any notice
\* that is still offered would bring back is what is marked
\* (InsightsBoard.tsx, Toast.tsx).
OfferedUndoWorks ==
  visit.name = "insights" =>
    \A n \in DOMAIN notices : notices[n].undo.mount = visit.mount => notices[n].undo.set \subseteq visit.marked

================================================================================
