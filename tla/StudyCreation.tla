---------------------------- MODULE StudyCreation ----------------------------
(***************************************************************************)
(* The page on which a study is created (studies/new/page.tsx): a          *)
(* conversation that first finds out what the study is for, then makes it, *)
(* then refines its guide.                                                 *)
(*                                                                         *)
(* What is said starts a turn.  A turn of the gate goes through            *)
(*                                                                         *)
(*   assess -> (a question and its chips)                                  *)
(*          -> create -> created -> load -> idle                           *)
(*                                                                         *)
(* and a turn of a study that exists through stream -> idle.               *)
(***************************************************************************)
EXTENDS Naturals, Sequences, SequencesExt, FiniteSets

CONSTANTS
  Drafts,      \* the sets of blocks of a guide that a draft or a patch may fill
  Findings,    \* the sets of facets that an assessment may find
  Fields,      \* what respondents are told: the fields of the settings form
  MaxTurns,    \* bound: turns of the conversation, of a researcher who does nothing else
  MaxBeside,   \* bound: its turns beside other business
  MaxMishaps   \* bound: calls that fail or whose answer is lost

VARIABLES
  made,     \* on the server: the studies, each with its key and its channels
  late,     \* create calls the page has given up and the server has not
  chat,     \* the bubbles
  page,     \* the component's state
  sends,    \* the turns under way
  aside,    \* the researcher's business beside the conversation
  reasons,  \* times the researcher gave the page a reason to make another study
  mishaps

creationVars == <<made, late, chat, page, sends, aside, reasons, mishaps>>

Facets == {"decision", "objective", "audience"}
MAX_CLARIFY_ROUNDS == 2

\* Of the four channels one that a link serves and one that is dispatched to.
ALL_CHANNELS      == {"web_text", "email"}
DISPATCH_CHANNELS == {"email"}

-----------------------------------------------------------------------------
(* What the guide says, and the readiness it amounts to (lib/clarify.ts).  *)

\* A guide: the facets of its task that are stated, the blocks that are filled.
INITIAL_SPEC == [task |-> {}, blocks |-> {}]

\* A draft or a patch names the blocks it means to change, and fills or
\* empties them.
Merged(spec, blocks) == [spec EXCEPT !.blocks = blocks]

\* READINESS_ORDER; who pays applies to no study any more and is left out.
Pips == {"decision", "audience", "depth", "questions"}
Satisfied(spec) ==
  {p \in Pips :
     CASE p \in Facets     -> p \in spec.task
       [] p = "depth"      -> "objective" \in spec.task /\ "evaluation" \in spec.blocks
       [] p = "questions"  -> {"outline", "cases"} \subseteq spec.blocks}
Ready(spec) == Satisfied(spec) = Pips

-----------------------------------------------------------------------------
(* The conversation.                                                       *)

You(turn, text) == [by |-> "you", turn |-> turn, text |-> text, says |-> TRUE, typing |-> FALSE, chips |-> "none"]
Agent(turn)     == [by |-> "agent", turn |-> turn, text |-> 0, says |-> FALSE, typing |-> TRUE, chips |-> "none"]
System          == [by |-> "system", turn |-> 0, text |-> 0, says |-> TRUE, typing |-> FALSE, chips |-> "none"]

Mine(b, turn) == b.turn = turn /\ b.by # "you"

\* patchMessage: the fields of the patch replace those of the bubble.
Patch(b, patch) == [f \in DOMAIN b |-> IF f \in DOMAIN patch THEN patch[f] ELSE b[f]]
Patched(c, turn, patch) == [i \in DOMAIN c |-> IF Mine(c[i], turn) THEN Patch(c[i], patch) ELSE c[i]]

Said(c, turn, chips) ==
  Patched(c, turn, [says |-> TRUE, typing |-> FALSE, chips |-> chips])
Noticed(c, turn) ==
  Patched(c, turn, [by |-> "system", says |-> TRUE, typing |-> FALSE])

\* An answer streams into its bubble while that is the last one.
Grown(c, turn) ==
  IF c # <<>> /\ Mine(Last(c), turn) THEN [c EXCEPT ![Len(c)].says = TRUE] ELSE c

\* Mutant of Cut: what was stopped goes on typing.
CutTyping(c, turn) ==
  LET mute == {i \in DOMAIN c : Mine(c[i], turn) /\ ~c[i].says}
  IN IF mute = {} THEN c ELSE RemoveAt(c, CHOOSE i \in mute : TRUE)

\* What was stopped keeps what it had said; the one bubble of the turn goes that
\* had said nothing.
Cut(c, turn) ==
  LET mute == {i \in DOMAIN c : Mine(c[i], turn) /\ ~c[i].says}
      kept == Patched(c, turn, [typing |-> FALSE])
  IN IF mute = {} THEN kept ELSE RemoveAt(kept, CHOOSE i \in mute : TRUE)

WithoutChips(i) == [chat EXCEPT ![i].chips = "none"]

\* The failure notice and the line that failed go before it is sent again.
Unsent(c, text) ==
  LET d == IF c # <<>> /\ Last(c).by = "system" THEN Front(c) ELSE c
  IN IF d # <<>> /\ Last(d).by = "you" /\ Last(d).text = text THEN Front(d) ELSE d

-----------------------------------------------------------------------------
(* The page.                                                               *)

Slots == {1, 2}
Idle  == [st |-> "idle", turn |-> 0, text |-> 0, key |-> 0, channels |-> {}, skip |-> FALSE]

NewPage ==
  [study |-> 0, key |-> 0, drawn |-> 0, spec |-> INITIAL_SPEC, turns |-> 0, busy |-> FALSE, failed |-> 0,
   gate |-> FALSE, rounds |-> 0, draft |-> {}, question |-> "none",
   channels |-> {"web_text"}, stage |-> "none", abort |-> 0, rail |-> "auto", seen |-> 1, editing |-> "none"]

Asides   == {"none", "settings", "publish", "export", "simulate"}
NewAside(kind) ==
  [kind |-> kind, st |-> "idle", open |-> FALSE, edited |-> {}, due |-> {}, saved |-> {}, dispatch |-> {}]

Init ==
  /\ made = {} /\ late = {} /\ reasons = 0 /\ mishaps = 0
  /\ chat = <<System>>
  /\ page = NewPage
  /\ sends = [s \in Slots |-> Idle]
  /\ \E k \in Asides : aside = NewAside(k)

\* The rail shows the conversation until the study exists, then as pinned.
Expanded(p) == p.rail = "open" \/ (p.rail = "auto" /\ p.study = 0)

\* The guide gives way to a sketch of it while a first draft is made.
Materializing == "outline" \notin page.spec.blocks /\ \E s \in Slots : sends[s].st \in {"assess", "create", "created", "load"}

\* The sections of the guide: those that say something, and the place of the
\* questions; and how the sheet of a study begins and ends.
Blocks    == page.spec.blocks \ {"outline"}
Questions == IF "outline" \in page.spec.blocks THEN {"outline"} ELSE {"placeholder"}
Task      == IF page.spec.task = {} THEN {} ELSE {"task"}
Sheet ==
  IF Materializing THEN {"sketch"}
  ELSE IF page.study = 0 THEN {"empty"}
  ELSE {"title", "settings", "launch"} \cup Task \cup Blocks \cup Questions

\* Whoever sees the rail has seen the bubbles in it.
Seen(p, c) == IF Expanded(p) THEN [p EXCEPT !.seen = Len(c)] ELSE p

Unread == ~Expanded(page) /\ Len(chat) > page.seen

Shows(p, c) == chat' = c /\ page' = Seen(p, c)

Mishap == mishaps < MaxMishaps /\ mishaps' = mishaps + 1

\* The idle slot a new turn takes.
Slot == CHOOSE s \in Slots : sends[s].st = "idle"

MoreTurns == page.turns < IF aside.kind = "none" THEN MaxTurns ELSE MaxBeside

-----------------------------------------------------------------------------
(* Saying something: handleSend.                                           *)

\* Mutant of KeyFor: the key goes with the failure.
KeyForOnce(text) == IF page.study = 0 /\ page.failed # 0 THEN 0 ELSE page.key

\* Another text than the one that failed needs another key.
KeyFor(text) == IF page.study = 0 /\ page.failed # 0 /\ page.failed # text THEN 0 ELSE page.key

\* What the gate notes of a text before it asks: an opening line, or an answer.
Gated(p) ==
  IF p.gate THEN [p EXCEPT !.rounds = @ + 1]
  ELSE [p EXCEPT !.gate = TRUE, !.rounds = 0, !.draft = {}, !.question = "none"]

\* The text is shown, and a bubble that types; p and c are the page and the
\* conversation it is said in.
Send(text, p, c) ==
  LET turn == page.turns + 1
      q == [p EXCEPT !.key = KeyFor(text), !.failed = 0, !.turns = turn, !.busy = TRUE]
  IN /\ MoreTurns
     /\ \E s \in Slots : sends[s].st = "idle"
     /\ Shows(IF page.study = 0 THEN Gated(q) ELSE [q EXCEPT !.abort = Slot], c \o <<You(turn, text), Agent(turn)>>)
     /\ sends' = [sends EXCEPT ![Slot] =
          [Idle EXCEPT !.st = IF page.study = 0 THEN "assess" ELSE "stream", !.turn = turn, !.text = text]]
     /\ reasons' = IF page.study = 0 /\ page.failed \notin {0, text} THEN reasons + 1 ELSE reasons
     /\ UNCHANGED <<made, late, aside, mishaps>>

\* The composer, a suggestion, or the line a template came with.
Say ==
  /\ ~page.busy /\ Expanded(page)
  /\ \E text \in {page.turns + 1} \cup ({page.failed} \ {0}) : Send(text, page, chat)

\* One chip, or several of a question that takes several.  The chips go.
Choose(i) ==
  /\ ~page.busy /\ Expanded(page) /\ chat[i].chips # "none"
  /\ Send(page.turns + 1, [page EXCEPT !.stage = IF chat[i].chips = "many" THEN "audience" ELSE @], WithoutChips(i))

\* The chip that leaves the field to the composer.
Freeform(i) ==
  /\ ~page.busy /\ Expanded(page) /\ chat[i].chips # "none"
  /\ chat' = WithoutChips(i)
  /\ page' = [page EXCEPT !.stage = IF chat[i].chips = "many" THEN "audience" ELSE @]
  /\ UNCHANGED <<made, late, sends, aside, reasons, mishaps>>

\* What failed is said once more.
Retry ==
  /\ page.failed # 0 /\ ~page.busy /\ Expanded(page)
  /\ Send(page.failed, page, Unsent(chat, page.failed))

-----------------------------------------------------------------------------
(* Making the study: createFromTask.                                       *)

\* The key of the last attempt, or a new one.
Keyed(p) == IF p.key # 0 THEN p ELSE [p EXCEPT !.key = p.drawn + 1, !.drawn = @ + 1]

\* The chip that starts the draft at once, with what the task is so far.
Skip(i) ==
  LET turn == page.turns + 1
      q    == Keyed([page EXCEPT !.turns = turn, !.busy = TRUE])
      c    == Append(WithoutChips(i), [Agent(turn) EXCEPT !.says = TRUE])
  IN /\ ~page.busy /\ Expanded(page) /\ chat[i].chips \in {"one", "many"}
     /\ MoreTurns
     /\ Shows(q, c)
     /\ sends' = [sends EXCEPT ![Slot] = [Idle EXCEPT !.st = "create", !.turn = turn, !.key = q.key, !.channels = q.channels, !.skip = TRUE]]
     /\ reasons' = IF page.study # 0 THEN reasons + 1 ELSE reasons
     /\ UNCHANGED <<made, late, aside, mishaps>>

\* The turn of slot s ends, in page p and conversation c.
Ends(s, p, c) ==
  /\ sends' = [sends EXCEPT ![s] = Idle]
  /\ Shows([p EXCEPT !.busy = FALSE], c)

\* A failure is told in the bubble; what was said can be said once more, but
\* not the chip that skips the gate.
Fails(s) ==
  Ends(s, IF sends[s].skip THEN page ELSE [page EXCEPT !.failed = sends[s].text], Noticed(chat, sends[s].turn))

\* What is known after an answer: what the assessment found, and the answer
\* itself to the question that was asked.
Distilled(found) == page.draft \cup found \cup ({page.question} \cap {"decision", "audience"})

\* The question that comes next: the assessment's, or the one for what is missing.
Question(asked, draft) ==
  IF asked # "none" THEN asked
  ELSE IF "decision" \notin draft THEN "decision"
  ELSE IF "audience" \notin draft THEN "audience"
  ELSE "none"

\* The gate opens.
Opens(ready, question, draft) ==
  \/ ready
  \/ draft = Facets /\ (question = "none" \/ page.rounds >= MAX_CLARIFY_ROUNDS)

\* The assessment, or the page's own when there is none, which asks nothing and
\* finds at most the objective.
Assessments ==
  [ready : BOOLEAN, found : Findings, asked : {"none", "decision", "audience", "other"}, chips : {"one", "many"}]
Local(ready) ==
  [ready |-> ready, found |-> IF ready THEN {"objective"} ELSE {}, asked |-> "none", chips |-> "one"]

\* Either the study is made, or a question is asked with its chips; with no
\* question to ask the code fails.
Judged(s, a) ==
  LET draft == Distilled(a.found)
      q     == Question(a.asked, draft)
      p     == [page EXCEPT !.draft = draft]
  IN \/ /\ Opens(a.ready, q, draft)
        /\ LET k == Keyed(p) IN
           /\ Shows(k, Patched(chat, sends[s].turn, [says |-> TRUE]))
           /\ sends' = [sends EXCEPT ![s].st = "create", ![s].key = k.key, ![s].channels = k.channels]
     \/ /\ ~Opens(a.ready, q, draft) /\ q # "none"
        /\ Ends(s, [p EXCEPT !.question = q], Said(chat, sends[s].turn, a.chips))
     \/ /\ ~Opens(a.ready, q, draft) /\ q = "none"
        /\ Ends(s, [p EXCEPT !.failed = sends[s].text], Noticed(chat, sends[s].turn))

Assessed(s) ==
  /\ sends[s].st = "assess"
  /\ \E a \in Assessments : Judged(s, a)
  /\ UNCHANGED <<made, late, aside, reasons, mishaps>>
AssessedLocally(s) ==
  /\ sends[s].st = "assess" /\ Mishap
  /\ \E ready \in BOOLEAN : Judged(s, Local(ready))
  /\ UNCHANGED <<made, late, aside, reasons>>

\* The server makes one study of a key, however often it is asked.
Made(c) == IF \E m \in made : m.key = c.key THEN made ELSE made \cup {c}
Call(s) == [key |-> sends[s].key, channels |-> sends[s].channels]

ServeCreate(s) ==
  /\ sends[s].st = "create"
  /\ made' = Made(Call(s))
  /\ sends' = [sends EXCEPT ![s].st = "created"]
  /\ UNCHANGED <<late, chat, page, aside, reasons, mishaps>>
ServeLate(c) ==
  /\ c \in late
  /\ made' = Made(c) /\ late' = late \ {c}
  /\ UNCHANGED <<chat, page, sends, aside, reasons, mishaps>>

\* The deadline passes, before or after the server is done.
CreateLost(s) ==
  /\ sends[s].st \in {"create", "created"} /\ Mishap
  /\ \E reached \in BOOLEAN : late' = IF sends[s].st = "create" /\ reached THEN late \cup {Call(s)} ELSE late
  /\ Fails(s)
  /\ UNCHANGED <<made, aside, reasons>>

Created(s) ==
  /\ sends[s].st = "created"
  /\ Shows([page EXCEPT !.key = 0, !.study = sends[s].key, !.spec.task = page.draft], chat)
  /\ sends' = [sends EXCEPT ![s].st = "load"]
  /\ UNCHANGED <<made, late, aside, reasons, mishaps>>

\* loadSpecWithRetry: the draft is shown, with the channels the study was made
\* with, or after five attempts what is there already.
Loaded(s) ==
  LET p == [page EXCEPT !.gate = FALSE, !.rounds = 0, !.question = IF sends[s].skip THEN @ ELSE "none"]
  IN /\ sends[s].st = "load"
     /\ \/ Ends(s, p, Said(chat, sends[s].turn, "none"))
        \/ \E blocks \in Drafts, m \in made :
             /\ m.key = page.study
             /\ Ends(s, [p EXCEPT !.spec = Merged(@, blocks), !.channels = m.channels], Said(chat, sends[s].turn, "none"))
  /\ UNCHANGED <<made, late, aside, reasons, mishaps>>

-----------------------------------------------------------------------------
(* Refining: what comes on the stream (refineOutlineStream).               *)

Delta(s) ==
  /\ sends[s].st = "stream"
  /\ chat' = Grown(chat, sends[s].turn)
  /\ UNCHANGED <<made, late, page, sends, aside, reasons, mishaps>>

SpecPatch(s) ==
  /\ sends[s].st = "stream"
  /\ \E blocks \in Drafts : page' = [page EXCEPT !.spec = Merged(@, blocks)]
  /\ UNCHANGED <<made, late, chat, sends, aside, reasons, mishaps>>

\* The last event: a summary, or the lead of the stage, or nothing at all.
Done(s) ==
  /\ sends[s].st = "stream"
  /\ \E summary \in BOOLEAN :
       Shows([page EXCEPT !.stage = IF @ = "audience" THEN "closure" ELSE "none"],
             Patched(chat, sends[s].turn,
                     [says |-> summary \/ page.stage # "none", typing |-> FALSE,
                      chips |-> IF page.stage = "audience" THEN "audience" ELSE "none"]))
  /\ sends' = [sends EXCEPT ![s].st = "closing"]
  /\ UNCHANGED <<made, late, aside, reasons, mishaps>>

\* The server tells that it failed.
StreamError(s) ==
  /\ sends[s].st = "stream" /\ Mishap
  /\ Shows([page EXCEPT !.failed = sends[s].text], Noticed(chat, sends[s].turn))
  /\ sends' = [sends EXCEPT ![s].st = "closing"]
  /\ UNCHANGED <<made, late, aside, reasons>>

\* The stream ends, after its last event; then nothing can be stopped.
Closed(s) ==
  /\ sends[s].st = "closing"
  /\ Ends(s, [page EXCEPT !.abort = 0], chat)
  /\ UNCHANGED <<made, late, aside, reasons, mishaps>>

\* The stream breaks.
Broken(s) ==
  /\ sends[s].st \in {"stream", "closing"} /\ Mishap
  /\ Ends(s, [page EXCEPT !.abort = 0, !.failed = sends[s].text], Noticed(chat, sends[s].turn))
  /\ UNCHANGED <<made, late, aside, reasons>>

\* handleStop, of a turn that streams.
Stop ==
  LET s == page.abort IN
  /\ page.busy /\ page.study # 0 /\ Expanded(page)
  /\ s # 0
  /\ Ends(s, [page EXCEPT !.abort = 0], Cut(chat, sends[s].turn))
  /\ UNCHANGED <<made, late, aside, reasons, mishaps>>

-----------------------------------------------------------------------------
(* The task can be edited in place; a change is said to the agent.         *)

EditTask(f) ==
  /\ ~page.busy /\ "task" \in Sheet /\ page.editing # f
  /\ page' = [page EXCEPT !.editing = f]
  /\ UNCHANGED <<made, late, chat, sends, aside, reasons, mishaps>>

\* Saved with the keyboard, which asks nobody whether a turn is under way; or
\* left as it is.
SaveTask ==
  /\ "task" \in Sheet /\ page.editing # "none"
  /\ \E task \in {page.spec.task \cup {page.editing}, page.spec.task \ {page.editing}} :
       Send(page.turns + 1, [page EXCEPT !.editing = "none", !.spec.task = task], chat)
LeaveTask ==
  /\ "task" \in Sheet /\ page.editing # "none"
  /\ page' = [page EXCEPT !.editing = "none"]
  /\ UNCHANGED <<made, late, chat, sends, aside, reasons, mishaps>>

-----------------------------------------------------------------------------
(* Beside the conversation.                                                *)

\* The rail is pinned open or shut once there is a study.
Pin(rail) ==
  /\ page.study # 0 /\ rail = IF Expanded(page) THEN "shut" ELSE "open"
  /\ page' = Seen([page EXCEPT !.rail = rail], chat)
  /\ UNCHANGED <<made, late, chat, sends, aside, reasons, mishaps>>

\* The form of what respondents are told is shut until it is asked for.  The
\* field that changed last is saved after a pause, alone; the title is saved
\* when it is left, or stays what it was on the server.
OpenSettings ==
  /\ "settings" \in Sheet /\ aside.kind = "settings"
  /\ aside' = [aside EXCEPT !.open = ~@]
  /\ UNCHANGED <<made, late, chat, page, sends, reasons, mishaps>>
ChangeSetting(f) ==
  /\ "settings" \in Sheet /\ aside.open /\ aside.kind = "settings" /\ f \notin aside.edited
  /\ aside' = [aside EXCEPT !.edited = @ \cup {f}, !.due = {f}]
  /\ UNCHANGED <<made, late, chat, page, sends, reasons, mishaps>>
Retitle ==
  /\ "title" \in Sheet /\ aside.kind = "settings"
  /\ \/ aside' = [aside EXCEPT !.edited = @ \cup {"title"}, !.saved = @ \cup {"title"}] /\ UNCHANGED mishaps
     \/ aside' = [aside EXCEPT !.edited = @ \cup {"title"}] /\ Mishap
  /\ UNCHANGED <<made, late, chat, page, sends, reasons>>

SettingsSaved ==
  /\ aside.due # {}
  /\ \/ aside' = [aside EXCEPT !.due = {}, !.saved = @ \cup aside.due] /\ UNCHANGED mishaps
     \/ aside' = [aside EXCEPT !.due = {}] /\ Mishap
  /\ UNCHANGED <<made, late, chat, page, sends, reasons>>

\* A channel is chosen or given up, on the page alone.
ToggleChannel(ch) ==
  /\ "launch" \in Sheet /\ aside.kind = "publish"
  /\ page' = [page EXCEPT !.channels = (@ \ {ch}) \cup ({ch} \ @)]
  /\ UNCHANGED <<made, late, chat, sends, aside, reasons, mishaps>>

\* What a button beside the conversation asks of the server.
Asks(kind) ==
  /\ page.study # 0 /\ aside.kind = kind /\ aside.st # "asked"
  /\ aside' = [aside EXCEPT !.st = "asked", !.open = kind = "simulate"]
  /\ UNCHANGED <<made, late, chat, page, sends, reasons, mishaps>>

Publish  == "launch" \in Sheet /\ Ready(page.spec) /\ Asks("publish")
Export   == "evaluation" \in page.spec.blocks /\ aside.st = "idle" /\ Asks("export")  \* bound: once, or until it fails
Simulate == "outline" \in page.spec.blocks /\ Asks("simulate")

\* The preview of a respondent: the one that is played is waited for, and
\* another may be asked for.
Preview == CASE aside.st = "asked" -> "drafting" [] aside.st = "done" -> "turns" [] aside.st = "idle" -> "failed"
AnotherPersona == aside.open /\ Preview # "drafting" /\ Simulate

\* The preview is shut; its answer comes all the same.
ShutPreview ==
  /\ aside.kind = "simulate" /\ aside.open
  /\ aside' = [aside EXCEPT !.open = FALSE]
  /\ UNCHANGED <<made, late, chat, page, sends, reasons, mishaps>>

\* The answers: a study that is published is left for its own page, which is
\* told of the channels the study was made with that are dispatched to; an export
\* is told of in the conversation, and a failure of either.
Answered ==
  /\ aside.st = "asked" /\ aside.kind # "publish"
  /\ aside' = [aside EXCEPT !.st = "done"]
  /\ IF aside.kind = "export" THEN Shows(page, Append(chat, System)) ELSE UNCHANGED <<chat, page>>
  /\ UNCHANGED <<made, late, sends, reasons, mishaps>>
Published ==
  /\ aside.st = "asked" /\ aside.kind = "publish"
  /\ \E m \in made :
       /\ m.key = page.study
       /\ aside' = [aside EXCEPT !.st = "left", !.dispatch = m.channels \cap DISPATCH_CHANNELS]
  /\ UNCHANGED <<made, late, chat, page, sends, reasons, mishaps>>
AsideFails ==
  /\ aside.st = "asked" /\ Mishap
  /\ aside' = [aside EXCEPT !.st = "idle"]
  /\ IF aside.kind = "simulate" THEN UNCHANGED <<chat, page>> ELSE Shows(page, Append(chat, System))
  /\ UNCHANGED <<made, late, sends, reasons>>

-----------------------------------------------------------------------------
Answer(s) ==
  \/ Assessed(s) \/ AssessedLocally(s) \/ ServeCreate(s) \/ CreateLost(s) \/ Created(s) \/ Loaded(s)
  \/ Delta(s) \/ SpecPatch(s) \/ Done(s) \/ StreamError(s) \/ Closed(s) \/ Broken(s)

Beside ==
  \/ \E r \in {"open", "shut"} : Pin(r)
  \/ \E f \in Fields : ChangeSetting(f)
  \/ OpenSettings \/ SettingsSaved \/ Retitle
  \/ \E ch \in ALL_CHANNELS : ToggleChannel(ch)
  \/ Publish \/ Export \/ Simulate \/ AnotherPersona \/ ShutPreview \/ Answered \/ Published \/ AsideFails

\* A page that has been left does nothing more.
Create ==
  /\ aside.st # "left"
  /\ \/ Say \/ Retry \/ Stop \/ SaveTask \/ LeaveTask
     \/ \E i \in DOMAIN chat : Choose(i) \/ Freeform(i) \/ Skip(i)
     \/ \E f \in Facets : EditTask(f)
     \/ \E s \in Slots : Answer(s)
     \/ \E c \in late : ServeLate(c)
     \/ Beside
=============================================================================
