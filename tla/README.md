# Formal verification of telepace

telepace runs research interviews. A researcher describes a study to an agent,
publishes it as a campaign, respondents are interviewed by a language model over
a websocket, and an analyst turns finished interviews into insights. A release
program with evaluation cases can be attached to a study, and a conversational
agent can drive all of this through tools. A web application shows it to
researchers and respondents, and sites embed its interviews.

This directory holds TLA+ models of the parts whose correctness depends on the
order in which things happen, TLC configurations that check them on small
instances, and TLAPS proofs of safety properties for every value of the
constants. Paths below are relative to `src/`.

Contents

1. [The system](#1-the-system)
2. [Modules](#2-modules)
3. [Campaign pipeline](#3-campaign-pipeline)
4. [Interviews](#4-interviews)
5. [Evaluation workspace](#5-evaluation-workspace)
6. [Agent runs and their event stream](#6-agent-runs-and-their-event-stream)
7. [The respondent's side](#7-the-respondents-side)
8. [The web session](#8-the-web-session)
9. [The researcher's pages](#9-the-researchers-pages)
10. [Proofs](#10-proofs)
11. [What only TLC checks, and what nothing checks](#11-what-only-tlc-checks-and-what-nothing-checks)
12. [What is not modelled](#12-what-is-not-modelled)
13. [Plan](#13-plan)

Running it: `tlc -config MCInterviewSolo.cfg MCInterview` checks a
configuration, `tlapm EvaluationProofs.tla` checks a module of proofs. The longest
TLC run takes about three minutes on two workers, the longest module of proofs
(`ResearchConsoleProofs`) about a quarter of an hour.

---

## 1. The system

### Components and their state

| Component | Code | State | Operations |
|---|---|---|---|
| Event store | `storage/event_store/postgres.py` | table `events`, numbered by a BIGSERIAL | append, append_many, read_stream, LISTEN/NOTIFY tail |
| Campaign projection | `storage/projections/campaign_projector.py` | rows in `campaigns`, `progress_snapshots`, `insights` | apply(seq, event) |
| Campaign routes | `interfaces/rest_api/routers/campaigns.py` | none | create, refine, settings, start, close, dispatch, reads |
| API server | `interfaces/rest_api/main.py` | a tail queue for each process | tail loop, startup, shutdown |
| Completion analysis | `interfaces/rest_api/worker.py`, `agents/analyst/main.py` | none | analyze_completion |
| Harness | `harness/orchestrator.py`, `harness/memory.py` | keys in Redis with a time to live | handle: load, run an agent, append, update memory |
| Interviewer | `agents/interviewer/main.py` | none | one turn: _on_reply, _normalize_action |
| Interview sessions | `interfaces/rest_api/ws.py`, `respondent_context.py`, `routers/interviews.py` | open websockets; the interview's key in Redis | join, resume, reply |
| Evidence view | `interfaces/rest_api/campaign_evidence.py` | none | build_campaign_evidence |
| Evaluation workspace | `interfaces/rest_api/routers/evaluations.py`, `core/domain/release.py` | `spec.evaluation_workspace` in the row | attach, review, bind, trial, calibration, recompute |
| Agent runs | `agents/orchestrator/main.py`, `interfaces/rest_api/routers/agent.py`, `storage/agent_runs.py` | `agent_runs`, `agent_run_events`, `agent_run_confirmations` | start, drive, confirm, recover, stream |
| Agent event stream | `routers/agent.py`, `frontend/.../lib/agentChat.ts` | cursor, events shown, remembered run | watch, reconnect, reload |
| Agent drawer | `frontend/.../GlobalAgentPanel.tsx`, `AgentDock.tsx` | phase, cards, the loop that watches | open, close, ask, decide, background, resume |
| Respondent page | `frontend/.../(public)/r/[campaignId]/page.tsx`, `voice_ws.py` | conversation, socket, resume token, player | preflight, consent, reply, reconnect, talk |
| Embedding element | `frontend/apps/app/public/embed/telepace-interview.js` | frame, state, timer | open, close, messages of the page |
| Headless client | `frontend/apps/app/public/embed/telepace-interview-headless.js` | phase, messages, socket | load, start, reply, retry, close |
| Web session | `frontend/.../lib/http.ts`, `lib/auth/AuthProvider.tsx`, `app/api/auth/*`, `middleware.ts` | two cookies; in each tab what it believes, and a shared renewal | load a page, call, renew, sign up, in and out |
| Study page and workbench | `frontend/.../studies/[id]/page.tsx`, `EvaluationWorkbench.tsx` | detail, evaluation state, busy flags, forms | publish, close, export, poll, seven writes |
| Study creation | `frontend/.../studies/new/page.tsx` | bubbles, draft, key of an attempt, settings | clarify, create, refine, stop, retry, publish |
| Evidence report | `frontend/.../lib/evidenceGraph.ts`, `lib/reportModel.ts`, report and response pages | what is open, filters | read, cite, export, search |
| Workspace frame | `Sidebar.tsx`, `Toast.tsx`, `InboxBoard.tsx`, `InsightsBoard.tsx`, `BillingPanel.tsx` | menus, notices, marks | navigate, dismiss, undo, pay |
| MCP server | `interfaces/mcp_server/` | none | tools over the same commands |
| Billing | `core/billing/`, `storage/billing/`, `interfaces/rest_api/metering.py` | usage rows, subscriptions | metering, quotas, webhooks |
| Invitation dispatch | `harness/handlers/dispatch_handler.py`, `interfaces/channels/` | none | send with retries |
| Policies, designer, LLM client, accounts, other pages, tooling | section 12 and `PROJECT.json` | none, or independent rows | |

### How they interact

* **Commands.** A route or an agent tool builds a command and calls
  `Harness.handle`, which loads memory from Redis, runs one agent, appends the
  events it returned one INSERT at a time, and then updates memory.
* **Events.** Every commit notifies all API servers. On each, a listener task
  puts the event into a bounded queue; the tail loop takes it out, applies it to the
  projection, meters it and starts an analysis of a completed interview.
* **Read your writes.** Handlers do not wait for the loop. Depending on the
  route they apply the events they appended, or read the whole stream again and
  apply all of it. So the same event is applied several times, by several tasks,
  in several orders, and the projection's SQL has to cope.
* **Sessions.** A websocket handler hydrates the interview's memory (from the
  event store when Redis has lost it) and then sends a command. Nothing serializes two tabs.
* **Runs.** The agent loop runs as a background task of one server. It appends
  an event for everything it does; the browser follows these events over SSE,
  and a server that starts replays them to drive an unfinished run again.
* **Browsers.** A page is a set of async functions over one state: an answer
  changes whatever state there is when it arrives. Pages share no state except cookies,
  the two storages of the browser and the notices in the corner. A respondent's page decodes
  each frame asynchronously, so frames of a connection it has replaced are
  still handled; an embedding site talks to the page by posted messages only.

### What is hard

| Behaviour | Where it bites | Stated as |
|---|---|---|
| sequence numbers become visible out of order | BIGSERIAL before commit | `TypeOK` (pipeline), `ReadYourWrites` |
| an event applied many times | `_bump`, the UPDATEs' guards | `CountersBackedByLog`, `CountsAtMostOnce`, `RowBackedByLog` |
| an old status applied late | replaying a stream onto a newer row | `StatusMovesForward` |
| a queue that is full, an event that is passed over | tail loop | `LossesAreDrops` |
| a reset applied again | the insights table | `InsightsFollowStream` |
| read-modify-write over Redis | `RedisMemory.update` | `CompletionCoversGuide`, `MemoryBehindLog` |
| memory that expires before the resume token | hydration | `TranscriptInOrder`, `RepliesBounded` |
| a model that says anything at any time | `_normalize_action` | `CompletionCoversGuide`, `RepliesBounded` |
| optimistic version check without a transaction | `_require_version` | `DecisionIsCurrent`, `ClaimsCiteAttachedEvidence`, `RepetitionsDistinct` |
| a crash between an effect and its record | `_execute_tool`, `_drive_run` | `ModelKnowsEffects`, `StatusMatchesLog` |
| a confirmation that races its deadline | `_wait_for_confirmation` | `ActsOnlyIfApproved`, `RunSettles` |
| a stream read in two statements, cut anywhere | `_stream_run`, `watch` | `ShownInOrder`, `PanelSettles`, `SettledPanelSawAll` |
| a reply that is lost, late or answered twice | the respondent's socket, its watchdog, its resume token | `CapturedIsSaved`, `QuestionsInOrder`, `StageComesBack`, `SdkAnswersSaved` |
| a reply while the next socket still connects | `sendReply` | `ReceiptIsTrue` |
| messages between a site and its frame | the ready timer, reload, close | `HostCompleteIsReal`, `LateReadyIsShown` |
| cookies that several tabs renew and clear | `refreshOnce`, the session routes | `SignOutHasCause`, `WaitersHaveRenewal`, `LoadingSettles` |
| answers out of order on one page | reads, polls and writes of a study | `EvaluationNeverGoesBack`, `PollingGoesOn`, `ButtonsComeBack` |
| a retry of what had been done | creating a study, recording a trial | `RetriesMakeOneStudy`, `RunsRecordedOnce` |
| two turns in one conversation | Stop, retry and suggestions while one streams | `TypingIsAwaited` |
| tools that answer out of order, a drawer closed meanwhile | `consumeEvent` | `CardsMatchEvents` |
| one numbering for three renderings | `reportModel.ts` | `NotesMatchTheText` |
| an undo offered after further changes | `InsightsBoard.tsx`, `Toast.tsx` | `OfferedUndoWorks` |

`PROJECT.json` lists all of these as hazards, each at its line.

---

## 2. Modules

| Module | Kind | Models |
|---|---|---|
| `CampaignProjector` | operators | `CampaignProjector.apply` on each of its tables |
| `AtMostOnceCounters` | abstract specification | what the counters promise |
| `CampaignPipeline` | state machine | handlers, event store, tail loops, projection |
| `InterviewGuide` | operators | `_normalize_action`: one turn along the guide |
| `InterviewSession` | state machine | handlers of one interview, its memory and its events |
| `ReleaseGate` | operators | `compute_release_decision` |
| `EvaluationWorkspace` | state machine | edits of the workspace, projection, refinements |
| `AgentRun` | state machine | drivers, events, confirmations and recovery of one run |
| `AgentStream` | state machine over `AgentRun` | event stream and the panel that follows it |
| `InterviewServer` | actions | what a respondent's browser can tell of the server |
| `RespondentPage` | actions over `InterviewServer` | the page a respondent is interviewed on |
| `EmbedHost` | actions over `RespondentPage` | the element that frames the page |
| `HeadlessClient` | actions over `InterviewServer` | the client without a page |
| `EmbeddedInterview` | composition | the three surfaces of an interview, with their properties |
| `WebSession` | state machine | cookies, tabs, calls and renewals |
| `EvaluationWorkbench` | actions | the forms of the workbench and its writes |
| `StudyPage` | actions over `EvaluationWorkbench` | a study's page, its reads, commands and polls |
| `StudyCreation` | actions | the page that makes a study |
| `AgentPanel` | actions | the agent's drawer |
| `EvidenceReport` | operators and actions | evidence graph, report, table of responses |
| `Workspace` | actions | the frame of the pages, and those that keep little |
| `ResearchConsole` | composition | the researcher's pages, with their properties |
| `CampaignPipelineProofs` | proofs | counters, row and status of a campaign; the refinement |
| `InterviewProofs` | proofs | memory, order, length and completion of an interview |
| `EvaluationProofs` | proofs | decisions, claims and repetitions |
| `AgentRunProofs` | proofs | approvals, effects and the end of a run; the panel that follows it |
| `EmbeddedInterviewProofs` | proofs | what the element shows, what the headless client lists, what the page says of answers and questions |
| `WebSessionProofs` | proofs | sign-outs and renewals |
| `ResearchConsoleProofs` | proofs | evaluation, polls and trials of a study page; notices; the drawer's cards; the report's notes |
| `StudyCreationProofs` | proofs | studies made and bubbles that type |
| `MCCampaignPipeline`, `MCInterview`, `MCEvaluation`, `MCAgent`, `MCRespondent`, `MCWebSession`, `MCConsole` | instances for TLC | |

How they are put together. Each state machine EXTENDS the operators it uses.
`CampaignPipeline` instantiates `AtMostOnceCounters` with a refinement mapping.
`AgentStream` composes the panel with a run: its next-state relation takes a step of the
run, in which a server that stops cuts its connections, or a step of the panel.
`EmbeddedInterview` extends `EmbedHost`, which frames the page, and
`HeadlessClient`, which replaces it, over one `InterviewServer`; `surface`, chosen at the start,
says which of them the respondent uses. `ResearchConsole` instantiates the pages of a
researcher. They share no state in the browser, so their state spaces are added rather than
multiplied: a behaviour stays at one `desk` while the other pages rest at one of their
beginnings. What pages do share, the cookies, is in `WebSession`.

The modules that meet at an interface see it at different grains. `InterviewSession` is about
the steps inside a turn, `InterviewServer` takes a turn as one step, so that
the clients can have all their detail. `AgentStream` follows how the events of one run reach a panel;
in `AgentPanel` the events are a script, and runs and visits are many.
`EvaluationWorkspace` is the server of the workbench, which `EvaluationWorkbench`
reduces to a list of versions.

Conventions. One action is what the code does between two awaits at which
another task may come in. A handler is a record with a place (`pc`), which the
header of the module draws, and what the handler has read so far. Definitions that
say "Mutant of" or "A mistake" are wrong versions of the definition that follows; no
specification uses them. They exist so that each property can be seen to fail when the
code has a plausible bug (`PROJECT.json`, "mutants").

Every `MC*.cfg` switches off the deadlock check: the instances have finitely many
requests, replies, pages, events or calls, and stop when these are used up.

### Runs

| Run | Configuration | Kind |
|---|---|---|
| `pipeline` | `MCCampaignPipeline` | section 3 |
| `read_your_writes`, `insights_follow_stream` | `MCReadYourWrites`, `MCInsightsFollowStream` | findings, section 3 |
| `interview_solo`, `interview_tabs` | `MCInterviewSolo`, `MCInterviewTabs` | section 4 |
| `evaluation` | `MCEvaluation` | section 5 |
| `agent_run` | `MCAgentRun` | section 6 |
| `missed_events` | `MCMissedEvents` | finding, section 6 |
| `respondent_page` | `MCRespondent` | section 7 |
| `unsent_reply` | `MCUnsentReply` | finding, section 7 |
| `web_session` | `MCWebSession` | section 8 |
| `research_console` | `MCConsole` | section 9 |

---

## 3. Campaign pipeline

### Correspondence

| Model | Code |
|---|---|
| `log`, `lastSeq` | rows of `events` that are committed; the last value of the BIGSERIAL, committed or not |
| `task[p]` | a request handler or an `analyze_completion` task: the events it still appends (`todo`), the number its current INSERT has (`inserting`), what it has appended (`own`) and what it still applies (`sync`) |
| `row`, `progress`, `insights` | the campaign's rows in the three tables |
| `memory` | whether Redis has the org_id and spec that a replay needs to insert the row |
| `notified`, `tail` | the `on_notify` tasks and the queue of each server |
| `Begin` | the checks a route makes on the row it loads |
| `Insert`, `Commit` | one INSERT of `append`; numbers are allocated before the commit |
| `EndWrite`, `ReadStream`, `SyncApply`, `SyncFault` | the rest of `Harness.handle` and `_apply_pending_to_projection` or the route's own loop over its events |
| `Abort` | an INSERT that fails, a client that goes away, a process that dies |
| `Notify`, `TailApply`, `TailFault`, `Restart` | `_listen_loop`, `_tail_loop`, lifespan |
| `SpawnAnalysis` | the embedded worker |
| `ExpireMemory` | the key's time to live |

`Plan`, `AppliesOwn`, `AppliesStream` and `Propagates` say for each kind of
request what it appends, how it projects that, and whether it passes an exception on.

### Runs

| Run | Instance | Shows |
|---|---|---|
| `pipeline` | 2 requests of any of the 8 kinds, 1 analysis, 1 server with a queue of 1, 7 sequence numbers, 1 fault; new study or live study | `TypeOK`, `CountersBackedByLog`, `RowBackedByLog`, `CountsAtMostOnce` (the refinement), `StatusMovesForward`, `LossesAreDrops` hold |
| `read_your_writes` | 3 requests that write the row, no fault | `ReadYourWrites` fails |
| `insights_follow_stream` | 1 interview, 1 server, 1 analysis, a queue with room for every event, no fault | `InsightsFollowStream` fails |

Bounds. Two requests and one loop give three tasks that can apply one
event, which is one more than is needed for a double count or an overtaking. A queue of
one is full as soon as two notifications arrive. A live study starts at number
3, which leaves room for an interview and the two events of its analysis, or for
two requests of two events. One fault suffices for a half-written command or a
lost event. The safety properties are proved without any of these bounds.

`LossesAreDrops` says what may be missing from the counters, which only tail loops move for interview events: a server
hears of every commit, and what it has heard of it counts, unless its queue was full or there was a fault (an exception of `apply`, a
restart). "Counts" means that the cursor has reached the event: the code counts it, or passes over it for good because a
later one came first, and the model does not pretend otherwise. No liveness is claimed here, so no fairness is assumed.

### What the failing runs say

`ReadYourWrites`: a docstring of `_apply_pending_to_projection` promises
that the caller "can immediately GET the projection without a race". An update of
the settings that takes a later number than a concurrent start, and applies only
its own event first, moves `last_event_seq` past the start's; the row then never shows the
study as live.

`InsightsFollowStream`: the projector calls itself "Idempotent per (campaign_id, seq)"
(`campaign_projector.py:119`). Rows and counters have cursors; insights have none. The analysis applies its reset and its
insights, and the tail loop applies them again, in the order in which `on_notify` found them. If
the reset comes last the table is empty although the stream has the insights, and stays so until the next analysis or
replay. No fault, no second analysis and no second server is needed; the run's queue is large enough that
nothing is dropped.

---

## 4. Interviews

### Correspondence

`InterviewGuide!Turn` is `_normalize_action` for one answer: `place` is the
stored item, coverage (in halves, as the code counts 0, 0.5 and 1) and follow-up
counts; `said` is what the model's action comes to: whether it wants to wrap up
and which item of the guide it names. What the model says is
arbitrary, so the properties hold for every model.

`InterviewSession` has the handlers of one interview. A client is a tab or a
caller of `/reply`; a handler hydrates, then loads its context, thinks,
appends the two turns and perhaps the completion one by one, and updates memory
by reading the whole key (`Fetch`) and writing it back (`Put`). `Init` has the
three states in which a join can leave the memory. Upsets are failures of the
model, handlers that die, memory that expires at any time ("expire") or while
nobody is at work ("lapse"), and refinements.

### Runs

| Run | Instance | Shows |
|---|---|---|
| `interview_solo` | 1 tab, 2 items, 1 follow-up on the first, 7 replies, one of model failure or lapse | `TypeOK`, `TranscriptInOrder`, `RepliesBounded` hold |
| `interview_tabs` | 2 tabs, a guide of 1 item that may grow to 2 (or the other way round), 3 replies, one of dead handler, expiry or refinement | `CompletionCoversGuide`, `MemoryBehindLog` hold |

Bounds. An interview over two items and one follow-up needs three replies, six
when its memory is lost once (`Room` has a slot for each item and each of its follow-ups); seven replies leave one to spare, so an interview
that is one reply too long would be seen. With two tabs, three replies are enough for one tab to finish
the interview while another is in the middle of a turn.

Scope. `TranscriptInOrder` holds for one tab whose memory expires between replies;
with two tabs, or an expiry in the middle of a hydration, the code gives
the same number to different turns, and no document says otherwise. `interview_tabs`
has guides that grow at the end. An item inserted in front of the current one is
passed over by the code: with `RefinedGuides` of `MCInterview` TLC refutes
`CompletionCoversGuide`. No document promises more, so this is not a run of the project.

---

## 5. Evaluation workspace

### Correspondence

`ReleaseGate!Clear` says when `compute_release_decision` leaves no blocker; scores
are hundredths, agreement ten-thousandths, and `Rounded` rounds as the code
does before it compares, with halves up. (Python rounds a half to even, and on
binary fractions; the difference is a score that lies exactly on a half hundredth.)

`EvaluationWorkspace`: a handler loads the row (`Load`, the version comparison
included), builds the next workspace from what it has loaded, and appends a patch
with the whole workspace and the decision it leads to (`Persist`), then
applies the patch (`ApplyOwn`). The six edits are actions of their own. `Revise` is any
other SpecUpdated: a text field, or a refinement that redrafts the cases. `Project` is the tail
loop, or a replay, applying any event. `Fail` is a handler that stops between
two steps.

Assumed: refinements do not write `evaluation_workspace`; the gate's
thresholds, the set of cases and their slices are fixed; repetitions asked for lie in
`1..MaxRep`.

### Runs

| Run | Instance | Shows |
|---|---|---|
| `evaluation` | 2 reviewers, 1 case, 1 artifact, 1 pair of versions, 1 calibration batch, refinements that redraft the case, 4 events, 1 failure | `TypeOK`, `DecisionIsCurrent`, `ClaimsCiteAttachedEvidence`, `RepetitionsDistinct` hold |

Bounds. A verdict of `ship` needs a promoted case, a binding, a trial and a
calibration: four events, one of which a refinement may replace. Two
reviewers are what it takes for an edit to be overtaken; a third adds nothing that
the proofs, which are for any number, do not cover.

---

## 6. Agent runs and their event stream

### Correspondence

`OrchestratorAgent.chat` is a generator and `_drive_run` appends each event before
it asks for the next one. So a driver has a queue `out` of the events of its
last decision, `Emit` appends the first of them, and the next decision
is taken when the queue is empty.

| Model | Code |
|---|---|
| `status`, `log`, `confirmation` | the run's rows in the three tables of `storage/agent_runs.py` |
| `performed` | the tool calls whose side effect has happened |
| `drive[s]` | the task that drives the run on server s: conversation, turn, batch of calls, what it has been allowed, outcomes, last status |
| `Think`, `Ask`, `Decide`, `Gather`, `Execute`, `Collect`, `Close` | the loop of `chat`, its confirmations and tool executions |
| `Finish`, `Fail` | `store.finish`, and the exception handler of `_drive_run` |
| `Crash`, `Start`, `Recover` | shutdown or death of a server; `list_running` and `resume_incomplete_agent_runs` |
| `Rebuilt`, `Uncertain` | `_rebuild_conversation` and its `uncertain` result |
| `Resolve` | `resolve_confirmation`, the user's answer |
| `panel` in `AgentStream` | the SSE generator `_stream_run` and the panel's `watch` and `consumeEvent` |
| `Read`, `Check`, `AskStatus` | the two reads of one round of the stream, and `getAgentRun` after it has closed |
| `Drop`, `Reload` | a lost connection with part of the new events delivered; the page loaded again |

A call stands for one tool_use block, which the model asks for at most once. A side effect
is a member of a set. Left out: artifacts, memories, compaction, verification, delegation
to sub-agents and the rule that gives up on a tool after three failures. When a
statement fails while tools run, `gather` leaves them running; what they still do
happens at the step of the failure.

### Runs

| Run | Instance | Shows |
|---|---|---|
| `agent_run` | 1 server, an ordinary and an outward call, 2 turns, batches of up to 2, one of crash, failed statement, lost connection or reload | the seven properties below hold |
| `missed_events` | the same with 1 turn and nothing that fails | `SettledPanelSawAll` fails |

`agent_run` checks `ActsOnlyIfApproved` (an outward call acts only
under an approval that stays); `ModelKnowsEffects` (whoever asks the model
what to do next tells it of every effect so far, also after a recovery);
`StatusMatchesLog`; `EndedStaysEnded`; `RunSettles`; `ShownInOrder` and `PanelSettles` for the panel.

Bounds. Two calls in one batch are what it takes for one result to be
recorded and the other not when the server stops. Two turns make the
conversation longer than one round and reach the turn limit. One upset at any
step covers every point of a crash; safety was also checked with two (6 million
states) and does not depend on their number where it is proved.

Fairness. Each server's `Step` is weakly fair: its tasks run, a wait for a
confirmation ends after 600 seconds, and the platform starts a machine again. The panel's
`Watch` is weakly fair: the browser goes on reading. Nothing is promised of
the user: a confirmation may never be answered. `RunSettles` makes one exception,
kept in the history variable `orphaned`: when the final status itself cannot be
written, the row stays `running` until a server starts, as the code leaves it.

One server. `AgentRun` takes any number of servers, and two of them break
`ModelKnowsEffects`, `StatusMatchesLog` and `EndedStaysEnded`: `list_running` has no notion of an owner, so a
second server recovers a run that the first still drives. The runs use one, as
a comment in `storage/agent_runs.py` assumes ("A run has one driver"), and the two
theorems about the end of a run name this assumption. `ActsOnlyIfApproved` is proved without it.

### What the failing run says

`SettledPanelSawAll`: the stream reads events, then the status. An
event appended and a status written between the two reads close the stream
without that event, and the panel, told that the run has ended, does not ask again.

---

## 7. The respondent's side

### Correspondence

| Model | Code |
|---|---|
| `interviews` | the interviews on the server: lines, current item, over or not |
| `limbo`, `Straggler` | replies that a handler has taken from a connection that is gone; it ends its turn, or dies |
| `page` | the page's state and refs: phase, mode, conversation, `connected`, `dropped`, `awaiting`, the player |
| `token` | `sessionStorage`: the interview that the resume token is for |
| `sock`, `late`, `stale` | the socket of the mounted effect with the frames up and down; frames of earlier sockets that are being decoded; their close events |
| `Preflight`, `Align`, `Tick`, `Start` | reading the study, switching to its language, consent and mode |
| `Opened`, `Closed`, `StaleClose`, `Reconnect` | the socket effect and its handlers, the banner's button |
| `Shake`, `Serve`, `ServeVoice` | the handshake of `ws.py`, a turn over it, an utterance of `voice_ws.py` |
| `OnMessage` (`Greeted`, `TurnTaken`, `Failed`) | the cases of `onmessage` |
| `SendReply` | the composer; on a socket that is still connecting, `send` throws after the line is shown and before anything else, and the line is one of `unsent` |
| `Watchdog`, `LingerEnds`, `Redirect` | the timer of 45 seconds of a reply that is awaited, the farewell |
| `OrbTap`, `MicAnswered`, `AudioEnds`, `OnVoiceMessage`, `ToggleReadAloud`, `SwitchToText` | the voice stage |
| `Reload` | the page loaded again: only the token survives |
| `host`, `HostOpen`, `HostClose`, `ReadyTimeout`, `HandleMessage` | `<telepace-interview>`: its state, timer and message listener |
| `mail` | messages posted to the embedding site, those that change the element |
| `sdk`, `link`, `fetches`, `sdkLate` and the `Sdk*` actions | `TelepaceInterviewClient` |

Reply n and the turn that answers it bear the same number, which stands for their
text: properties can ask whether an answer shown has been saved, and
whether a question is shown twice.

### Runs

`respondent_page` takes a study of 2 questions, 2 replies, 2 interviews, one fault (a lost
connection, a reload, a rejected token, a closed study, a failing turn) at any step, and a
frame opened twice, on each of the three surfaces: 960 thousand states. It checks

* `CapturedIsSaved`: an answer that was sent and is shown as captured, with nothing else on its
  way, is in the log, or a line after it or the banner says that something went wrong;
* `QuestionsInOrder`: of any two questions on the page, the later one was asked later in the interview, and none is put twice;
* `HostCompleteIsReal`, `LateReadyIsShown`: what the element says of its frame;
* `SdkAnswersSaved`: when the headless client asks the next question, every answer it lists is recorded,
  unless `retry()` has had one recorded twice (section 11);
* `StageComesBack`: from any state of the text stage, whatever is lost or left unanswered, the respondent comes to a
  composer that is on, to the banner with its button, or away from the stage; unless the connection was `Overtaken`.

`unsent_reply` takes the page itself, and nothing fails.

Bounds. One reply is lost and another follows it, on a connection that
replaced the first: two replies and one fault. Two interviews occur when a
token is refused and when the page starts over. The headless client and the
direct page were also checked with three replies. A client has at most two
fetches under way.

Fairness. What the browser does by itself: the timer of a page that is open fires (`Watchdog`), a frame that has
arrived is decoded (`OnMessage`), and an attempt to connect ends, one way or the other (`Opened`, `Closed`). Nothing is assumed of
the server or the respondent: `StageComesBack` holds of a server that never answers, because the timer brings
the composer back once `awaiting` is set. It needs all three, as a stage may wait for a connection, then for a frame that
has come but is not decoded, then for a turn.

Assumed: decoding a frame takes less time than opening a connection (so the frames of a replaced
socket come before the HELLO of its successor); a study asks for consent, as the
preflight does by default. A turn of the server is one step; what happens
within is section 4. `CapturedIsSaved`, `QuestionsInOrder` and `SdkAnswersSaved` speak of the
first interview of a visit: after a refused token the page begins another, and
does not promise that what was said in the first is kept.

### What the failing run says

`ReceiptIsTrue`: a switch from voice to text leaves `connected` true, from the voice socket, until that socket's close
event comes. Until then the composer is on, while the text socket connects. A reply given then is shown and counted
(`page.tsx:636-641`), then `send` throws (644), and what follows does not happen: no lock, no bubble, no watchdog. The answer is shown as
captured (`Chat.tsx:842`) and is nowhere; the interview goes on with its greeting. The same happens after a refused
token and Reconnect.

---

## 8. The web session

### Correspondence

| Model | Code |
|---|---|
| `jar` | the two cookies, which only the routes under `app/api/auth/` and the middleware read |
| `tab[t]` | the page and its `AuthProvider`: status, retries, the timer of the next retry |
| `calls[t][k]` | the tab's call of each kind: `/me`, a call for data, the provider's own renewal, login or signup, logout; `carries` is what the cookies were when it was sent |
| `lock[t]` | `refreshInFlight` of `http.ts`, from the request to the tick in which it is forgotten |
| `story` | causes to be signed out: the session has ended (30 days, a logout that was answered), or a renewal has failed |
| `Visit` | a page load through the middleware |
| `Answered`, `Unauthorized`, `RefreshAnswered`, `NextTick` | `request` with its 401, the shared renewal and the calls that wait for it |
| `RenewAnswered`, `RetryMe`, `MeFailed` | the provider's initial effect and its `refresh()` |
| `Register`, `Submit`, `LoggedIn`, `SignOut`, `SignedOut` | the forms, and signing out |
| `AccessExpires`, `SessionExpires` | the cookies' ages |

### Run

`web_session`: two tabs, two page loads after the first ones, one call that fails (5xx) or is lost; 305 thousand states. It
checks `SignOutHasCause` (no tab takes its researcher for a guest unless
something has happened that could end the session), `WaitersHaveRenewal` (a call
that waits for a renewal waits for one under way) and `LoadingSettles`.

Bounds. Two tabs suffice for cookies that change between a call and its answer. A tab has a call for data
besides `/me`, which is two calls for one renewal. With one fault the retries of the
provider (three) are not used up: `LoadingSettles` holds for as many failures as there are
retries, and not beyond.

Fairness. Calls of a loading page are answered or fail, and timers fire: `http.ts` aborts a call after its
deadline (line 30). The shared renewal (`http.ts:80`) and the provider's
own (`AuthProvider.tsx:103`) use a bare `fetch` without one; of these it is assumed that
the browser ends them.

Assumed: an access token lives longer than a renewal and the call that follows it;
a form is submitted when the calls of the page before it are done; a page load drops
what the tab had waited for; the backend does not rotate refresh tokens
(`auth/router.py:215`). The Google callback sets the cookies that a login sets and is left out.

A renewal that fails because the server does is a cause: the route clears the cookies after any refused
renewal (`api/auth/refresh/route.ts:27`), although a comment in
`AuthProvider.tsx` (79-81) says that only a 401 proves that there is no session. A logout in one tab is a
cause for all of them, even where an older renewal sets the cookies again.

---

## 9. The researcher's pages

### Correspondence

| Desk | Modules | Code |
|---|---|---|
| study | `StudyPage`, `EvaluationWorkbench` | `studies/[id]/page.tsx`: `load`, `refresh`, publish, close, export, the polling effect. `calls[n]` is one of its async functions, with what it has read so far |
| review | the same, of a live study that has been read | `EvaluationWorkbench.tsx`: five forms, seven writes, the second read after a failed one; other reviewers and polls in between |
| creation | `StudyCreation` | `studies/new/page.tsx`: `sends` are the turns under way, `chat` the bubbles; `Assessed`, `AssessedLocally`, `Created`, `Loaded` are the gate, `Delta`, `SpecPatch`, `Done`, `StreamError`, `Closed`, `Broken` the refinement stream; `Stop`, `Retry`, `Skip`; task, rail, settings, publish, export and simulation beside it; `made` are the studies on the server with the Idempotency-Key of each |
| drawer | `AgentPanel` | `AgentDock.tsx`, `GlobalAgentPanel.tsx`: `loops` are the loops that watch a run, `Consumed` is `consumeEvent`, `saved` the remembered run; `Orphaned`, `gone` and `LookupEnds` are the loops and lookups of a drawer that was closed, which may still make the browser forget the run |
| report | `EvidenceReport` | `Graph` is `buildEvidenceGraph`, `Numbered`, `Markers`, `Appendix` the report's citations, `View` and `Markdown` its two renderings |
| responses | `EvidenceReport` | the table with search, filters, sorting, export |
| frame | `Workspace` | sidebar, notices with their timers, list of studies, inbox, insights board, billing panel |

The server is as small as a page can tell: the study's status and plan, the versions of its
evaluation workspace, the studies made, the runs' scripts, an evidence document. An answer shows
what the server had when it was asked, however late it comes.

### Runs

`research_console` checks, over all desks, 361 thousand states:

| Property | Says |
|---|---|
| `EvaluationNeverGoesBack` | no answer of a write, a second read or a poll takes the page back to an older version of the evaluation |
| `RunsRecordedOnce` | the outputs typed in are one trial, unless the answer was lost and the reviewer submits them again |
| `PollingGoesOn` | while a live study is shown the next poll is scheduled or under way, whichever read fails |
| `ButtonsComeBack` | publishing, closing and each write end |
| `RetriesMakeOneStudy` | one reason to make a study makes one, through retries after a lost or late create |
| `TypingIsAwaited` | a bubble that types has a turn that writes into it |
| `CardsMatchEvents` | the card of a tool runs until the event that answers its call is taken in, and no longer |
| `NotesMatchTheText` | the notes are numbered 1, 2, 3 as a reader meets them, on the page and in the file, and open on the respondent's words |
| `OfferedUndoWorks` | an undo that is still offered brings back nothing that is not marked |

Bounds, by desk. Evaluation: 3 versions (one overtakes another), each form filled in once, one failing or lost
call; the workbench goes on with a version only if there is room for another. Creation: 3 turns of a researcher who
does nothing else, one beside settings, publishing and the like; an export is asked for once, or until it fails; one
mishap; drafts that fill nothing or what a guide needs; findings of one or all facets. Drawer: one run,
two visits, one cut, two scripts (two tools that answer out of order and one that asks); one
decision is sent at a time. Report: any two or three of seven insights in
any order over two interviews, two queries. Frame: two
items, two notices, three pages visited.

Fairness. Publish, close and the steps of a write end, because the client gives each call a
deadline (`http.ts:30`). Nothing is assumed of the researcher, of polls or of
the conversation.

---

## 10. Proofs

All theorems hold for every value of the constants that the named assumptions
allow. These say that bounds are naturals, that sets of identifiers do not overlap, that a browser's tabs are
finitely many, that no guide has an item twice (`ItemAssumption`, `LimitAssumption`, `GuideAssumption`,
`SessionAssumption`, `BoundAssumption`, `MenuAssumption`, `TaskAssumption`, `GateAssumption`, `DraftAssumption`,
`WorkspaceAssumption`, `AgentAssumption`, `WebSessionAssumption`, `ServerAssumption`, `HostAssumption`,
`SurfacesAssumption`, `ConsoleAssumption`), and, of what a run does, that its calls are told apart and come
before their answers (`ScriptsAssumption`; the loop of `agents/orchestrator/main.py:369-489` announces each call of a turn
and then executes it), and of what the server answers with, that it is lists and that an insight has an id of its own
(`DocumentsAssumption`; the id is the key of its table, `storage/projections/campaign_projector.py:58`). TLC evaluates all of them in the runs. Where a theorem needs more, it states it as a premise:

* `OneServer` (a run has one driver): what an ended run, and the model's knowledge of effects, rely on. With two servers
  the former is false, as TLC shows, because `list_running` finds a run that another server drives;
  `storage/agent_runs.py:222` says that "A run has one driver".
* `OneTab` and `NothingCutShort`: one tab, whose handlers do not die and whose memory does not expire while one of them works. The
  model may fail, the memory may expire while the respondent is away, the study may be refined. What else may happen numbers two turns from the same memory.
* `OneTab` and `NotRefined`: one tab, and a study that is not refined while the interview goes on. Here handlers may die and the memory may
  expire at any time. With two tabs the memory that one of them writes may be behind what the other has asked, and
  with a refinement the guide that bounds the interview is another one.
* `GuidesGrow`: the guides that a study may have differ at their ends only.

| Module | Theorem | Says |
|---|---|---|
| `CampaignPipelineProofs` | `TypeCorrect` | `Spec => []TypeOK` |
| | `CountersAreBacked` | `Spec => []CountersBackedByLog` |
| | `RowIsBacked` | `Spec => []RowBackedByLog` |
| | `StatusForward` | `Spec => StatusMovesForward` |
| | `OnlyDropsAreLost` | `Spec => LossesAreDrops` |
| | `CountsOnce` | the pipeline implements `AtMostOnceCounters` |
| `InterviewProofs` | `TypeCorrect` | `Spec => []TypeOK` |
| | `MemoryBehind` | `Spec => []MemoryBehindLog` |
| | `CompletionCovers` | `GuidesGrow` implies `Spec => []CompletionCoversGuide` |
| | `OneTabInOrder` | `OneTab` and `NothingCutShort` imply `Spec => []TranscriptInOrder` |
| | `RepliesStayBounded` | `OneTab` and `NotRefined` imply `Spec => []RepliesBounded` |
| `EvaluationProofs` | `TypeCorrect` | `Spec => []TypeOK` |
| | `DecisionCurrent` | `Spec => []DecisionIsCurrent` |
| | `ClaimsAttached` | `Spec => []ClaimsCiteAttachedEvidence` |
| | `RepetitionsOnce` | `Spec => []RepetitionsDistinct` |
| `AgentRunProofs` | `OnlyIfApproved` | `Spec => []ActsOnlyIfApproved`, for any number of servers |
| | `StatusMatches` | `OneServer` implies `Spec => []StatusMatchesLog` |
| | `EndedStays` | `OneServer` implies `Spec => EndedStaysEnded` |
| | `EffectsKnown` | `OneServer` implies `Spec => []ModelKnowsEffects` |
| | `PanelInOrder` | `WatchedSpec => []ShownInOrder`, for any number of servers |
| `EmbeddedInterviewProofs` | `CompleteIsReal` | `Spec => []HostCompleteIsReal` |
| | `SlowPageIsShown` | `Spec => []LateReadyIsShown` |
| | `AnswersAreSaved` | `Spec => []SdkAnswersSaved` |
| | `CapturedAnswersAreKept` | `Spec => []CapturedIsSaved`, of the answers that were sent |
| | `QuestionsStayInOrder` | `Spec => []QuestionsInOrder` |
| `WebSessionProofs` | `TypeCorrect` | `Spec => []TypeOK` |
| | `SignOutCaused` | `Spec => []SignOutHasCause` |
| | `WaitersAwaited` | `Spec => []WaitersHaveRenewal` |
| `ResearchConsoleProofs` | `EvaluationForward` | `Spec => EvaluationNeverGoesBack` |
| | `PollingForever` | `Spec => []PollingGoesOn` |
| | `UndoForever` | `Spec => []OfferedUndoWorks` |
| | `RunsOnce` | `Spec => []RunsRecordedOnce` |
| | `CardsForever` | `Spec => []CardsMatchEvents` |
| | `NotesInOrder` | `Spec => []NotesMatchTheText` |
| `StudyCreationProofs` | `OneStudy` | `Spec => []RetriesMakeOneStudy` |
| | `TypingEnds` | `Spec => []TypingIsAwaited` |

**Campaign pipeline.** `IInv` is `TypeOK`, `FreshNumbers`, `CountersBackedByLog`
and `RowBackedByLog`. `FreshNumbers` is needed because a commit adds a
number to the log: it must be new, and nobody else's. With it every step has one
of three shapes (`StepShape`): nothing happens to log and tables, one event
is committed, or one committed event is applied to the tables. The rest is about the
projector alone. A counter that is at most the number of its events up to the cursor
stays so, because an event past the cursor adds one to both sides and a commit can only
add to the right. The refinement maps a commit of a countable event to `Record`, an
application past the cursor to `Count`, and everything else to a stutter.
`OnlyDropsAreLost` sorts the steps by what they do to one server's share of events (`HoldShape`): nothing,
a commit, a notification, taking the head of the queue, or a fault.

**Interviews.** `TurnsInv` adds to `MemoryBehindLog` that no handler counts a turn that is
neither in the log nor among the events it is still to append, and that these events are
a reply, an interviewer's turn and perhaps the completion. Each step of `Persist` moves one event
from the handler to the log, so the sum stays. `PlacesInv` says the same of
items: what a place relies on (`PlaceOK`) is the items with any coverage and, at the
current item, all items up to it, and each of these was asked in the log, in the events
ahead, or by the greeting. It survives overwritten memories since the invariant holds
for whatever a handler has read, and hydration since the current item
is kept or the interview starts over. `TurnKnown` is the heart: one turn keeps it, whatever the model
says, and wraps up only when nothing is left after the current item
(`NextUncoveredIsFirst`, from the least element of a set of naturals). `GuidesGrow` says
that the guides a study may have differ at their ends only, which holds of a
study that is not refined at all; then an item has the same place in
each (`SameIndex`). Without it the statement is false, as TLC shows with `RefinedGuides`.

**The order of a transcript.** A turn is numbered from the memory its handler has read. `OrderInv` says how far
that memory may be from the log: no recorded turn has a number above what the memory counts, or above one more where the memory has been
restored from the log (`UpTo`, which is why a restored memory may repeat a number but not go back), and what a handler is still to append
goes on from the log (`GoesOn`). A handler cut short between two appends would leave a larger gap.

**The length of an interview.** A place in the guide leaves room (`Left`) for some replies: one for each item that is not covered, and one for each
follow-up that it has not had. The room is a set of pairs of an item and a follow-up, so that nothing need be summed. A turn takes a slot away and
adds none, whatever the model says, or it wraps up: an item that is left is covered and gives back the slots it has not used,
a follow-up takes the slot that bears its number. `BoundInv` says that the replies recorded and the room
left by a place come to no more than is allowed (`Fits`), for every place that is still to be used: the one stored, those that a handler has read or
decided on, and the fresh start that hydration falls back to. A recorded reply of which the
memory does not know yet is one more than fits, until it is written (`Unsaved`); if it is never
written, because the handler dies, that was an upset, and an upset allows for a whole guide more. `OneTab` is needed
since a second handler would write a place that does not know of the first one's reply.

**Evaluation workspace.** `DecisionIsCurrent` is not inductive: a decision
is made for a version that the row does not have yet. `DecisionsFit` adds that a handler
that has loaded the present version has loaded the present cases, and that an event
whose decision is for the next version carries the verdict of the evidence it
leads to. Applying any event moves the version on, so a decision either
becomes current with its own event or never. Nothing about the gate is used
except that it is a function of the evidence. `SoundEverywhere` states
that every workspace, in the row, in an event or at a handler, cites what it has and
has one outcome for each repetition; a whole-workspace patch can lose
an edit but not mix two.

**Approvals.** The strengthening says of every driver (`DriverOK`) that each call
it has been allowed is approved if it is outward, that no call it has yet to ask about has a
confirmation row, and that no two drivers have a call in common (`Disjoint`). An approval is never
written again: `Resolve` needs a pending row and `Ask` writes the row of a call that
has none. The conversation needs no type here, which is why the proof is for
any number of servers and does not look into `Rebuilt`.

**The end of a run.** A driver about to write a final status has yielded the
event that says the same, or is about to (`WordFits`): the last element
of log and queue together. Once a status is written the only driver is idle
with an empty queue (`EInv`), so nothing follows. With two servers the second clause
is false, as TLC shows.

**What the model knows.** Whatever a run has done, its model is told of. `KInv` says that an effect belongs to a call that the log has
announced, and that a driver (`Informed`) has the effect in its conversation by the time it thinks or asks again; while it
executes, the effect is of one of the calls it is about to answer. A driver that recovers a run starts from what `_rebuild_conversation` makes of
the log, which is a fold. `RebuiltKnows` follows it by induction over the log's length: every call announced so far has been
answered, or is among the results or the pending calls that the fold carries. Where a call was announced and
not answered when the server stopped, the run is given up (`Uncertain`) rather than driven again.

**What the panel shows.** `PanelInv` says that what has been shown is the log up to the cursor. The log only grows, at its end
(`Extends`), so this holds of whatever the panel has read, in however many pieces and over however many
connections, and an answer of a connection it has given up changes nothing.

**What the element shows.** `SiteInv` follows a message back to where it comes from. That an interview is over is true of
a `complete` in the element if it was of the message (`HostInv`), of the message if it was of the frame that the page decoded
(`PageInv`), of the frame if it was when the server sent it (`SockInv`), and an interview that is over stays so (`LedgerInv`). Frames name
the interview they speak of, those of replaced sockets included.

**What the headless client lists.** The client keeps one answer, the last, and waits for one turn. `ClientInv` says of the
first interview that every answer listed but the last is recorded (`KeepsTheLast`), that the last is recorded, on its way or in the client's hands, and that what is on its way
back is at most the greeting and then one turn (`GreetingFirst`, `OneTurn`): a turn on its way back means that the last answer is
recorded. `retry()` breaks the latter when the answer it resends was still under way, hence `RecordedOnce`.

**What the page shows as captured.** `TalkInv` has three parts. `Scene` says what the page and its connection can look like together:
nothing to see before the interview (`PageShape`); on a connection the handshake first, then replies, and nothing behind a rejection
(`SockShape`); and no greeting gives a history the server does not have (`HonestInv`). `Accounted` says of each answer that the page has sent (a line whose `send` threw is not one), until
there is a second interview, what has become of it: it is on its way up, or recorded, or a line further down or an error on its way says that it failed, or
the page still waits for it, or what the page shows is about to be replaced by a history or is under the banner. The proof goes through what the
page does with a frame: a greeting keeps the log or takes over the history, which is honest;
a turn or a failure takes the bubble out of the log and says one more line. Taking the bubble out is a recursive function (`Settled`), which
`SettledKeeps` follows by induction over the log's length: what is left is embedded in what was there, in its order, and nothing but
the bubble is missing (`Kept`). All later lemmas speak of a log that `GoesOn` in this sense. On the server's side interviews only grow
(`Outgrows`), so what is recorded stays recorded.

**The order of the questions.** An interview's lines are asked in their order; the page sees them through frames, some of them left from a replaced connection,
and a greeting may repeat the last question or be one ahead of the page. `OrderInv` says that the questions on the page are
among those of the interview, in that order (`LogIn`), and that those queued come after them (`QueueIn`); where a greeting that takes the interview up again is at the front of the queue, they come
after its history, which replaces the log. That a question has one place in the interview rests on the
numbers of the replies (`Numbered`): a question bears the number of the reply it answers, a number is drawn once and is in one place,
be it on its way, in `limbo` or recorded. That a greeting which resumes is not taken for one that begins rests on
`OpensInv`: whatever names an interview (the token, a frame up or down) names one that has begun, with the first question.
Nothing about the language model or the guide is used.

**The web session.** `SignOutHasCause` is not inductive: what a tab believes follows
from answers, and an answer from the cookies that its call carried. `Sound` says, as long as
nothing has happened to the session, that the refresh cookie is in the jar, that
every renewal under way carries it (and so is granted), and that a call sent for the second time
carries the access cookie of a renewal. `IInv` makes this conditional on an empty `story`, so
that a step which adds a cause needs no argument. `WaitersHaveRenewal` is part of `IInv`: a
call that waits without a renewal would be released by nobody. The proof goes action by action; the helpers of
a step (`Outcome`, `Released`, `Unauthorized`) have lemmas of their own.

**What a study page shows.** `Forward` says that versions are naturals wherever they are held,
which is what the comparison of `newestEvaluationState` needs, and `Unread`: before
a study's detail has been read nothing of its evaluation is shown, and none is being read. The one
step that empties what is shown is the reload offered after a failed first read, and `Unread` says that
there is nothing to take away then. A read that is
under way across such a reload would break it, which is why `Unread` speaks of the calls too. All other desks leave
the study alone, so one lemma for each group of its actions suffices.

**Trials.** `RecordInv` adds to `RunsRecordedOnce` that the trial in the form is not on the server yet, unless the answer that says so was lost, or
is there to be received (`Recording`): only then does the form empty itself. Outputs typed later bear a new number.

**Notices.** `Offered` says of the notices on a board that what any of them would bring back is marked, and that no two would bring back
the same. The second part makes the first inductive: an undo takes away its own marks and none that
another notice counts on. A notice of an earlier visit bears an earlier mount, and its undo reaches nobody.

**Cards.** `CardsRight` says of the cards of a run and a cursor that each tool's card has been called before the cursor, that a call has one card,
and that the card runs until its call is answered before the cursor. Taking in one more event keeps this (`ToolCalled`,
`AnswerRight`, `OthersRight`); it is here that calls must be told apart, or a second call's card would be settled by the first
one's answer. The rest of `DrawerInv` shows that the drawer takes in each event once: loops that watch do so for the run that the panel shows
(`LoopsTyped`), a run that nobody has heard of has no cards (`Unheard`), and a drawer that is reopened reads the log from
its beginning, onto no cards.

**Notes.** Hardly anything of `NotesMatchTheText` is about steps: `ReadInv` says that the graph held is that of the document, or none,
and that an open citation is one of its. The rest is about lists. What the report chooses from a list it takes at some of its
places in their order (`Drawn`), and `Ascending`, which lists these places, is a recursive function that `AscendingRises` describes by induction.
So the index of the citations has each id once, ordered by the place of its first use (`Indexes`, `DistinctIndexes`). The marks of one finding
are sorted, not in the order of use; yet all numbers up to some *n* have been met after any number of findings, because what a finding cites is either
in the index before *n* already or the next to come (`InTurn`, `ReportInTurn`). What a reader meets first is therefore 1, 2, 3 (`InTurnCounts`), and
the appendix, which lists them all, adds the citations that no finding uses (`NotesCount`). That ids are the insights' own is needed here: two citations with one id
would have one number, and the notes would be fewer than the quotes. A quote gets a citation only if a turn of the respondent bears it (`Grounded`), and
that turn is found again from the citation (`HighlightedIs`).

**Polling.** `Watched` adds to `PollingGoesOn` only that a poll is never the call of a command. A call
either goes on, and a current poll stays current (`GoesOnWatched`), or ends, and a current poll sets the timer
(`OverWatched`). The step that needs care is a read of the details (`DetailWatched`), which may be that of the poll
itself, of another poll or of a command: it takes the polls out of currency only when the study becomes live or stops being it, and in
the first case sets the timer.

**One study for a reason.** `RetriesMakeOneStudy` counts studies, and nothing in a step says why there
should not be one more. `Attempts` counts keys instead. A study has the key of the attempt that made it, and the server has
one of each key (`OneOfEach`), so there are no more studies than keys drawn (`NoMoreThanKeys`, by an injection). And there is at
most one key more than there were reasons, none more while there is neither a study nor a key to try (`KeysHaveReasons`). For a
draw to keep this, the page must not take a study for missing while another turn is making one: `OneTurn` says that
until there is a study at most one turn is under way, and afterwards none assesses. That is why it matters that the
keyboard's save of a task, which asks nobody whether a turn is under way, is offered with a study only.

**Who types.** `Awaited` says that the bubbles that type are those of the turns under way, and that a turn which is closing has stopped
typing. A turn takes the typing of its bubble with it whichever way it ends, and writes into no other. For a turn to find a slot of its
own, the page that is not busy must have one free; this uses `Attempts`.

**Induction.** The library's induction theorems take an operator, which the provers cannot instantiate. `Induction` in
`AgentRunProofs` states the rule with a set instead, from the well-founded order of the naturals, and `NextUncoveredIsFirst` of `InterviewProofs`
takes a least element directly; `EmbeddedInterviewProofs` and `ResearchConsoleProofs` have rules of the same kind. The rebuilt conversation, the log without its
bubble and the lists of a report, those that `FlattenSeq` joins included (`FlattenIs`), are reasoned about that way.

---

## 11. What only TLC checks, and what nothing checks

Liveness (`RunSettles`, `PanelSettles`, `StageComesBack`, `LoadingSettles`,
`ButtonsComeBack`) and what needs ENABLED is out of the prover's reach and is model-checked. Every safety property of a passing run has a
theorem; some need a premise that §10 names (`OneServer`, `OneTab`, `NothingCutShort`, `NotRefined`, `GuidesGrow`).

Some behaviour was met while modelling that is in the models, or next to them, and that no run judges. The
first five are at odds with a comment of the code:

* *Two analyses.* Every completion starts a task of its own (`main.py:81`) and `append_many` inserts event by
  event: the analyses of two interviews write two resets and then two sets of insights, where `worker.py:48`
  promises "exactly one current insight set" of a replay.
* *A promotion without its claim.* An edit checked before a review and appended after it replaces the
  workspace, the review's claim with it, and leaves the case promoted; `evaluations.py:76` says "only accepted
  evidence may promote an evaluation case".
* *Clarifying without end.* The ceiling of two rounds is tested together with `taskComplete`
  (`studies/new/page.tsx:721`): while the assessment finds no objective the researcher is asked again, where
  line 302 says that a "stubbornly vague opener still lands a study rather than looping forever".
* *Polls that overlap.* The cleanup of the polling effect clears the timer and not the poll that is under way. One that
  read the details before a closing shows the study live again, which starts another poll
  beside it; `studies/[id]/page.tsx:156` says "Polls never overlap".
* *A close that comes late.* The voice socket's `onclose` sets `connected` to false whichever socket is current
  (`page.tsx:617`). If it runs after the text socket has opened, the composer stays off, under "connecting", and the banner does not
  come, because the close was a deliberate one; lines 90-92 say that the respondent is not to be left "with no visible
  reason or way out". `StageComesBack` excepts this state by name (`Overtaken`), and TLC finds it without the exception.
* *Memory.* The counts of follow-ups start anew after an expiry (`respondent_context.py:232`);
  `RepliesBounded` allows for one such restart.
* *A study without a row.* When create's own replay fails and its Redis key expires before another one, the
  study never gets a row (`main.py:69`).
* *Means.* Scores are rounded before they are compared with a floor, so a mean just below it passes (`release.py:144`).
* *Rebuilt conversations.* Two turns without text between them collapse, and a refused call leaves a
  result without its use (`routers/agent.py:188`).
* *The respondent's stage.* It is blank after a switch from voice to text, or after a reply that was
  faster than the question; after a refused token and Reconnect it keeps the old question;
  the turn of a handler whose client had gone is not shown after the HELLO of the next.
* *Voice.* The voice server sends its texts as bytes, which the page plays
  (`voice_ws.py:88`, `page.tsx:554-597`): no transcript is parsed, and an orb waiting for the interviewer's line stays.
* *Study creation.* The settings' debounce sends the last field's patch only (990-1003);
  channels toggled in the launch panel are not saved (1683).
* *A retry that doubles.* `reply()` while a turn is awaited fails as recoverable (`telepace-interview-headless.js:330-346`), and
  `retry()` then resends the answer that is still under way (347-361). It is recorded twice; the turn that answers the copy makes the
  client forget the next answer, which is lost without a word if its own turn fails.
* *Small things.* An answer of the checkout takes the
  researcher away from whatever page they are on (`BillingPanel.tsx:56`); undoing two notices of the inbox, oldest first,
  leaves all read (`InboxBoard.tsx:51`); `start()` called twice leaks a socket of the headless client.
* *Overage.* Two servers that meter different interviews at once each insert a usage row and then read the
  usage: both may find the quota exceeded and report overage for an interview that was within it. A crash between
  the insert and the report is left to a reconciliation (`core/billing/service.py`, `record_completion`).

---

## 12. What is not modelled

* **Billing**: rows that one statement each inserts or upserts, with a unique key for each
  interview, and calls of a payment provider. Its panel is in `Workspace`.
* **Invitation dispatch**: a loop over the addresses of one command that keeps nothing; whether a provider
  sent what it failed to confirm is outside the program. The command is in `CampaignPipeline`.
* **Policies**: checks of one command's text, without state.
* **Designer, analyst, language model client**: text generation. What they return is arbitrary
  wherever it enters a model.
* **Accounts, API keys, OAuth**: single-statement reads and writes of independent rows.
* **Evaluation blueprint, marketing pages, user interface kit**: presentation. What the kit keeps (composer, orb, menus,
  notices) is in the modules of the pages that use it.
* **Manual wizard, research chat, voice clips**: a form whose publish button only logs, and components no page uses yet.
* **Other pages of the workspace** (settings, audience, integrations, copilot): fields of one call, lists read once, a second
  instance of the drawer.
* **Evaluation harness, scripts, deployment**: development tools.
* **Parts of modelled components**: read routes and persona simulation of campaigns; the
  standalone worker, which behaves as one more server that only analyzes; tokens
  and origins of sessions on the server; transcription and synthesis of voice, and the page's replay button, which it never
  offers; the in-memory event store, a test double.

---

## 13. Plan

The order follows what a wrong state would cost: what a researcher reads and is shown
first, then respondents, then release decisions, then actions towards the outside, then
the pages in which all this is seen.

| Step | Modules | State |
|---|---|---|
| 1. Campaign pipeline with its abstract counters | `CampaignProjector`, `AtMostOnceCounters`, `CampaignPipeline`, proofs | done |
| 2. Interviews | `InterviewGuide`, `InterviewSession`, `InterviewProofs` | done |
| 3. Evaluation | `ReleaseGate`, `EvaluationWorkspace`, proofs | done |
| 4. Agent runs and their stream | `AgentRun`, `AgentStream`, proofs | done |
| 5. The respondent's side | `InterviewServer`, `RespondentPage`, `EmbedHost`, `HeadlessClient`, `EmbeddedInterview`, `EmbeddedInterviewProofs` | done |
| 6. The web session | `WebSession`, `WebSessionProofs` | done |
| 7. The researcher's pages | `StudyPage`, `EvaluationWorkbench`, `StudyCreation`, `AgentPanel`, `EvidenceReport`, `Workspace`, `ResearchConsole`, `ResearchConsoleProofs`, `StudyCreationProofs` | checked; all safety properties proved |
| 8. An abstract interview | one reply at a time and no memory loss, which `InterviewSession` with one tab implements | open |
| 9. A ledger of billed interviews | usage rows and overage reports of several servers; abstract specification: an interview is billed at most once | open |
| 10. Two servers for agent runs | what remains of `ModelKnowsEffects` when `list_running` meets a live driver | open |
