------------------------ MODULE EvaluationWorkspace ------------------------
(***************************************************************************)
(* The evaluation half of a campaign's spec: reviewers attach evidence,    *)
(* promote cases, bind versions, record trials and calibrations            *)
(* (interfaces/rest_api/routers/evaluations.py).                           *)
(*                                                                         *)
(* A handler loads the row and compares its version with the one that the  *)
(* reviewer expects, builds the next workspace from the row it has loaded, *)
(* appends one SpecUpdated with the whole workspace, and applies it:       *)
(*                                                                         *)
(*   idle -> loaded -> applying -> idle                                    *)
(*                                                                         *)
(* Nothing ties the append to the version that was compared.  The patch    *)
(* replaces the workspace of the row, and its cases if it has any.         *)
(***************************************************************************)
EXTENDS ReleaseGate

CONSTANTS
  Editors,    \* handlers at work on requests about the program
  Artifacts,  \* evidence that may be attached
  Drafts,     \* statuses of the cases that a refinement may write
  MaxSeq,     \* bound: events
  MaxRep,     \* bound: the number of a repetition
  MaxFaults   \* bound: handlers that fail between two steps

ASSUME DraftAssumption == Drafts \subseteq [Cases -> CaseStatuses]
ASSUME WorkspaceAssumption == {MaxSeq, MaxRep, MaxFaults} \subseteq Nat

VARIABLES
  row,      \* the campaign's row
  log,      \* its SpecUpdated events, numbered as in the event store
  editor,   \* the handlers
  faults    \* failures so far

vars == <<row, log, editor, faults>>

-----------------------------------------------------------------------------
Claims == [case : Cases, artifact : Artifacts, accepted : BOOLEAN]

\* release_decisions is append-only and only its last record is ever read.
NoDecision == [verdict |-> "none", gate |-> 0]

EmptyWorkspace ==
  [artifacts |-> {}, claims |-> {}, binding |-> NoBinding, trials |-> {},
   calibrations |-> <<>>, last |-> NoDecision]

\* What the gate looks at.
Evidence(cases, ws) ==
  [cases |-> cases, binding |-> ws.binding, trials |-> ws.trials, calibrations |-> ws.calibrations]

\* A patch carries the workspace, the cases, or neither (a text field).
Patch(ws, cases, hasWs, hasCases) ==
  [workspace |-> ws, cases |-> cases, hasWs |-> hasWs, hasCases |-> hasCases]

\* Mutant of Patched: the version stays.
PatchedInPlace(r, s, patch) ==
  [version |-> r.version,
   seq     |-> s,
   cases   |-> IF patch.hasCases THEN patch.cases ELSE r.cases,
   ws      |-> IF patch.hasWs THEN patch.workspace ELSE r.ws]

\* SET spec = spec || patch, version = version + 1, last_event_seq = s
Patched(r, s, patch) ==
  [version |-> r.version + 1,
   seq     |-> s,
   cases   |-> IF patch.hasCases THEN patch.cases ELSE r.cases,
   ws      |-> IF patch.hasWs THEN patch.workspace ELSE r.ws]

\* WHERE last_event_seq < s
Applied(r, s, patch) == IF r.seq < s THEN Patched(r, s, patch) ELSE r

\* Mutant of CurrentDecision: the last record is taken for current.
LastDecision(r) ==
  IF r.ws.last # NoDecision THEN r.ws.last.verdict ELSE Verdict(Evidence(r.cases, r.ws))

\* _current_decision: the last record if it is of this version, else computed.
CurrentDecision(r) ==
  IF r.ws.last # NoDecision /\ r.ws.last.gate = r.version
    THEN r.ws.last.verdict
    ELSE Verdict(Evidence(r.cases, r.ws))

-----------------------------------------------------------------------------
Hypotheses == [c \in Cases |-> "hypothesis"]

NewRow == [version |-> 1, seq |-> 0, cases |-> Hypotheses, ws |-> EmptyWorkspace]

Idle        == [pc |-> "idle", base |-> NewRow, seq |-> 0]
Applying(s) == [pc |-> "applying", base |-> NewRow, seq |-> s]

Init ==
  /\ row = NewRow
  /\ log = <<>>
  /\ editor = [e \in Editors |-> Idle]
  /\ faults = 0

\* The request expects the version that the row has; any other is refused.
Load(e) ==
  /\ editor[e].pc = "idle"
  /\ editor' = [editor EXCEPT ![e].pc = "loaded", ![e].base = row]
  /\ UNCHANGED <<row, log, faults>>

\* _persist_evaluation_change: the decision that the change causes is part of
\* the workspace that the event carries.
Persist(e, ws, cases, hasCases) ==
  LET base     == editor[e].base
      decision == [verdict |-> Verdict(Evidence(IF hasCases THEN cases ELSE base.cases, ws)),
                   gate    |-> base.version + 1]
  IN  /\ Len(log) < MaxSeq
      /\ log' = Append(log, Patch([ws EXCEPT !.last = decision], cases, TRUE, hasCases))
      /\ editor' = [editor EXCEPT ![e] = Applying(Len(log) + 1)]
      /\ UNCHANGED <<row, faults>>

\* Evidence that is attached already is not attached again.
AttachEvidence(e) ==
  LET base == editor[e].base IN
  /\ editor[e].pc = "loaded"
  /\ \E a \in Artifacts \ base.ws.artifacts :
       Persist(e, [base.ws EXCEPT !.artifacts = @ \cup {a}], base.cases, FALSE)

\* Mutant of ReviewEvidence: the artifacts of a review are not looked up.
ReviewAnyEvidence(e) ==
  LET base == editor[e].base IN
  /\ editor[e].pc = "loaded"
  /\ \E a \in Artifacts, c \in DOMAIN base.cases, accepted \in BOOLEAN :
     \E to \in {base.cases[c]} \cup (IF accepted THEN {"evidence_backed", "regression"} ELSE {}) :
       Persist(e, [base.ws EXCEPT !.claims = @ \cup {[case |-> c, artifact |-> a, accepted |-> accepted]}],
                  [base.cases EXCEPT ![c] = to], TRUE)

\* A claim cites attached evidence; only an accepted one may promote its case.
ReviewEvidence(e) ==
  LET base == editor[e].base IN
  /\ editor[e].pc = "loaded"
  /\ \E a \in base.ws.artifacts, c \in DOMAIN base.cases, accepted \in BOOLEAN :
     \E to \in {base.cases[c]} \cup (IF accepted THEN {"evidence_backed", "regression"} ELSE {}) :
       Persist(e, [base.ws EXCEPT !.claims = @ \cup {[case |-> c, artifact |-> a, accepted |-> accepted]}],
                  [base.cases EXCEPT ![c] = to], TRUE)

BindVersions(e) ==
  LET base == editor[e].base IN
  /\ editor[e].pc = "loaded"
  /\ \E b \in Bindings : Persist(e, [base.ws EXCEPT !.binding = b], base.cases, FALSE)

Existing(ws, c) == {t.rep : t \in {u \in ws.trials : u.case = c /\ u.binding = ws.binding}}

\* Mutant of RecordTrial: a repetition that was asked for is not looked up.
RecordTrialAgain(e) ==
  LET base == editor[e].base IN
  /\ editor[e].pc = "loaded"
  /\ base.ws.binding # NoBinding
  /\ \E c \in Runnable(base.cases), score \in Scores, critical \in BOOLEAN, rep \in 1..MaxRep :
       Persist(e, [base.ws EXCEPT !.trials = @ \cup
                    {[case |-> c, rep |-> rep, binding |-> base.ws.binding,
                      score |-> score, critical |-> critical]}],
                  base.cases, FALSE)

\* The repetition is the one asked for, unless the pair has it, or the next one.
RecordTrial(e) ==
  LET base == editor[e].base IN
  /\ editor[e].pc = "loaded"
  /\ base.ws.binding # NoBinding
  /\ \E c \in Runnable(base.cases), score \in Scores, critical \in BOOLEAN, rep \in 1..MaxRep :
       /\ rep \notin Existing(base.ws, c)
       /\ Persist(e, [base.ws EXCEPT !.trials = @ \cup
                       {[case |-> c, rep |-> rep, binding |-> base.ws.binding,
                         score |-> score, critical |-> critical]}],
                     base.cases, FALSE)

\* A judge's pairs are recorded once.
RecordCalibration(e) ==
  LET base == editor[e].base IN
  /\ editor[e].pc = "loaded"
  /\ \E batch \in Batches :
       /\ \A n \in DOMAIN base.ws.calibrations :
            base.ws.calibrations[n].judge = batch.judge =>
              {x.pair : x \in base.ws.calibrations[n].examples} \cap {x.pair : x \in batch.examples} = {}
       /\ Persist(e, [base.ws EXCEPT !.calibrations = Append(@, batch)], base.cases, FALSE)

RecomputeDecision(e) ==
  /\ editor[e].pc = "loaded"
  /\ Persist(e, editor[e].base.ws, editor[e].base.cases, FALSE)

\* projector.apply(stored.seq, stored.event), and the response.
ApplyOwn(e) ==
  /\ editor[e].pc = "applying"
  /\ row' = Applied(row, editor[e].seq, log[editor[e].seq])
  /\ editor' = [editor EXCEPT ![e] = Idle]
  /\ UNCHANGED <<log, faults>>

\* The handler is refused, or fails: an event it has appended stays.
Fail(e) ==
  /\ editor[e].pc # "idle" /\ faults < MaxFaults
  /\ faults' = faults + 1
  /\ editor' = [editor EXCEPT ![e] = Idle]
  /\ UNCHANGED <<row, log>>

-----------------------------------------------------------------------------
Text == Patch(EmptyWorkspace, Hypotheses, FALSE, FALSE)

\* Settings change text fields; a refinement may also redraft the cases, in the
\* words of a language model: whatever statuses it writes are taken.
Revise ==
  /\ Len(log) < MaxSeq
  /\ \E patch \in {Text} \cup {Patch(EmptyWorkspace, draft, FALSE, TRUE) : draft \in Drafts} :
       log' = Append(log, patch)
  /\ UNCHANGED <<row, editor, faults>>

\* A tail loop or a replay of the stream applies an event, in whatever order.
Project(s) ==
  /\ row.seq < s
  /\ row' = Applied(row, s, log[s])
  /\ UNCHANGED <<log, editor, faults>>

Edit(e) ==
  \/ AttachEvidence(e)
  \/ ReviewEvidence(e)
  \/ BindVersions(e)
  \/ RecordTrial(e)
  \/ RecordCalibration(e)
  \/ RecomputeDecision(e)

Next ==
  \/ \E e \in Editors : Load(e) \/ Edit(e) \/ ApplyOwn(e) \/ Fail(e)
  \/ Revise
  \/ \E s \in DOMAIN log : Project(s)

Spec == Init /\ [][Next]_vars
-----------------------------------------------------------------------------
Decisions == [verdict : {"none", "ship", "hold"}, gate : Nat]

Workspaces ==
  [artifacts : SUBSET Artifacts, claims : SUBSET Claims, binding : Bindings \cup {NoBinding},
   trials : SUBSET Trials, calibrations : Seq(Batches), last : Decisions]

Rows     == [version : Nat \ {0}, seq : Nat, cases : [Cases -> CaseStatuses], ws : Workspaces]
Patches  == [workspace : Workspaces, cases : [Cases -> CaseStatuses], hasWs : BOOLEAN, hasCases : BOOLEAN]
Handlers == [pc : {"idle", "loaded", "applying"}, base : Rows, seq : Nat]

\* The type of every variable, and of decisions: none, be it in the row, in an
\* event or to be made by a handler, is for a later version than the next one.
TypeOK ==
  /\ row \in Rows /\ row.seq <= Len(log) /\ row.ws.last.gate <= row.version
  /\ log \in Seq(Patches)
  /\ \A s \in DOMAIN log : log[s].workspace.last.gate <= row.version + 1
  /\ editor \in [Editors -> Handlers]
  /\ \A e \in Editors :
       /\ editor[e].base.version <= row.version
       /\ editor[e].pc = "applying" => editor[e].seq \in DOMAIN log
  /\ faults \in 0..MaxFaults

\* The verdict that the evaluation state shows is the one that the gate computes
\* from the evidence shown with it, as the exported pack does: a recorded
\* decision is never taken for that of other evidence, however edits,
\* refinements and projections interleave.
DecisionIsCurrent == CurrentDecision(row) = Verdict(Evidence(row.cases, row.ws))

Cited(ws) == \A claim \in ws.claims : claim.artifact \in ws.artifacts

\* Whatever edits overtake each other, every claim of the row cites evidence
\* that the row has.
ClaimsCiteAttachedEvidence == Cited(row.ws)

OneOutcomeEach(ws) ==
  \A t, u \in ws.trials :
    t.case = u.case /\ t.binding = u.binding /\ t.rep = u.rep => t = u

\* No repetition is counted with two outcomes: one of two trials that took the
\* same number is gone from the row with the workspace it came in.
RepetitionsDistinct == OneOutcomeEach(row.ws)

=============================================================================
