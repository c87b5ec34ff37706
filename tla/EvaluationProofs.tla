-------------------------- MODULE EvaluationProofs --------------------------
(***************************************************************************)
(* Proofs about EvaluationWorkspace, for any number of reviewers, cases,   *)
(* artifacts and events, and whatever the gate computes.                   *)
(*                                                                         *)
(* Each edit is a Persist of some workspace made from the one that the     *)
(* handler has loaded (EditIsPersist).  A decision made for version n is   *)
(* made from the cases that the row had at version n - 1, and the row      *)
(* keeps them until it gets to version n: either by applying that very     *)
(* event, or by another one, after which the decision is not the current   *)
(* one any more (DecisionsFit).                                            *)
(***************************************************************************)
EXTENDS EvaluationWorkspace, TLAPS

\* A recorded decision is that of the evidence of its version; one that may
\* become current, in an event, is that of the evidence the event leads to.
DecisionsFit ==
  /\ row.ws.last.gate = row.version => row.ws.last.verdict = Verdict(Evidence(row.cases, row.ws))
  /\ \A e \in Editors :
       editor[e].pc = "loaded" /\ editor[e].base.version = row.version =>
         editor[e].base.cases = row.cases
  /\ \A s \in DOMAIN log :
       log[s].hasWs /\ log[s].workspace.last.gate = row.version + 1 =>
         log[s].workspace.last.verdict =
           Verdict(Evidence(IF log[s].hasCases THEN log[s].cases ELSE row.cases, log[s].workspace))

\* Every workspace, wherever it is, cites what it has and has one outcome for
\* each repetition.
Sound(ws) == Cited(ws) /\ OneOutcomeEach(ws)

SoundEverywhere ==
  /\ Sound(row.ws)
  /\ \A s \in DOMAIN log : Sound(log[s].workspace)
  /\ \A e \in Editors : Sound(editor[e].base.ws)

IInv == TypeOK /\ DecisionsFit /\ SoundEverywhere

-----------------------------------------------------------------------------
LEMMA EmptyIsSound ==
  EmptyWorkspace \in Workspaces /\ Sound(EmptyWorkspace) /\ NewRow \in Rows /\ Hypotheses \in [Cases -> CaseStatuses]
<1>1. EmptyWorkspace \in Workspaces
  BY DEF EmptyWorkspace, Workspaces, NoDecision, Decisions
<1>2. Sound(EmptyWorkspace)
  BY DEF EmptyWorkspace, Sound, Cited, OneOutcomeEach
<1>3. Hypotheses \in [Cases -> CaseStatuses]
  BY DEF Hypotheses, CaseStatuses
<1>4. QED
  BY <1>1, <1>2, <1>3 DEF NewRow, Rows

\* A patch brings the row to its next version, with the workspace and the
\* cases of the patch if it has any.
LEMMA PatchedRow ==
  ASSUME NEW r \in Rows, NEW s \in Nat, NEW p \in Patches
  PROVE  /\ Patched(r, s, p) \in Rows
         /\ Patched(r, s, p).version = r.version + 1
         /\ Patched(r, s, p).seq = s
         /\ Patched(r, s, p).ws = IF p.hasWs THEN p.workspace ELSE r.ws
         /\ Patched(r, s, p).cases = IF p.hasCases THEN p.cases ELSE r.cases
  BY DEF Patched, Rows, Patches

\* What changes its `last` field only is the same evidence, and as sound.
LEMMA DecisionAside ==
  ASSUME NEW ws \in Workspaces, NEW d \in Decisions
  PROVE  LET w == [ws EXCEPT !.last = d]
         IN  /\ w \in Workspaces /\ w.last = d
             /\ Sound(ws) => Sound(w)
             /\ \A cases : Evidence(cases, w) = Evidence(cases, ws)
  BY DEF Workspaces, Sound, Cited, OneOutcomeEach, Evidence

LEMMA VerdictType == ASSUME NEW x PROVE Verdict(x) \in {"ship", "hold"}
  BY DEF Verdict

\* Every edit persists a well-typed workspace that is as sound as the one
\* it was made from, and cases of its own or those that were loaded.
LEMMA EditIsPersist ==
  ASSUME TypeOK, NEW e \in Editors, Edit(e)
  PROVE  \E ws \in Workspaces, cases \in [Cases -> CaseStatuses], hasCases \in BOOLEAN :
           /\ Persist(e, ws, cases, hasCases)
           /\ ~hasCases => cases = editor[e].base.cases
           /\ Sound(editor[e].base.ws) => Sound(ws)
           /\ editor[e].pc = "loaded"
<1> DEFINE base == editor[e].base
           Goal == \E ws \in Workspaces, cases \in [Cases -> CaseStatuses], hasCases \in BOOLEAN :
                     /\ Persist(e, ws, cases, hasCases)
                     /\ ~hasCases => cases = base.cases
                     /\ Sound(base.ws) => Sound(ws)
                     /\ editor[e].pc = "loaded"
<1>0. base.ws \in Workspaces /\ base.cases \in [Cases -> CaseStatuses]
  BY DEF TypeOK, Handlers, Rows
<1>1. ASSUME AttachEvidence(e) PROVE Goal
  <2>1. PICK a \in Artifacts :
          Persist(e, [base.ws EXCEPT !.artifacts = @ \cup {a}], base.cases, FALSE)
    BY <1>1 DEF AttachEvidence
  <2> DEFINE ws == [base.ws EXCEPT !.artifacts = @ \cup {a}]
  <2>2. ws \in Workspaces /\ (Sound(base.ws) => Sound(ws))
    BY <1>0 DEF Workspaces, Sound, Cited, OneOutcomeEach
  <2>3. QED
    BY <1>0, <1>1, <2>1, <2>2 DEF AttachEvidence
<1>2. ASSUME ReviewEvidence(e) PROVE Goal
  <2>1. PICK a \in base.ws.artifacts, c \in DOMAIN base.cases, accepted \in BOOLEAN :
        \E to \in {base.cases[c]} \cup (IF accepted THEN {"evidence_backed", "regression"} ELSE {}) :
          Persist(e, [base.ws EXCEPT !.claims = @ \cup {[case |-> c, artifact |-> a, accepted |-> accepted]}],
                     [base.cases EXCEPT ![c] = to], TRUE)
    BY <1>2 DEF ReviewEvidence
  <2>2. PICK to \in CaseStatuses :
          Persist(e, [base.ws EXCEPT !.claims = @ \cup {[case |-> c, artifact |-> a, accepted |-> accepted]}],
                     [base.cases EXCEPT ![c] = to], TRUE)
    BY <1>0, <2>1 DEF CaseStatuses
  <2> DEFINE claim == [case |-> c, artifact |-> a, accepted |-> accepted]
             ws    == [base.ws EXCEPT !.claims = @ \cup {claim}]
             cases == [base.cases EXCEPT ![c] = to]
  <2>3. claim \in Claims
    BY <1>0 DEF Claims, Workspaces
  <2>4. ws \in Workspaces /\ (Sound(base.ws) => Sound(ws))
    BY <1>0, <2>3 DEF Workspaces, Sound, Cited, OneOutcomeEach
  <2>5. cases \in [Cases -> CaseStatuses]
    BY <1>0
  <2>6. QED
    BY <1>2, <2>2, <2>4, <2>5 DEF ReviewEvidence
<1>3. ASSUME BindVersions(e) PROVE Goal
  <2>1. PICK b \in Bindings : Persist(e, [base.ws EXCEPT !.binding = b], base.cases, FALSE)
    BY <1>3 DEF BindVersions
  <2> DEFINE ws == [base.ws EXCEPT !.binding = b]
  <2>2. ws \in Workspaces /\ (Sound(base.ws) => Sound(ws))
    BY <1>0 DEF Workspaces, Sound, Cited, OneOutcomeEach
  <2>3. QED
    BY <1>0, <1>3, <2>1, <2>2 DEF BindVersions
<1>4. ASSUME RecordTrial(e) PROVE Goal
  <2>1. PICK c \in Runnable(base.cases), score \in Scores, critical \in BOOLEAN, rep \in 1..MaxRep :
          /\ rep \notin Existing(base.ws, c)
          /\ Persist(e, [base.ws EXCEPT !.trials = @ \cup
                          {[case |-> c, rep |-> rep, binding |-> base.ws.binding,
                            score |-> score, critical |-> critical]}],
                        base.cases, FALSE)
    BY <1>4 DEF RecordTrial
  <2> DEFINE trial == [case |-> c, rep |-> rep, binding |-> base.ws.binding,
                       score |-> score, critical |-> critical]
             ws    == [base.ws EXCEPT !.trials = @ \cup {trial}]
  <2>2. trial \in Trials
    <3>1. rep \in Nat
      BY WorkspaceAssumption
    <3>2. c \in Cases
      BY <1>0 DEF Runnable
    <3>3. base.ws.binding \in Bindings
      BY <1>0, <1>4 DEF RecordTrial, Workspaces
    <3>4. QED
      BY <3>1, <3>2, <3>3 DEF Trials
  <2>3. ws \in Workspaces
    BY <1>0, <2>2 DEF Workspaces
  <2>4. ASSUME Sound(base.ws) PROVE Sound(ws)
    <3>1. ws.claims = base.ws.claims /\ ws.artifacts = base.ws.artifacts /\ ws.trials = base.ws.trials \cup {trial}
      BY <1>0 DEF Workspaces
    <3>2. Cited(ws)
      BY <2>4, <3>1 DEF Sound, Cited
    <3>3. ASSUME NEW t \in base.ws.trials, t.case = c, t.binding = base.ws.binding PROVE t.rep # rep
      BY <2>1, <3>3 DEF Existing
    <3>4. trial.case = c /\ trial.binding = base.ws.binding /\ trial.rep = rep
      OBVIOUS
    <3>5. OneOutcomeEach(base.ws)
      BY <2>4 DEF Sound
    <3> HIDE DEF ws, trial
    <3>6. OneOutcomeEach(ws)
      BY <3>1, <3>3, <3>4, <3>5 DEF OneOutcomeEach
    <3>7. QED
      BY <3>2, <3>6 DEF Sound
  <2>5. QED
    BY <1>0, <1>4, <2>1, <2>3, <2>4 DEF RecordTrial
<1>5. ASSUME RecordCalibration(e) PROVE Goal
  <2>1. PICK batch \in Batches :
          Persist(e, [base.ws EXCEPT !.calibrations = Append(@, batch)], base.cases, FALSE)
    BY <1>5 DEF RecordCalibration
  <2> DEFINE ws == [base.ws EXCEPT !.calibrations = Append(@, batch)]
  <2>2. Append(base.ws.calibrations, batch) \in Seq(Batches)
    BY <1>0 DEF Workspaces
  <2>3. ws \in Workspaces /\ (Sound(base.ws) => Sound(ws))
    BY <1>0, <2>2 DEF Workspaces, Sound, Cited, OneOutcomeEach
  <2>4. QED
    BY <1>0, <1>5, <2>1, <2>3 DEF RecordCalibration
<1>6. ASSUME RecomputeDecision(e) PROVE Goal
  BY <1>0, <1>6 DEF RecomputeDecision
<1>7. QED
  BY <1>1, <1>2, <1>3, <1>4, <1>5, <1>6 DEF Edit

\* What an edit appends: a workspace with the decision for the version after
\* the loaded one, made from the cases that the patch leads to.
Appends(e, p) ==
  /\ log' = Append(log, p)
  /\ editor' = [editor EXCEPT ![e] = Applying(Len(log) + 1)]
  /\ UNCHANGED <<row, faults>>
  /\ p \in Patches /\ p.hasWs
  /\ p.workspace.last.gate = editor[e].base.version + 1
  /\ p.workspace.last.verdict =
       Verdict(Evidence(IF p.hasCases THEN p.cases ELSE editor[e].base.cases, p.workspace))
  /\ Sound(editor[e].base.ws) => Sound(p.workspace)

LEMMA EditAppends ==
  ASSUME TypeOK, NEW e \in Editors, Edit(e)
  PROVE  editor[e].pc = "loaded" /\ \E p \in Patches : Appends(e, p)
<1> DEFINE base == editor[e].base
<1>1. PICK ws \in Workspaces, cases \in [Cases -> CaseStatuses], hasCases \in BOOLEAN :
        /\ Persist(e, ws, cases, hasCases)
        /\ ~hasCases => cases = base.cases
        /\ Sound(base.ws) => Sound(ws)
        /\ editor[e].pc = "loaded"
  BY EditIsPersist
<1>2. base.version \in Nat
  BY DEF TypeOK, Handlers, Rows
<1> DEFINE d == [verdict |-> Verdict(Evidence(IF hasCases THEN cases ELSE base.cases, ws)),
                 gate    |-> base.version + 1]
           w == [ws EXCEPT !.last = d]
           p == Patch(w, cases, TRUE, hasCases)
<1>3. d \in Decisions
  BY <1>2, VerdictType DEF Decisions
<1>4. w \in Workspaces /\ w.last = d /\ (Sound(ws) => Sound(w)) /\ \A x : Evidence(x, w) = Evidence(x, ws)
  BY <1>3, DecisionAside
<1>5. /\ log' = Append(log, p)
      /\ editor' = [editor EXCEPT ![e] = Applying(Len(log) + 1)]
      /\ UNCHANGED <<row, faults>>
  BY <1>1 DEF Persist
<1> HIDE DEF w
<1>6. p \in Patches /\ p.hasWs /\ p.workspace = w /\ p.cases = cases /\ p.hasCases = hasCases
  BY <1>4 DEF Patch, Patches
<1>7. /\ w.last.gate = base.version + 1
      /\ w.last.verdict = Verdict(Evidence(IF hasCases THEN cases ELSE base.cases, w))
  BY <1>4
<1> HIDE DEF p
<1>8. Appends(e, p)
  BY <1>1, <1>4, <1>5, <1>6, <1>7 DEF Appends
<1>9. QED
  BY <1>1, <1>6, <1>8

\* What Revise appends.
LEMMA RevisionType ==
  ASSUME Revise
  PROVE  \E p \in Patches : log' = Append(log, p) /\ ~p.hasWs /\ p.workspace = EmptyWorkspace
<1>1. PICK p \in {Text} \cup {Patch(EmptyWorkspace, draft, FALSE, TRUE) : draft \in Drafts} :
        log' = Append(log, p)
  BY DEF Revise
<1>2. p = Text => p \in Patches /\ ~p.hasWs /\ p.workspace = EmptyWorkspace
  BY EmptyIsSound DEF Text, Patch, Patches
<1>3. ASSUME NEW draft \in Drafts, p = Patch(EmptyWorkspace, draft, FALSE, TRUE)
      PROVE  p \in Patches /\ ~p.hasWs /\ p.workspace = EmptyWorkspace
  BY <1>3, EmptyIsSound, DraftAssumption DEF Patch, Patches
<1>4. p \in Patches /\ ~p.hasWs /\ p.workspace = EmptyWorkspace
  BY <1>1, <1>2, <1>3
<1>5. QED
  BY <1>1, <1>4

\* The log after one more patch.
LEMMA OneMorePatch ==
  ASSUME TypeOK, NEW p \in Patches, log' = Append(log, p)
  PROVE  /\ log' \in Seq(Patches) /\ Len(log') = Len(log) + 1
         /\ \A s \in DOMAIN log : s \in DOMAIN log' /\ log'[s] = log[s]
         /\ \A s \in DOMAIN log' : s \in DOMAIN log \/ (s = Len(log) + 1 /\ log'[s] = p)
         /\ Len(log) + 1 \in DOMAIN log'
  BY DEF TypeOK

LEMMA GateType ==
  ASSUME NEW p \in Patches
  PROVE  p.workspace.last.gate \in Nat
  BY DEF Patches, Workspaces, Decisions

\* A step on the row: nothing, or the next version.
LEMMA RowMoves ==
  ASSUME TypeOK, NEW s \in DOMAIN log, row' = Applied(row, s, log[s])
  PROVE  \/ row' = row
         \/ /\ row' \in Rows
            /\ row'.version = row.version + 1 /\ row'.seq = s
            /\ row'.ws = IF log[s].hasWs THEN log[s].workspace ELSE row.ws
            /\ row'.cases = IF log[s].hasCases THEN log[s].cases ELSE row.cases
<1>1. row \in Rows /\ s \in Nat /\ log[s] \in Patches
  BY DEF TypeOK
<1>2. QED
  BY <1>1, PatchedRow DEF Applied

-----------------------------------------------------------------------------
LEMMA InitIInv == Init => IInv
<1> SUFFICES ASSUME Init PROVE IInv
  OBVIOUS
<1>1. /\ row = NewRow /\ log = <<>> /\ editor = [e \in Editors |-> Idle]
  BY DEF Init
<1>2. NewRow.version = 1 /\ NewRow.seq = 0 /\ NewRow.ws = EmptyWorkspace /\ NewRow.ws.last.gate = 0
  BY DEF NewRow, EmptyWorkspace, NoDecision
<1>3. Idle \in Handlers /\ Idle.pc = "idle" /\ Idle.base = NewRow
  BY EmptyIsSound DEF Idle, Handlers
<1>4. TypeOK
  BY <1>1, <1>2, <1>3, EmptyIsSound, WorkspaceAssumption DEF TypeOK, Init
<1>5. DecisionsFit
  BY <1>1, <1>2, <1>3 DEF DecisionsFit
<1>6. SoundEverywhere
  BY <1>1, <1>2, <1>3, EmptyIsSound DEF SoundEverywhere
<1>7. QED
  BY <1>4, <1>5, <1>6 DEF IInv

\* The step lemmas go through the same cases: an editor loads or stops, an
\* event is appended, the row moves.
LEMMA TypeStep == TypeOK /\ [Next]_vars => TypeOK'
<1> SUFFICES ASSUME TypeOK, [Next]_vars PROVE TypeOK'
  OBVIOUS
<1>0. /\ row \in Rows /\ row.version \in Nat \ {0} /\ row.seq \in Nat /\ row.ws.last.gate \in Nat
      /\ log \in Seq(Patches) /\ editor \in [Editors -> Handlers]
      /\ Idle \in Handlers /\ Idle.pc = "idle" /\ Idle.base.version = 1
      /\ faults \in Nat /\ MaxFaults \in Nat
  BY EmptyIsSound, WorkspaceAssumption DEF TypeOK, Rows, Workspaces, Decisions, Idle, Handlers, NewRow
<1>1. ASSUME NEW e \in Editors, Load(e) PROVE TypeOK'
  <2>1. [editor[e] EXCEPT !.pc = "loaded", !.base = row] \in Handlers
    BY <1>0 DEF Handlers
  <2>2. QED
    BY <1>0, <1>1, <2>1 DEF TypeOK, Load, Handlers
<1>2. ASSUME NEW e \in Editors, Edit(e) PROVE TypeOK'
  <2>1. PICK p \in Patches : Appends(e, p)
    BY <1>2, EditAppends
  <2>2. editor[e].base.version \in Nat
    BY <1>0 DEF Handlers, Rows
  <2>3. p.workspace.last.gate <= row.version + 1
    BY <1>0, <2>1, <2>2 DEF TypeOK, Appends
  <2>4. /\ log' \in Seq(Patches) /\ Len(log') = Len(log) + 1 /\ Len(log) \in Nat
        /\ \A s \in DOMAIN log : s \in DOMAIN log' /\ log'[s] = log[s]
        /\ \A s \in DOMAIN log' : s \in DOMAIN log \/ (s = Len(log) + 1 /\ log'[s] = p)
        /\ Len(log) + 1 \in DOMAIN log'
    BY <1>0, <2>1, OneMorePatch DEF Appends
  <2> DEFINE h == Applying(Len(log) + 1)
  <2>5. h \in Handlers /\ h.base.version = 1 /\ h.seq = Len(log) + 1
    BY <2>4, EmptyIsSound DEF Handlers, Applying, NewRow
  <2>6. editor' = [editor EXCEPT ![e] = h] /\ row' = row /\ faults' = faults
    BY <2>1 DEF Appends
  <2> HIDE DEF h
  <2>7. row' \in Rows /\ row'.seq <= Len(log') /\ row'.ws.last.gate <= row'.version
    BY <1>0, <2>4, <2>6 DEF TypeOK
  <2>8. \A s \in DOMAIN log' : log'[s].workspace.last.gate <= row'.version + 1
    BY <2>3, <2>4, <2>6 DEF TypeOK
  <2>9. editor' \in [Editors -> Handlers]
    BY <1>0, <2>5, <2>6
  <2>10. \A d \in Editors :
           /\ editor'[d].base.version <= row'.version
           /\ editor'[d].pc = "applying" => editor'[d].seq \in DOMAIN log'
    BY <1>0, <2>4, <2>5, <2>6 DEF TypeOK
  <2>11. QED
    BY <2>4, <2>6, <2>7, <2>8, <2>9, <2>10 DEF TypeOK
<1>3. ASSUME NEW s \in DOMAIN log, row' = Applied(row, s, log[s]), UNCHANGED log
      PROVE  /\ row' \in Rows /\ row'.seq <= Len(log) /\ row'.ws.last.gate <= row'.version
             /\ row'.version \in Nat /\ row.version <= row'.version
  <2>0. log[s] \in Patches /\ s <= Len(log)
    BY <1>0
  <2>1. /\ log[s].workspace.last.gate \in Nat /\ log[s].workspace.last.gate <= row.version + 1
        /\ s <= Len(log) /\ row.ws.last.gate <= row.version /\ row.seq <= Len(log)
    BY <2>0, GateType DEF TypeOK
  <2>2. CASE row' = row
    BY <1>0, <2>1, <2>2
  <2>3. CASE /\ row' \in Rows
             /\ row'.version = row.version + 1 /\ row'.seq = s
             /\ row'.ws = IF log[s].hasWs THEN log[s].workspace ELSE row.ws
    BY <1>0, <2>1, <2>3
  <2>4. QED
    BY <1>3, <2>2, <2>3, RowMoves
<1>4. ASSUME NEW s \in DOMAIN log, row' = Applied(row, s, log[s]), UNCHANGED <<log, faults>>,
             editor' = editor \/ \E e \in Editors : editor' = [editor EXCEPT ![e] = Idle]
      PROVE  TypeOK'
  <2>1. /\ row' \in Rows /\ row'.seq <= Len(log) /\ row'.ws.last.gate <= row'.version
        /\ row'.version \in Nat /\ row.version <= row'.version
    BY <1>3, <1>4
  <2>2. \A t \in DOMAIN log : log[t].workspace.last.gate \in Nat
    BY <1>0, GateType
  <2>3. \A t \in DOMAIN log' : log'[t].workspace.last.gate <= row'.version + 1
    BY <1>0, <1>4, <2>1, <2>2 DEF TypeOK
  <2>4. \A d \in Editors : editor[d].base.version \in Nat
    BY <1>0 DEF Handlers, Rows
  <2>5. /\ editor' \in [Editors -> Handlers]
        /\ \A d \in Editors :
             /\ editor'[d].base.version <= row'.version
             /\ editor'[d].pc = "applying" => editor'[d].seq \in DOMAIN log
    <3>1. \A d \in Editors : editor'[d] = editor[d] \/ editor'[d] = Idle
      BY <1>0, <1>4
    <3>2. editor' \in [Editors -> Handlers]
      BY <1>0, <1>4
    <3>3. ASSUME NEW d \in Editors
          PROVE  /\ editor'[d].base.version <= row'.version
                 /\ editor'[d].pc = "applying" => editor'[d].seq \in DOMAIN log
      <4>1. CASE editor'[d] = editor[d]
        BY <1>0, <2>1, <2>4, <4>1 DEF TypeOK
      <4>2. CASE editor'[d] = Idle
        BY <1>0, <2>1, <4>2
      <4>3. QED
        BY <3>1, <4>1, <4>2
    <3>4. QED
      BY <3>2, <3>3
  <2>6. QED
    BY <1>0, <1>4, <2>1, <2>3, <2>5 DEF TypeOK
<1>5. ASSUME NEW e \in Editors, ApplyOwn(e) PROVE TypeOK'
  <2>1. editor[e].seq \in DOMAIN log
    BY <1>5 DEF ApplyOwn, TypeOK
  <2>2. QED
    BY <1>4, <1>5, <2>1 DEF ApplyOwn
<1>6. ASSUME NEW e \in Editors, Fail(e) PROVE TypeOK'
  BY <1>0, <1>6 DEF TypeOK, Fail
<1>7. ASSUME Revise PROVE TypeOK'
  <2>1. PICK p \in Patches : log' = Append(log, p) /\ p.workspace = EmptyWorkspace
    BY <1>7, RevisionType
  <2>2. p.workspace.last.gate = 0
    BY <2>1 DEF EmptyWorkspace, NoDecision
  <2>3. /\ log' \in Seq(Patches) /\ Len(log') = Len(log) + 1 /\ Len(log) \in Nat
        /\ \A s \in DOMAIN log : s \in DOMAIN log' /\ log'[s] = log[s]
        /\ \A s \in DOMAIN log' : s \in DOMAIN log \/ (s = Len(log) + 1 /\ log'[s] = p)
    BY <1>0, <2>1, OneMorePatch
  <2>4. UNCHANGED <<row, editor, faults>>
    BY <1>7 DEF Revise
  <2>5. \A s \in DOMAIN log' : log'[s].workspace.last.gate <= row'.version + 1
    BY <1>0, <2>2, <2>3, <2>4 DEF TypeOK
  <2>6. QED
    BY <1>0, <2>3, <2>4, <2>5 DEF TypeOK
<1>8. ASSUME NEW s \in DOMAIN log, Project(s) PROVE TypeOK'
  BY <1>4, <1>8 DEF Project
<1>9. CASE UNCHANGED vars
  BY <1>9 DEF vars, TypeOK
<1>10. QED
  BY <1>1, <1>2, <1>5, <1>6, <1>7, <1>8, <1>9 DEF Next

LEMMA FitStep == TypeOK /\ DecisionsFit /\ [Next]_vars => DecisionsFit'
<1> SUFFICES ASSUME TypeOK, DecisionsFit, [Next]_vars PROVE DecisionsFit'
  OBVIOUS
<1>0. /\ row \in Rows /\ row.version \in Nat \ {0} /\ row.ws.last.gate \in Nat
      /\ log \in Seq(Patches) /\ editor \in [Editors -> Handlers]
      /\ Idle.pc = "idle"
      /\ \A e \in Editors : editor[e].base.version \in Nat
  BY DEF TypeOK, Rows, Workspaces, Decisions, Idle, Handlers
\* An editor that is idle, or has just loaded, has nothing to fit.
<1>1. ASSUME NEW e \in Editors, Load(e) PROVE DecisionsFit'
  <2>1. \A d \in Editors : editor'[d] = editor[d] \/ editor'[d].base = row
    BY <1>0, <1>1 DEF Load, Handlers
  <2>2. row' = row /\ log' = log
    BY <1>1 DEF Load
  <2>3. ASSUME NEW d \in Editors, editor'[d].pc = "loaded", editor'[d].base.version = row.version
        PROVE  editor'[d].base.cases = row.cases
    BY <2>1, <2>3 DEF DecisionsFit
  <2>4. QED
    BY <2>2, <2>3 DEF DecisionsFit
<1>2. ASSUME NEW e \in Editors, Fail(e) PROVE DecisionsFit'
  BY <1>0, <1>2 DEF DecisionsFit, Fail
\* A decision that may become current was made from the cases of the row.
<1>3. ASSUME NEW e \in Editors, Edit(e) PROVE DecisionsFit'
  <2>1. PICK p \in Patches : Appends(e, p)
    BY <1>3, EditAppends
  <2>2. editor[e].pc = "loaded"
    BY <1>3, EditAppends
  <2>3. \A s \in DOMAIN log' : (s \in DOMAIN log /\ log'[s] = log[s]) \/ log'[s] = p
    BY <2>1, OneMorePatch DEF Appends
  <2>4. row' = row
    BY <2>1 DEF Appends
  <2>5. ASSUME p.workspace.last.gate = row.version + 1
        PROVE  p.workspace.last.verdict =
                 Verdict(Evidence(IF p.hasCases THEN p.cases ELSE row.cases, p.workspace))
    <3>1. editor[e].base.version = row.version
      BY <1>0, <2>1, <2>5 DEF Appends
    <3>2. editor[e].base.cases = row.cases
      BY <2>2, <3>1 DEF DecisionsFit
    <3>3. QED
      BY <2>1, <3>2 DEF Appends
  <2>6. \A d \in Editors : editor'[d] = editor[d] \/ editor'[d].pc = "applying"
    BY <1>0, <2>1 DEF Appends, Applying
  <2>7. ASSUME NEW d \in Editors, editor'[d].pc = "loaded", editor'[d].base.version = row.version
        PROVE  editor'[d].base.cases = row.cases
    BY <2>6, <2>7 DEF DecisionsFit
  <2>8. ASSUME NEW s \in DOMAIN log', log'[s].hasWs, log'[s].workspace.last.gate = row.version + 1
        PROVE  log'[s].workspace.last.verdict =
                 Verdict(Evidence(IF log'[s].hasCases THEN log'[s].cases ELSE row.cases, log'[s].workspace))
    <3>1. CASE s \in DOMAIN log /\ log'[s] = log[s]
      BY <2>8, <3>1 DEF DecisionsFit
    <3>2. CASE log'[s] = p
      BY <2>5, <2>8, <3>2
    <3>3. QED
      BY <2>3, <3>1, <3>2
  <2>9. QED
    BY <2>4, <2>7, <2>8 DEF DecisionsFit
<1>4. ASSUME Revise PROVE DecisionsFit'
  <2>1. PICK p \in Patches : log' = Append(log, p) /\ ~p.hasWs
    BY <1>4, RevisionType
  <2>2. \A s \in DOMAIN log' : (s \in DOMAIN log /\ log'[s] = log[s]) \/ ~log'[s].hasWs
    BY <2>1, OneMorePatch
  <2>3. UNCHANGED <<row, editor>>
    BY <1>4 DEF Revise
  <2>4. QED
    BY <2>2, <2>3 DEF DecisionsFit
\* The row gets to the version of the decision with that decision, or passes it.
<1>5. ASSUME NEW s \in DOMAIN log, row' = Applied(row, s, log[s]), UNCHANGED log,
             editor' = editor \/ \E e \in Editors : editor' = [editor EXCEPT ![e] = Idle]
      PROVE  DecisionsFit'
  <2>1. \A d \in Editors : editor'[d] = editor[d] \/ editor'[d].pc = "idle"
    BY <1>0, <1>5
  <2>2. CASE row' = row
    BY <1>5, <2>1, <2>2 DEF DecisionsFit
  <2>3. CASE /\ row'.version = row.version + 1
             /\ row'.ws = IF log[s].hasWs THEN log[s].workspace ELSE row.ws
             /\ row'.cases = IF log[s].hasCases THEN log[s].cases ELSE row.cases
    <3>1. \A t \in DOMAIN log :
            log[t].workspace.last.gate \in Nat /\ log[t].workspace.last.gate <= row.version + 1
      BY <1>0, GateType DEF TypeOK
    <3>2. \A t \in DOMAIN log : log[t].workspace.last.gate # row'.version + 1
      BY <1>0, <2>3, <3>1
    <3>3. \A d \in Editors : editor[d].base.version # row'.version
      BY <1>0, <2>3 DEF TypeOK
    <3>4. ASSUME row'.ws.last.gate = row'.version
          PROVE  row'.ws.last.verdict = Verdict(Evidence(row'.cases, row'.ws))
      <4>1. log[s].hasWs
        BY <1>0, <2>3, <3>4 DEF TypeOK
      <4>2. QED
        BY <2>3, <3>4, <4>1 DEF DecisionsFit
    <3>5. QED
      BY <1>5, <2>1, <3>2, <3>3, <3>4 DEF DecisionsFit
  <2>4. QED
    BY <1>5, <2>2, <2>3, RowMoves
<1>6. ASSUME NEW e \in Editors, ApplyOwn(e) PROVE DecisionsFit'
  <2>1. editor[e].seq \in DOMAIN log
    BY <1>6 DEF ApplyOwn, TypeOK
  <2>2. QED
    BY <1>5, <1>6, <2>1 DEF ApplyOwn
<1>7. ASSUME NEW s \in DOMAIN log, Project(s) PROVE DecisionsFit'
  BY <1>5, <1>7 DEF Project
<1>8. CASE UNCHANGED vars
  BY <1>8 DEF vars, DecisionsFit
<1>9. QED
  BY <1>1, <1>2, <1>3, <1>4, <1>6, <1>7, <1>8 DEF Next

LEMMA SoundStep == TypeOK /\ SoundEverywhere /\ [Next]_vars => SoundEverywhere'
<1> SUFFICES ASSUME TypeOK, SoundEverywhere, [Next]_vars PROVE SoundEverywhere'
  OBVIOUS
<1>0. /\ log \in Seq(Patches) /\ editor \in [Editors -> Handlers]
      /\ Sound(Idle.base.ws) /\ \A n : Sound(Applying(n).base.ws)
  BY EmptyIsSound DEF TypeOK, Idle, Applying, NewRow
<1>1. ASSUME NEW e \in Editors, Load(e) PROVE SoundEverywhere'
  <2>1. \A d \in Editors : editor'[d].base = editor[d].base \/ editor'[d].base = row
    BY <1>0, <1>1 DEF Load, Handlers
  <2>2. row' = row /\ log' = log
    BY <1>1 DEF Load
  <2>3. \A d \in Editors : Sound(editor'[d].base.ws)
    BY <2>1 DEF SoundEverywhere
  <2>4. QED
    BY <2>2, <2>3 DEF SoundEverywhere
<1>2. ASSUME NEW e \in Editors, Fail(e) PROVE SoundEverywhere'
  <2>1. \A d \in Editors : editor'[d] = editor[d] \/ editor'[d] = Idle
    BY <1>0, <1>2 DEF Fail
  <2>2. \A d \in Editors : Sound(editor'[d].base.ws)
    BY <1>0, <2>1 DEF SoundEverywhere
  <2>3. QED
    BY <1>2, <2>2 DEF SoundEverywhere, Fail
<1>3. ASSUME NEW e \in Editors, Edit(e) PROVE SoundEverywhere'
  <2>1. PICK p \in Patches : Appends(e, p)
    BY <1>3, EditAppends
  <2>2. \A s \in DOMAIN log' : (s \in DOMAIN log /\ log'[s] = log[s]) \/ log'[s] = p
    BY <2>1, OneMorePatch DEF Appends
  <2>3. Sound(p.workspace)
    BY <2>1 DEF Appends, SoundEverywhere
  <2>4. \A d \in Editors : editor'[d] = editor[d] \/ editor'[d] = Applying(Len(log) + 1)
    BY <1>0, <2>1 DEF Appends
  <2>5. \A d \in Editors : Sound(editor'[d].base.ws)
    BY <1>0, <2>4 DEF SoundEverywhere
  <2>6. \A s \in DOMAIN log' : Sound(log'[s].workspace)
    BY <2>2, <2>3 DEF SoundEverywhere
  <2>7. row' = row
    BY <2>1 DEF Appends
  <2>8. QED
    BY <2>5, <2>6, <2>7 DEF SoundEverywhere
<1>4. ASSUME Revise PROVE SoundEverywhere'
  <2>1. PICK p \in Patches : log' = Append(log, p) /\ p.workspace = EmptyWorkspace
    BY <1>4, RevisionType
  <2>2. \A s \in DOMAIN log' : (s \in DOMAIN log /\ log'[s] = log[s]) \/ log'[s] = p
    BY <2>1, OneMorePatch
  <2>3. \A s \in DOMAIN log' : Sound(log'[s].workspace)
    BY <2>1, <2>2, EmptyIsSound DEF SoundEverywhere
  <2>4. UNCHANGED <<row, editor>>
    BY <1>4 DEF Revise
  <2>5. QED
    BY <2>3, <2>4 DEF SoundEverywhere
<1>5. ASSUME NEW s \in DOMAIN log, row' = Applied(row, s, log[s]), UNCHANGED log,
             editor' = editor \/ \E e \in Editors : editor' = [editor EXCEPT ![e] = Idle]
      PROVE  SoundEverywhere'
  <2>1. \A d \in Editors : editor'[d] = editor[d] \/ editor'[d] = Idle
    BY <1>0, <1>5
  <2>2. \A d \in Editors : Sound(editor'[d].base.ws)
    BY <1>0, <2>1 DEF SoundEverywhere
  <2>3. row'.ws = row.ws \/ row'.ws = log[s].workspace
    BY <1>5, RowMoves
  <2>4. Sound(row'.ws)
    BY <2>3 DEF SoundEverywhere
  <2>5. QED
    BY <1>5, <2>2, <2>4 DEF SoundEverywhere
<1>6. ASSUME NEW e \in Editors, ApplyOwn(e) PROVE SoundEverywhere'
  <2>1. editor[e].seq \in DOMAIN log
    BY <1>6 DEF ApplyOwn, TypeOK
  <2>2. QED
    BY <1>5, <1>6, <2>1 DEF ApplyOwn
<1>7. ASSUME NEW s \in DOMAIN log, Project(s) PROVE SoundEverywhere'
  BY <1>5, <1>7 DEF Project
<1>8. CASE UNCHANGED vars
  BY <1>8 DEF vars, SoundEverywhere
<1>9. QED
  BY <1>1, <1>2, <1>3, <1>4, <1>6, <1>7, <1>8 DEF Next

LEMMA Invariance == Spec => []IInv
<1>1. IInv /\ [Next]_vars => IInv'
  BY TypeStep, FitStep, SoundStep DEF IInv
<1>2. QED
  BY <1>1, InitIInv, PTL DEF Spec

-----------------------------------------------------------------------------
\* Every state is well typed, and no decision is made for a version that is
\* more than one edit ahead of the row.
THEOREM TypeCorrect == Spec => []TypeOK
<1>1. IInv => TypeOK
  BY DEF IInv
<1>2. QED
  BY <1>1, Invariance, PTL

\* The verdict that a reviewer is shown is that of the evidence shown with it,
\* for any number of reviewers whose edits overtake each other, although the
\* version is compared before the append only (_persist_evaluation_change).
THEOREM DecisionCurrent == Spec => []DecisionIsCurrent
<1>1. IInv => DecisionIsCurrent
  BY DEF IInv, DecisionsFit, DecisionIsCurrent, CurrentDecision
<1>2. QED
  BY <1>1, Invariance, PTL

\* Every claim of the row cites evidence that the row has (review_evidence).
THEOREM ClaimsAttached == Spec => []ClaimsCiteAttachedEvidence
<1>1. IInv => ClaimsCiteAttachedEvidence
  BY DEF IInv, SoundEverywhere, Sound, ClaimsCiteAttachedEvidence
<1>2. QED
  BY <1>1, Invariance, PTL

\* No repetition of a case has two outcomes in the row (record_trial).
THEOREM RepetitionsOnce == Spec => []RepetitionsDistinct
<1>1. IInv => RepetitionsDistinct
  BY DEF IInv, SoundEverywhere, Sound, RepetitionsDistinct
<1>2. QED
  BY <1>1, Invariance, PTL
=============================================================================
