------------------------ MODULE EvaluationWorkbench ------------------------
(***************************************************************************)
(* The forms in which a reviewer works on an evaluation program: evidence, *)
(* reviews, version bindings, trials and calibrations                      *)
(* (EvaluationWorkbench.tsx).                                              *)
(*                                                                         *)
(* Every write carries the version that is shown when the button is        *)
(* pressed.  One write is under way at a time; after a failed one the      *)
(* workbench reads the state again, so that the next click starts from it. *)
(*                                                                         *)
(*   idle -> sent -> answered -> idle                                      *)
(*                       \-----> reading -> read -> idle                   *)
(***************************************************************************)
EXTENDS Naturals, Sequences, SequencesExt

CONSTANTS
  MaxVersion,   \* bound: versions of the program
  MaxTyped,     \* bound: times a form is filled in
  MaxFaults     \* bound: calls that fail or get lost

VARIABLES
  docs,     \* on the server: the program's workspace, by version
  shown,    \* the version the page shows, 0 while it shows none
  bench,    \* the component's state
  typed,    \* times a form has been filled in: each time in words of its own
  unheard,  \* what was written although its answer was lost
  faults

benchVars == <<docs, shown, bench, typed, unheard, faults>>

-----------------------------------------------------------------------------
(* A workspace, as far as the forms tell it apart: one case, its evidence, *)
(* the reviews of it, the versions that are bound, the trials of the case, *)
(* and the pairs judged.                                                   *)

NewProgram == [evidence |-> {}, claims |-> <<>>, promoted |-> FALSE, bound |-> FALSE, trials |-> <<>>, pairs |-> {}]

\* A program whose case may be run.
BoundProgram == [NewProgram EXCEPT !.evidence = {0}, !.claims = <<0>>, !.promoted = TRUE, !.bound = TRUE]

Doc     == IF shown = 0 THEN NewProgram ELSE docs[shown]
Version == Len(docs)

Forms == {"evidence", "review", "bindings", "trial", "calibration"}

Empty == [f \in Forms |-> 0]

\* What is under way, the words it carries, the version it expects, and what
\* the answer is.
Resting == [st |-> "idle", form |-> "none", what |-> 0, cites |-> {}, expects |-> 0, answer |-> "none", version |-> 0]

NewBench == [form |-> Empty, cites |-> {}, write |-> Resting]

Busy == bench.write.st # "idle"

\* Mutant of ShownAfter: whatever comes last is shown.
ShownAfterLast(v) == v

\* newestEvaluationState
ShownAfter(v) == IF shown > v THEN shown ELSE v

BenchInit == bench = NewBench /\ typed = 0 /\ unheard = {} /\ faults = 0

-----------------------------------------------------------------------------
(* The server, as evaluations.py answers.  Evidence that is attached       *)
(* already is not attached again, a judge's pairs are recorded once, and a *)
(* trial takes the next free repetition.                                   *)

Accepts(w) ==
  /\ w.expects = Version
  /\ w.form = "review" => w.cites \subseteq docs[Version].evidence
  /\ w.form = "trial" => docs[Version].bound /\ docs[Version].promoted
  /\ w.form = "calibration" => w.what \notin docs[Version].pairs

Written(w) ==
  LET ws == docs[Version]
  IN CASE w.form = "evidence"    -> [ws EXCEPT !.evidence = @ \cup {w.what}]
       [] w.form = "review"      -> [ws EXCEPT !.claims = Append(@, w.what), !.promoted = TRUE]
       [] w.form = "rejection"   -> [ws EXCEPT !.claims = Append(@, w.what)]
       [] w.form = "bindings"    -> [ws EXCEPT !.bound = TRUE]
       [] w.form = "trial"       -> [ws EXCEPT !.trials = Append(@, w.what)]
       [] w.form = "calibration" -> [ws EXCEPT !.pairs = @ \cup {w.what}]
       [] w.form = "decision"    -> ws

Repeated(w) == w.form = "evidence" /\ w.what \in docs[Version].evidence

\* Another reviewer.
Meanwhile ==
  /\ Version < MaxVersion
  /\ docs' = Append(docs, docs[Version])
  /\ UNCHANGED <<shown, bench, typed, unheard, faults>>

-----------------------------------------------------------------------------
(* The forms.                                                              *)

\* The reviewer fills in what is missing of a form.
Fill(f) ==
  /\ shown # 0 /\ bench.form[f] = 0 /\ typed < MaxTyped
  /\ typed' = typed + 1
  /\ bench' = [bench EXCEPT !.form[f] = typed + 1]
  /\ UNCHANGED <<docs, shown, unheard, faults>>

\* A piece of evidence is checked or unchecked for the review.
Cite(a) ==
  /\ shown # 0 /\ a \in Doc.evidence
  /\ bench' = [bench EXCEPT !.cites = IF a \in @ THEN @ \ {a} ELSE @ \cup {a}]
  /\ UNCHANGED <<docs, shown, typed, unheard, faults>>

\* Title, source system and content; artifacts, a case and an assertion; the
\* four names and versions; a case that may be run, both outputs and a source;
\* the judge and the lines.
EvidenceOn    == bench.form["evidence"] # 0
ReviewOn      == bench.cites # {} /\ bench.form["review"] # 0
BindingsOn    == bench.form["bindings"] # 0
TrialOn       == Doc.promoted /\ bench.form["trial"] # 0
CalibrationOn == bench.form["calibration"] # 0

\* mutate(): nothing happens while a write is under way.
Submit(form, what) ==
  /\ shown # 0 /\ ~Busy
  /\ shown = Version => Version < MaxVersion   \* bound
  /\ bench' = [bench EXCEPT !.write =
       [Resting EXCEPT !.st = "sent", !.form = form, !.what = what, !.cites = bench.cites, !.expects = shown]]
  /\ UNCHANGED <<docs, shown, typed, unheard, faults>>

AttachEvidence    == EvidenceOn /\ Submit("evidence", bench.form["evidence"])
AcceptEvidence    == ReviewOn /\ Submit("review", bench.form["review"])
RejectEvidence    == ReviewOn /\ Submit("rejection", bench.form["review"])
BindVersions      == BindingsOn /\ Submit("bindings", bench.form["bindings"])
RecordTrial       == TrialOn /\ Submit("trial", bench.form["trial"])
RecordCalibration == CalibrationOn /\ Submit("calibration", bench.form["calibration"])
Recompute         == Submit("decision", 0)

-----------------------------------------------------------------------------
(* A write and its answer.                                                 *)

\* The server answers, or the call gets lost before it comes there.
ServeWrite ==
  LET w == bench.write IN
  /\ w.st = "sent"
  /\ \/ /\ Accepts(w) /\ ~Repeated(w)
        /\ docs' = Append(docs, Written(w))
        /\ bench' = [bench EXCEPT !.write.st = "answered", !.write.answer = "ok", !.write.version = Version + 1]
        /\ UNCHANGED faults
     \/ /\ Accepts(w) /\ Repeated(w)
        /\ bench' = [bench EXCEPT !.write.st = "answered", !.write.answer = "ok", !.write.version = Version]
        /\ UNCHANGED <<docs, faults>>
     \/ /\ ~Accepts(w)
        /\ bench' = [bench EXCEPT !.write.st = "answered", !.write.answer = "refused"]
        /\ UNCHANGED <<docs, faults>>
     \/ /\ faults < MaxFaults /\ faults' = faults + 1
        /\ bench' = [bench EXCEPT !.write.st = "reading"]
        /\ UNCHANGED docs
  /\ UNCHANGED <<shown, typed, unheard>>

\* Mutant of Cleared: the outputs of a trial stay in the form.
ClearedButTrial(form) == [bench.form EXCEPT !["evidence"] = IF form = "evidence" THEN 0 ELSE @]

\* A form that has been written is emptied; a review and the bindings stay.
Cleared(form) ==
  [f \in Forms |-> IF f = form /\ f \in {"evidence", "trial", "calibration"} THEN 0 ELSE bench.form[f]]

\* The answer is shown and the form emptied, the evidence checked for the
\* review; or it is a failure, or lost on its way.
WriteAnswered ==
  LET w == bench.write IN
  /\ w.st = "answered"
  /\ \/ /\ w.answer = "ok"
        /\ shown' = ShownAfter(w.version)
        /\ bench' = [bench EXCEPT !.write = Resting, !.form = Cleared(w.form),
                                  !.cites = IF w.form = "evidence" THEN @ \cup {w.what} ELSE @]
        /\ UNCHANGED <<unheard, faults>>
     \/ /\ w.answer = "refused"
        /\ bench' = [bench EXCEPT !.write.st = "reading"]
        /\ UNCHANGED <<shown, unheard, faults>>
     \/ /\ w.answer = "ok" /\ faults < MaxFaults /\ faults' = faults + 1
        /\ bench' = [bench EXCEPT !.write.st = "reading"]
        /\ unheard' = unheard \cup {w.what}
        /\ UNCHANGED shown
  /\ UNCHANGED <<docs, typed>>

\* After a failure the state is read again, if it can be.
ServeReread ==
  /\ bench.write.st = "reading"
  /\ bench' = [bench EXCEPT !.write.st = "read", !.write.version = Version]
  /\ UNCHANGED <<docs, shown, typed, unheard, faults>>

\* Mutant of RereadAnswered: a failure that the second read meets ends nothing.
RereadAnsweredOnce ==
  /\ bench.write.st = "read"
  /\ \/ shown' = ShownAfter(bench.write.version) /\ bench' = [bench EXCEPT !.write = Resting] /\ UNCHANGED faults
     \/ faults < MaxFaults /\ faults' = faults + 1 /\ bench' = [bench EXCEPT !.write.st = "failed"] /\ UNCHANGED shown
  /\ UNCHANGED <<docs, typed, unheard>>

RereadAnswered ==
  /\ bench.write.st = "read"
  /\ bench' = [bench EXCEPT !.write = Resting]
  /\ \/ shown' = ShownAfter(bench.write.version) /\ UNCHANGED faults
     \/ faults < MaxFaults /\ faults' = faults + 1 /\ UNCHANGED shown
  /\ UNCHANGED <<docs, typed, unheard>>

-----------------------------------------------------------------------------
Press ==
  \/ AttachEvidence \/ AcceptEvidence \/ RejectEvidence \/ BindVersions
  \/ RecordTrial \/ RecordCalibration \/ Recompute

WriteGoesOn == ServeWrite \/ WriteAnswered \/ ServeReread \/ RereadAnswered

WorkbenchStep ==
  \/ \E f \in Forms : Fill(f)
  \/ \E a \in 0 .. MaxTyped : Cite(a)
  \/ Press \/ WriteGoesOn
=============================================================================
