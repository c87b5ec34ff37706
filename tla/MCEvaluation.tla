---------------------------- MODULE MCEvaluation ----------------------------
(***************************************************************************)
(* Small instances of EvaluationWorkspace for TLC.                         *)
(***************************************************************************)
EXTENDS EvaluationWorkspace, TLC

CONSTANTS c1, j1

CoreSlice == [c \in Cases |-> "core"]

\* One blinded pair, on which judge and expert agree.
OneBatch == {[judge |-> j1, examples |-> {[pair |-> 1, holdout |-> TRUE, agrees |-> TRUE]}]}

Redrafts == [Cases -> {"hypothesis", "regression"}]

EditorSymmetry == Permutations(Editors)
=============================================================================
