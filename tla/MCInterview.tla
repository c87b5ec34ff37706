----------------------------- MODULE MCInterview -----------------------------
(***************************************************************************)
(* Small instances of InterviewSession for TLC.                            *)
(***************************************************************************)
EXTENDS InterviewSession

CONSTANTS i1, i2, i3

OneProbe == [i \in Items |-> IF i = i1 THEN 1 ELSE 0]
NoProbe == [i \in Items |-> 0]
OneGuide == {<<i1, i2>>}
GrowingGuides == {<<i1>>, <<i1, i2>>}
RefinedGuides == {<<i1, i2>>, <<i1, i3, i2>>}

\* Tabs are interchangeable, and the properties are invariants.
TabSymmetry == Permutations(Clients)
=============================================================================
