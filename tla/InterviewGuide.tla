--------------------------- MODULE InterviewGuide ---------------------------
(***************************************************************************)
(* InterviewerAgent._normalize_action of agents/interviewer/main.py: how   *)
(* one answer of a respondent, with what the language model says about it, *)
(* moves the interview along the study's discussion guide.                 *)
(*                                                                         *)
(* A guide is a sequence of items.  Coverage is counted in halves: 0, 1    *)
(* (a follow-up was asked) and Full; an item the code has no entry for is  *)
(* one with coverage 0 and no follow-ups.  Wording is left out.            *)
(***************************************************************************)
EXTENDS Naturals, Sequences, Functions

CONSTANTS
  Items,    \* outline items
  NoItem,   \* a turn or a memory that names no item
  Limit     \* max_followups of each item

ASSUME ItemAssumption  == NoItem \notin Items
ASSUME LimitAssumption == Limit \in [Items -> Nat]

Full == 2

Places == [current : Items \cup {NoItem}, coverage : [Items -> 0..Full], followups : [Items -> Nat]]
Start  == [current |-> NoItem, coverage |-> [i \in Items |-> 0], followups |-> [i \in Items |-> 0]]

\* What the model's action comes to: whether it wants to end the interview, and
\* the item it names, if it is one of the guide.
Actions == [wrap : BOOLEAN, item : Items \cup {NoItem}]

Uncovered(guide, coverage, k) == {n \in DOMAIN guide : n > k /\ coverage[guide[n]] < Full}

\* The index of the next item after k that is not fully covered, 0 if there is none.
NextAfter(guide, coverage, k) ==
  LET open == Uncovered(guide, coverage, k)
  IN  IF open = {} THEN 0 ELSE CHOOSE n \in open : \A m \in open : n <= m

\* Only an action that wants to end the interview looks at earlier items too.
NextUncovered(guide, coverage, k, wrap) ==
  IF wrap /\ Uncovered(guide, coverage, k) = {}
    THEN NextAfter(guide, coverage, 0)
    ELSE NextAfter(guide, coverage, k)

\* Where the interview is: at the stored item, or at the first one if the
\* guide does not have it.
CurrentIndex(guide, place) ==
  IF place.current \in Range(guide) THEN CHOOSE n \in DOMAIN guide : guide[n] = place.current ELSE 1

Cover(coverage, i) == [coverage EXCEPT ![i] = Full]

\* Mutant of EndsItem: one follow-up too many.
EndsItemLate(place, i, action) ==
  \/ action.wrap
  \/ action.item # NoItem /\ action.item # i
  \/ place.followups[i] > Limit[i]

\* The answer ends the work on the current item: the model wants to finish or
\* names another item, or the follow-ups are used up.
EndsItem(place, i, action) ==
  \/ action.wrap
  \/ action.item # NoItem /\ action.item # i
  \/ place.followups[i] >= Limit[i]

WrapUp(item, place)  == [kind |-> "wrap_up", item |-> item, place |-> place]
MoveTo(item, place)  == [kind |-> "acknowledge_and_move", item |-> item, place |-> [place EXCEPT !.current = item]]

\* Mutant of Advance: the model is trusted when it wants to finish.
AdvanceTrustingWrapUp(guide, place, k, action) ==
  LET covered == Cover(place.coverage, guide[k])
      next    == NextUncovered(guide, covered, k, action.wrap)
      left    == [place EXCEPT !.current = guide[k], !.coverage = covered]
  IN  IF next = 0 \/ action.wrap
        THEN WrapUp(IF action.wrap THEN action.item ELSE NoItem, left)
        ELSE MoveTo(guide[next], left)

\* Fully cover the item at k and go on to the next one, or wrap up.
Advance(guide, place, k, action) ==
  LET covered == Cover(place.coverage, guide[k])
      next    == NextUncovered(guide, covered, k, action.wrap)
      left    == [place EXCEPT !.current = guide[k], !.coverage = covered]
  IN  IF next = 0
        THEN WrapUp(IF action.wrap THEN action.item ELSE NoItem, left)
        ELSE MoveTo(guide[next], left)

\* Stay with the item i for one more follow-up.
Probe(place, i) ==
  [kind  |-> "probe",
   item  |-> i,
   place |-> [current   |-> i,
              coverage  |-> [place.coverage EXCEPT ![i] = IF @ = Full THEN Full ELSE 1],
              followups |-> [place.followups EXCEPT ![i] = @ + 1]]]

\* The interviewer's turn: its kind, the item it refers to and the new place.
\* An item that the guide does not have is ignored.
Turn(guide, place, said, stop) ==
  IF guide = <<>> THEN
    [kind  |-> IF said.wrap THEN "wrap_up" ELSE "ask",
     item  |-> said.item,
     place |-> [place EXCEPT !.current = NoItem]]
  ELSE
    LET k      == CurrentIndex(guide, place)
        action == IF said.wrap \/ said.item \in Range(guide) THEN said ELSE [said EXCEPT !.item = NoItem]
    IN  IF stop THEN WrapUp(NoItem, [place EXCEPT !.current = guide[k]])
        ELSE IF EndsItem(place, guide[k], action) THEN Advance(guide, place, k, action)
        ELSE Probe(place, guide[k])
=============================================================================
