------------------------- MODULE AtMostOnceCounters -------------------------
(***************************************************************************)
(* What the progress snapshot of a campaign promises: an append-only set   *)
(* of numbered facts, and counters behind a cursor that only moves forward *)
(* and adds one for the fact it moves to.  A fact may be passed over, it   *)
(* is never counted twice.  CampaignPipeline implements it.                *)
(***************************************************************************)
EXTENDS Naturals

CONSTANTS
  Kinds,    \* the kinds of fact, each with a counter
  Numbers   \* the numbers a fact can have

VARIABLES
  facts,    \* number -> kind of the fact recorded under it
  count,    \* kind -> its counter
  cursor    \* the number of the last fact counted

Init ==
  /\ facts = [n \in {} |-> ""]
  /\ count = [k \in Kinds |-> 0]
  /\ cursor = 0

Record(n, k) ==
  /\ n \notin DOMAIN facts
  /\ facts' = [m \in DOMAIN facts \cup {n} |-> IF m = n THEN k ELSE facts[m]]
  /\ UNCHANGED <<count, cursor>>

Count(n) ==
  /\ n > cursor
  /\ cursor' = n
  /\ count' = [count EXCEPT ![facts[n]] = @ + 1]
  /\ UNCHANGED facts

Next ==
  \/ \E n \in Numbers, k \in Kinds : Record(n, k)
  \/ \E n \in DOMAIN facts : Count(n)

Spec == Init /\ [][Next]_<<facts, count, cursor>>
=============================================================================
