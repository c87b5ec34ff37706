-------------------------- MODULE InterviewProofs --------------------------
(***************************************************************************)
(* Proofs about InterviewSession, for any number of tabs, any replies and  *)
(* upsets, and whatever the language model says.                           *)
(*                                                                         *)
(* Two things are carried through the steps of a handler.  The turns that  *)
(* a memory counts are in the log, or are about to be appended by the      *)
(* handler that will write it (TurnsInv).  And the items that a memory     *)
(* takes for covered, with all those up to the current one, have been      *)
(* asked about in the log, or will have been when the memory is written    *)
(* (PlacesInv); this is why an interview that ends has covered its guide   *)
(* although tabs overwrite each other's memory and hydration forgets it.   *)
(* For one tab, the turn that comes next is numbered from a memory that    *)
(* counts all recorded turns, or all but one (OrderInv), and the replies   *)
(* recorded, with the room that the guide still leaves from the place in   *)
(* the memory, never exceed what is allowed (BoundInv).                    *)
(***************************************************************************)
EXTENDS InterviewSession, FiniteSetTheorems, SequenceTheorems, WellFoundedInduction, TLAPS

\* A study's guide changes at its end only.
GuidesGrow == \A g, h \in Guides : \A n \in DOMAIN g \cap DOMAIN h : g[n] = h[n]

\* The items that the greeting may have asked.
Firsts == {g[1] : g \in {h \in Guides : h # <<>>}}

\* The items asked in a sequence of events, and those heard once the handler
\* has appended what it still has to append.
AskedIn(events) ==
  {i \in Items : \E n \in DOMAIN events : events[n].role = "interviewer" /\ events[n].item = i}
Heard(events, todo) == Firsts \cup AskedIn(events) \cup AskedIn(todo)

\* The items of `known` are all that a place in the guide relies on.
PlaceOK(place, known) ==
  /\ \A i \in Items : place.coverage[i] # 0 => i \in known
  /\ \A g \in Guides : \A k \in DOMAIN g :
       g[k] = place.current => \A m \in 1..k : g[m] \in known

\* The turns in a sequence of events, and those still to be appended.
Recorded(events) == Cardinality({n \in DOMAIN events : events[n].role # "completed"})
Ahead(todo) ==
  IF todo = <<>> THEN 0
  ELSE IF todo[1].role = "respondent" THEN 2
  ELSE IF todo[1].role = "interviewer" THEN 1
  ELSE 0

\* A reply, then the interviewer's turn, then perhaps the completion.
TodoOK(todo) ==
  \A n \in DOMAIN todo :
    /\ todo[n].role = "respondent" => n + 1 \in DOMAIN todo /\ todo[n + 1].role = "interviewer"
    /\ todo[n].role = "interviewer" /\ n + 1 \in DOMAIN todo => todo[n + 1].role = "completed"
    /\ todo[n].role = "completed" => n + 1 \notin DOMAIN todo

\* What TypeOK says of one handler.
HandlerType(t) ==
  /\ t \in Handlers
  /\ t.pc = "persist" => t.todo # <<>> /\ t.write = "turn"
  /\ t.pc \in {"replay", "fetch", "put"} => t.write # "none"

\* No handler counts a turn that is neither in the log nor about to be.
TurnsOK(t, events) ==
  /\ TodoOK(t.todo)
  /\ t.pc # "persist" => t.todo = <<>>
  /\ t.base.turns <= Recorded(events) + 1
  /\ t.delta.turns <= Recorded(events) + 1 + Ahead(t.todo)

TurnsInv ==
  /\ TypeOK
  /\ MemoryBehindLog
  /\ \A c \in Clients : TurnsOK(client[c], log)

\* No handler relies on an item that is neither asked about in the log nor
\* about to be.
PlacesOK(t, events) ==
  /\ t.guide \in Guides \cup {<<>>}
  /\ PlaceOK(t.base.place, Heard(events, <<>>))
  /\ PlaceOK(t.delta.place, Heard(events, t.todo))
  /\ \A n \in DOMAIN t.todo :
       t.todo[n].role = "completed" /\ ~t.todo[n].stop =>
         \A i \in Range(t.guide) : i \in Heard(events, t.todo)

PlacesInv ==
  /\ PlaceOK(memory.place, Heard(log, <<>>))
  /\ \A c \in Clients : PlacesOK(client[c], log)

-----------------------------------------------------------------------------
(***************************************************************************)
(* The interviewer's turn.                                                 *)
(***************************************************************************)
\* Every non-empty set of natural numbers has a least element.
LEMMA Minimum ==
  ASSUME NEW S \in SUBSET Nat, S # {}
  PROVE  \E n \in S : \A m \in S : n <= m
<1> DEFINE R == {p \in Nat \X Nat : p[1] < p[2]}
<1>1. IsWellFoundedOn(R, Nat)
  BY NatLessThanWellFounded DEF OpToRel
<1> HIDE DEF R
<1>2. PICK n \in S : \A m \in S : ~ (<<m, n>> \in R)
  BY <1>1, WFMin
<1>3. \A m \in S : ~ (m < n)
  BY <1>2 DEF R
<1>4. QED
  BY <1>3, SMT

\* NextAfter finds the first item after k that is not fully covered, or none.
LEMMA NextAfterIsFirst ==
  ASSUME NEW g \in Seq(Items), NEW coverage, NEW k \in Nat
  PROVE  LET n    == NextAfter(g, coverage, k)
             open == Uncovered(g, coverage, k)
         IN  \/ n = 0 /\ open = {}
             \/ n \in open /\ \A m \in open : n <= m
<1> DEFINE open == Uncovered(g, coverage, k)
<1>1. CASE open = {}
  BY <1>1 DEF NextAfter
<1>2. CASE open # {}
  <2>1. open \in SUBSET Nat
    BY LenProperties DEF Uncovered
  <2>2. \E n \in open : \A m \in open : n <= m
    BY <2>1, <1>2, Minimum
  <2>3. QED
    BY <1>2, <2>2 DEF NextAfter
<1>3. QED
  BY <1>1, <1>2

\* The guides of a study agree on the place of an item and on what precedes it.
LEMMA SameIndex ==
  ASSUME GuidesGrow, NEW g \in Guides, NEW h \in Guides,
         NEW k \in DOMAIN g, NEW j \in DOMAIN h, g[k] = h[j]
  PROVE  k = j /\ \A m \in 1..k : m \in DOMAIN g /\ m \in DOMAIN h /\ g[m] = h[m]
<1>1. /\ DOMAIN g = 1..Len(g) /\ Len(g) \in Nat
      /\ DOMAIN h = 1..Len(h) /\ Len(h) \in Nat
  BY GuideAssumption, LenProperties
<1>2. /\ \A m, n \in DOMAIN g : g[m] = g[n] => m = n
      /\ \A m, n \in DOMAIN h : h[m] = h[n] => m = n
  BY GuideAssumption
<1>3. \A n \in DOMAIN g \cap DOMAIN h : g[n] = h[n]
  BY DEF GuidesGrow
<1>4. k = j
  <2>1. CASE k \in DOMAIN h
    BY <2>1, <1>2, <1>3
  <2>2. CASE k \notin DOMAIN h
    <3>1. j \in DOMAIN g
      BY <2>2, <1>1
    <3>2. QED
      BY <3>1, <1>2, <1>3
  <2>3. QED
    BY <2>1, <2>2
<1>5. QED
  BY <1>1, <1>3, <1>4

\* A place that relies on some items may rely on more.
LEMMA PlaceMonotone ==
  ASSUME NEW place, NEW known, NEW more, PlaceOK(place, known), known \cap Items \subseteq more
  PROVE  PlaceOK(place, more)
<1>1. \A g \in Guides : \A k \in DOMAIN g : \A m \in 1..k : m \in DOMAIN g /\ g[m] \in Items
  BY GuideAssumption, LenProperties, ElementOfSeq
<1>2. \A i \in Items : place.coverage[i] # 0 => i \in more
  BY DEF PlaceOK
<1>3. QED
  BY <1>1, <1>2 DEF PlaceOK

\* A place at an item of a guide relies on that item and those before it.
LEMMA PlaceAt ==
  ASSUME GuidesGrow, NEW g \in Guides, NEW k \in DOMAIN g, NEW place, NEW known,
         place.current = g[k], \A m \in 1..k : g[m] \in known,
         \A i \in Items : place.coverage[i] # 0 => i \in known
  PROVE  PlaceOK(place, known)
<1>1. ASSUME NEW h \in Guides, NEW j \in DOMAIN h, h[j] = place.current, NEW m \in 1..j
      PROVE  h[m] \in known
  <2>1. k = j /\ \A n \in 1..k : g[n] = h[n]
    BY <1>1, SameIndex
  <2>2. QED
    BY <2>1, <1>1
<1>2. QED
  BY <1>1 DEF PlaceOK
\* The kinds of an interviewer's turn.
Kinds == {"ask", "probe", "acknowledge_and_move", "wrap_up"}
Made  == [kind : Kinds, item : Items \cup {NoItem}, place : Places]

\* The current item is one of the guide, and known with those before it.
LEMMA CurrentKnown ==
  ASSUME GuidesGrow, NEW g \in Guides, g # <<>>, NEW place, NEW known, Firsts \subseteq known,
         PlaceOK(place, known)
  PROVE  LET k == CurrentIndex(g, place)
         IN  k \in DOMAIN g /\ \A m \in 1..k : g[m] \in known
<1>1. DOMAIN g = 1..Len(g) /\ Len(g) \in Nat /\ 1 \in DOMAIN g
  BY GuideAssumption, LenProperties, EmptySeq
<1>2. CASE place.current \in Range(g)
  <2>1. \E n \in DOMAIN g : g[n] = place.current
    BY <1>2 DEF Range
  <2>2. CurrentIndex(g, place) \in DOMAIN g /\ g[CurrentIndex(g, place)] = place.current
    BY <1>2, <2>1 DEF CurrentIndex
  <2>3. QED
    BY <2>2 DEF PlaceOK
<1>3. CASE place.current \notin Range(g)
  <2>1. CurrentIndex(g, place) = 1
    BY <1>3 DEF CurrentIndex
  <2>2. g[1] \in Firsts
    BY DEF Firsts
  <2>3. QED
    BY <2>1, <2>2, <1>1
<1>4. QED
  BY <1>2, <1>3

\* NextUncovered skips only items that are covered, and finds none only if none
\* is left.
LEMMA NextUncoveredIsFirst ==
  ASSUME NEW g \in Seq(Items), NEW coverage, NEW k \in Nat, NEW wrap \in BOOLEAN
  PROVE  LET n == NextUncovered(g, coverage, k, wrap)
         IN  \/ n = 0 /\ Uncovered(g, coverage, k) = {}
             \/ /\ n \in DOMAIN g /\ coverage[g[n]] < Full
                /\ \A m \in DOMAIN g : m > k /\ m < n => ~ coverage[g[m]] < Full
<1> DEFINE n == NextUncovered(g, coverage, k, wrap)
<1>1. DOMAIN g \subseteq Nat
  BY LenProperties
<1>2. CASE wrap /\ Uncovered(g, coverage, k) = {}
  <2>1. n = NextAfter(g, coverage, 0)
    BY <1>2 DEF NextUncovered
  <2>2. \/ n = 0
        \/ n \in Uncovered(g, coverage, 0) /\ \A m \in Uncovered(g, coverage, 0) : n <= m
    BY <2>1, NextAfterIsFirst
  <2>3. CASE n = 0
    BY <2>3, <1>2
  <2>4. CASE n \in Uncovered(g, coverage, 0) /\ \A m \in Uncovered(g, coverage, 0) : n <= m
    BY <2>4, <1>1 DEF Uncovered
  <2>5. QED
    BY <2>2, <2>3, <2>4
<1>3. CASE ~(wrap /\ Uncovered(g, coverage, k) = {})
  <2>1. n = NextAfter(g, coverage, k)
    BY <1>3 DEF NextUncovered
  <2>2. \/ n = 0 /\ Uncovered(g, coverage, k) = {}
        \/ n \in Uncovered(g, coverage, k) /\ \A m \in Uncovered(g, coverage, k) : n <= m
    BY <2>1, NextAfterIsFirst
  <2>3. CASE n \in Uncovered(g, coverage, k) /\ \A m \in Uncovered(g, coverage, k) : n <= m
    BY <2>3, <1>1 DEF Uncovered
  <2>4. QED
    BY <2>2, <2>3
<1>4. QED
  BY <1>2, <1>3

LEMMA AdvanceType ==
  ASSUME NEW g \in Seq(Items), NEW place \in Places, NEW k \in DOMAIN g, NEW action \in Actions
  PROVE  Advance(g, place, k, action) \in Made
<1> DEFINE covered == Cover(place.coverage, g[k])
           next    == NextUncovered(g, covered, k, action.wrap)
           left    == [place EXCEPT !.current = g[k], !.coverage = covered]
<1>1. k \in Nat /\ \A m \in DOMAIN g : g[m] \in Items
  BY LenProperties, ElementOfSeq
<1>2. covered \in [Items -> 0..Full]
  BY <1>1 DEF Cover, Places, Full
<1>3. left \in Places
  BY <1>1, <1>2 DEF Places
<1>4. next = 0 \/ next \in DOMAIN g
  BY <1>1, NextUncoveredIsFirst DEF Actions
<1> HIDE DEF covered, next, left
<1>5. WrapUp(IF action.wrap THEN action.item ELSE NoItem, left) \in Made
  BY <1>3 DEF WrapUp, Made, Kinds, Actions
<1>6. next # 0 => MoveTo(g[next], left) \in Made
  BY <1>1, <1>3, <1>4 DEF MoveTo, Made, Kinds, Places
<1>7. QED
  BY <1>5, <1>6 DEF Advance, covered, next, left

\* A turn is well formed whatever guide the handler has read.
LEMMA TurnType ==
  ASSUME NEW g \in Seq(Items), NEW place \in Places, NEW said \in Actions, NEW stop \in BOOLEAN
  PROVE  Turn(g, place, said, stop) \in Made
<1> DEFINE turn == Turn(g, place, said, stop)
<1>1. CASE g = <<>>
  BY <1>1 DEF Turn, Made, Kinds, Actions, Places
<1>2. CASE g # <<>>
  <2> DEFINE k      == CurrentIndex(g, place)
             action == IF said.wrap \/ said.item \in Range(g) THEN said ELSE [said EXCEPT !.item = NoItem]
             here   == [place EXCEPT !.current = g[k]]
  <2>1. k \in DOMAIN g
    BY <1>2, EmptySeq, LenProperties DEF CurrentIndex, Range
  <2>2. g[k] \in Items
    BY <2>1, LenProperties, ElementOfSeq
  <2>3. action \in Actions
    BY DEF Actions
  <2>4. turn = IF stop THEN WrapUp(NoItem, here)
               ELSE IF EndsItem(place, g[k], action) THEN Advance(g, place, k, action)
               ELSE Probe(place, g[k])
    BY <1>2 DEF Turn
  <2> HIDE DEF k, action, turn
  <2>5. WrapUp(NoItem, here) \in Made
    BY <2>2 DEF WrapUp, Made, Kinds, Places
  <2>6. Advance(g, place, k, action) \in Made
    BY <2>1, <2>3, AdvanceType
  <2>7. Probe(place, g[k]) \in Made
    BY <2>2 DEF Probe, Made, Kinds, Places, Full
  <2>8. QED
    BY <2>4, <2>5, <2>6, <2>7 DEF turn
<1>3. QED
  BY <1>1, <1>2

\* The result of going on from an item: what is known is enough for the new
\* place, with the item that the turn names, and for a wrap-up it is the guide.
LEMMA AdvanceKnown ==
  ASSUME GuidesGrow, NEW g \in Guides, NEW place \in Places, NEW k \in DOMAIN g, NEW known,
         \A m \in 1..k : g[m] \in known, PlaceOK(place, known), NEW action \in Actions
  PROVE  LET turn == Advance(g, place, k, action)
         IN  /\ PlaceOK(turn.place, known \cup {turn.item})
             /\ turn.kind = "wrap_up" => \A i \in Range(g) : i \in known
<1> DEFINE covered == Cover(place.coverage, g[k])
           next    == NextUncovered(g, covered, k, action.wrap)
           left    == [place EXCEPT !.current = g[k], !.coverage = covered]
           wrapped == WrapUp(IF action.wrap THEN action.item ELSE NoItem, left)
           moved   == MoveTo(g[next], left)
           turn    == Advance(g, place, k, action)
<1>1. /\ g \in Seq(Items) /\ DOMAIN g = 1..Len(g) /\ Len(g) \in Nat
      /\ k \in Nat /\ \A m \in DOMAIN g : g[m] \in Items
  BY GuideAssumption, LenProperties, ElementOfSeq
<1>2. /\ covered \in [Items -> 0..Full]
      /\ \A i \in Items : covered[i] # 0 => i \in known
  <2>1. covered \in [Items -> 0..Full]
    BY <1>1 DEF Cover, Places, Full
  <2>2. g[k] \in known
    BY <1>1
  <2>3. \A i \in Items : i # g[k] => covered[i] = place.coverage[i]
    BY DEF Cover, Places
  <2>4. QED
    BY <2>1, <2>2, <2>3 DEF PlaceOK
<1>3. /\ left \in Places
      /\ left.current = g[k] /\ left.coverage = covered
  BY <1>1, <1>2 DEF Places
<1>4. \/ next = 0 /\ Uncovered(g, covered, k) = {}
      \/ /\ next \in DOMAIN g
         /\ \A m \in DOMAIN g : m > k /\ m < next => ~ covered[g[m]] < Full
  BY <1>1, NextUncoveredIsFirst DEF Actions
<1>5. \A i \in Items : ~ covered[i] < Full => i \in known
  BY <1>2 DEF Full
<1> HIDE DEF covered, next, left
<1>6. CASE next = 0
  <2>1. turn = wrapped
    BY <1>6 DEF Advance, covered, next, left
  <2>2. wrapped.place = left
    BY DEF WrapUp
  <2>3. PlaceOK(left, known \cup {wrapped.item})
    BY <1>1, <1>2, <1>3, PlaceAt
  <2>4. Uncovered(g, covered, k) = {}
    BY <1>1, <1>4, <1>6
  <2>5. ASSUME NEW m \in DOMAIN g
        PROVE  g[m] \in known
    <3>1. CASE m <= k
      BY <3>1, <1>1
    <3>2. CASE m > k
      <4>1. ~ covered[g[m]] < Full
        BY <3>2, <2>4 DEF Uncovered
      <4>2. QED
        BY <4>1, <1>1, <1>5
    <3>3. QED
      BY <3>1, <3>2, <1>1
  <2>6. \A i \in Range(g) : i \in known
    BY <2>5 DEF Range
  <2>7. QED
    BY <2>1, <2>2, <2>3, <2>6
<1>7. CASE next # 0
  <2>1. turn = moved
    BY <1>7 DEF Advance, covered, next, left
  <2>2. /\ moved.kind = "acknowledge_and_move" /\ moved.item = g[next]
        /\ moved.place.current = g[next] /\ moved.place.coverage = covered
    BY <1>3 DEF MoveTo, Places
  <2>3. ASSUME NEW m \in 1..next
        PROVE  g[m] \in known \cup {g[next]}
    <3>1. next \in DOMAIN g /\ m \in DOMAIN g
      BY <1>1, <1>4, <1>7
    <3>2. CASE m <= k
      BY <3>2, <1>1
    <3>3. CASE m > k /\ m < next
      BY <3>1, <3>3, <1>1, <1>4, <1>5, <1>7
    <3>4. CASE m = next
      BY <3>4
    <3>5. QED
      BY <3>1, <3>2, <3>3, <3>4, <1>1
  <2>4. PlaceOK(moved.place, known \cup {moved.item})
    BY <2>2, <2>3, <1>2, <1>4, <1>7, PlaceAt
  <2>5. QED
    BY <2>1, <2>2, <2>4
<1>8. QED
  BY <1>6, <1>7

\* The interviewer's turn, whatever the model says: what is known is enough for
\* the new place, with the item that the turn names, and for a wrap-up that the
\* respondent did not ask for it is the guide.
LEMMA TurnKnown ==
  ASSUME GuidesGrow, NEW g \in Guides \cup {<<>>}, NEW place \in Places,
         NEW known, Firsts \subseteq known, PlaceOK(place, known),
         NEW said \in Actions, NEW stop \in BOOLEAN
  PROVE  LET turn == Turn(g, place, said, stop)
         IN  /\ PlaceOK(turn.place, known \cup {turn.item})
             /\ turn.kind = "wrap_up" /\ ~stop => \A i \in Range(g) : i \in known
<1> DEFINE turn == Turn(g, place, said, stop)
<1>1. CASE g = <<>>
  <2> DEFINE nowhere == [place EXCEPT !.current = NoItem]
  <2>1. turn = [kind |-> IF said.wrap THEN "wrap_up" ELSE "ask", item |-> said.item, place |-> nowhere]
    BY <1>1 DEF Turn
  <2>2. nowhere \in Places /\ nowhere.current = NoItem /\ nowhere.coverage = place.coverage
    BY DEF Places
  <2>3. turn.place = nowhere
    BY <2>1
  <2>4. \A h \in Guides : \A j \in DOMAIN h : h[j] # NoItem
    BY GuideAssumption, ItemAssumption, LenProperties, ElementOfSeq
  <2>5. PlaceOK(nowhere, known \cup {turn.item})
    BY <2>2, <2>4 DEF PlaceOK
  <2>6. Range(g) = {}
    BY <1>1 DEF Range
  <2>7. QED
    BY <2>3, <2>5, <2>6
<1>2. CASE g # <<>>
  <2> DEFINE k      == CurrentIndex(g, place)
             action == IF said.wrap \/ said.item \in Range(g) THEN said ELSE [said EXCEPT !.item = NoItem]
             here   == [place EXCEPT !.current = g[k]]
  <2>1. g \in Guides
    BY <1>2
  <2>2. k \in DOMAIN g /\ \A m \in 1..k : g[m] \in known
    BY <2>1, <1>2, CurrentKnown
  <2>3. g[k] \in Items /\ g[k] \in known
    BY <2>1, <2>2, GuideAssumption, LenProperties, ElementOfSeq
  <2>4. action \in Actions
    BY DEF Actions
  <2>5. turn = IF stop THEN WrapUp(NoItem, here)
               ELSE IF EndsItem(place, g[k], action) THEN Advance(g, place, k, action)
               ELSE Probe(place, g[k])
    BY <1>2 DEF Turn
  <2> HIDE DEF k, action, turn
  <2>6. CASE stop
    <3>1. here \in Places /\ here.current = g[k] /\ here.coverage = place.coverage
      BY <2>3 DEF Places
    <3>2. turn.place = here
      BY <2>5, <2>6 DEF WrapUp
    <3>3. \A i \in Items : here.coverage[i] # 0 => i \in known \cup {turn.item}
      BY <3>1 DEF PlaceOK
    <3>4. PlaceOK(here, known \cup {turn.item})
      BY <3>1, <3>3, <2>1, <2>2, PlaceAt
    <3>5. QED
      BY <3>2, <3>4, <2>6 DEF turn
  <2>7. CASE ~stop /\ EndsItem(place, g[k], action)
    <3>1. turn = Advance(g, place, k, action)
      BY <2>5, <2>7
    <3>2. QED
      BY <3>1, <2>1, <2>2, <2>4, AdvanceKnown DEF turn
  <2>8. CASE ~stop /\ ~EndsItem(place, g[k], action)
    <3> DEFINE probe == Probe(place, g[k])
    <3>1. turn = probe
      BY <2>5, <2>8
    <3>2. /\ probe.kind = "probe" /\ probe.item = g[k] /\ probe.place.current = g[k]
          /\ \A i \in Items : i # g[k] => probe.place.coverage[i] = place.coverage[i]
      BY DEF Probe, Places
    <3>3. \A i \in Items : probe.place.coverage[i] # 0 => i \in known \cup {probe.item}
      BY <3>2, <2>3 DEF PlaceOK
    <3>4. PlaceOK(probe.place, known \cup {probe.item})
      BY <3>2, <3>3, <2>1, <2>2, PlaceAt
    <3>5. QED
      BY <3>1, <3>2, <3>4 DEF turn
  <2>9. QED
    BY <2>6, <2>7, <2>8
<1>3. QED
  BY <1>1, <1>2
-----------------------------------------------------------------------------
(***************************************************************************)
(* Sequences of events.                                                    *)
(***************************************************************************)
\* Appending an event records one more turn, unless it is the completion.
LEMMA RecordedAppend ==
  ASSUME NEW events \in Seq(Events), NEW e \in Events
  PROVE  /\ Recorded(events) \in Nat
         /\ Recorded(Append(events, e)) =
              IF e.role = "completed" THEN Recorded(events) ELSE Recorded(events) + 1
<1> DEFINE turns == {n \in DOMAIN events : events[n].role # "completed"}
           more  == Append(events, e)
           last  == Len(events) + 1
<1>1. /\ Len(events) \in Nat /\ DOMAIN events = 1..Len(events)
      /\ Len(more) = last /\ DOMAIN more = 1..last
      /\ \A n \in 1..Len(events) : more[n] = events[n]
      /\ more[last] = e
  BY AppendProperties, LenProperties
<1>2. IsFiniteSet(1..Len(events))
  BY <1>1, FS_Interval
<1>3. IsFiniteSet(turns) /\ last \notin turns
  BY <1>1, <1>2, FS_Subset
<1> HIDE DEF more
<1>4. {n \in DOMAIN more : more[n].role # "completed"} =
        IF e.role = "completed" THEN turns ELSE turns \cup {last}
  BY <1>1
<1>5. Recorded(events) = Cardinality(turns)
  BY DEF Recorded
<1>6. Recorded(more) = IF e.role = "completed" THEN Cardinality(turns) ELSE Cardinality(turns \cup {last})
  BY <1>4 DEF Recorded
<1> HIDE DEF turns
<1>7. Cardinality(turns) \in Nat /\ Cardinality(turns \cup {last}) = Cardinality(turns) + 1
  BY <1>3, FS_CardinalityType, FS_AddElement
<1>8. QED
  BY <1>5, <1>6, <1>7 DEF more

LEMMA RecordedNat ==
  ASSUME NEW events \in Seq(Events)
  PROVE  Recorded(events) \in Nat
<1>1. DOMAIN events = 1..Len(events) /\ Len(events) \in Nat
  BY LenProperties
<1> DEFINE turns == {n \in DOMAIN events : events[n].role # "completed"}
<1>2. IsFiniteSet(turns)
  <2>1. IsFiniteSet(1..Len(events)) /\ turns \in SUBSET (1..Len(events))
    BY <1>1, FS_Interval
  <2>2. QED
    BY <2>1, FS_Subset, Zenon
<1>3. QED
  BY <1>2, FS_CardinalityType DEF Recorded

\* What a handler has to append after its next event.
LEMMA TodoTail ==
  ASSUME NEW todo \in Seq(Events), todo # <<>>, TodoOK(todo)
  PROVE  /\ Head(todo) \in Events /\ Tail(todo) \in Seq(Events)
         /\ Len(todo) = 1 <=> Tail(todo) = <<>>
         /\ TodoOK(Tail(todo))
         /\ Ahead(Tail(todo)) \in Nat
         /\ Ahead(todo) = IF Head(todo).role = "completed" THEN 0 ELSE Ahead(Tail(todo)) + 1
         /\ Head(todo).role = "completed" => Tail(todo) = <<>>
<1> DEFINE rest == Tail(todo)
<1>1. /\ Len(todo) \in Nat /\ Len(todo) > 0 /\ DOMAIN todo = 1..Len(todo)
      /\ \A n \in DOMAIN todo : todo[n] \in Events
  BY LenProperties, EmptySeq, ElementOfSeq
<1>2. /\ Head(todo) = todo[1] /\ rest \in Seq(Events)
      /\ Len(rest) = Len(todo) - 1 /\ DOMAIN rest = 1..(Len(todo) - 1)
      /\ \A n \in 1..(Len(todo) - 1) : rest[n] = todo[n + 1]
  BY <1>1
<1>3. Len(todo) = 1 <=> rest = <<>>
  <2>1. rest = <<>> => Len(rest) = 0
    BY EmptySeq, Zenon
  <2>2. rest # <<>> => Len(rest) # 0
    BY <1>2, EmptySeq
  <2>3. QED
    BY <2>1, <2>2, <1>1, <1>2
<1> HIDE DEF rest
<1>4. \A n \in DOMAIN rest : n + 1 \in DOMAIN todo /\ (n + 1 \in DOMAIN rest <=> (n + 1) + 1 \in DOMAIN todo)
  BY <1>1, <1>2
<1>5. TodoOK(rest)
  <2> SUFFICES ASSUME NEW n \in DOMAIN rest
               PROVE  /\ rest[n].role = "respondent" => n + 1 \in DOMAIN rest /\ rest[n + 1].role = "interviewer"
                      /\ rest[n].role = "interviewer" /\ n + 1 \in DOMAIN rest => rest[n + 1].role = "completed"
                      /\ rest[n].role = "completed" => n + 1 \notin DOMAIN rest
    BY DEF TodoOK
  <2>1. /\ n + 1 \in DOMAIN todo /\ (n + 1 \in DOMAIN rest <=> (n + 1) + 1 \in DOMAIN todo)
        /\ rest[n] = todo[n + 1] /\ (n + 1 \in DOMAIN rest => rest[n + 1] = todo[(n + 1) + 1])
    BY <1>2, <1>4
  <2>2. /\ todo[n + 1].role = "respondent" => (n + 1) + 1 \in DOMAIN todo /\ todo[(n + 1) + 1].role = "interviewer"
        /\ todo[n + 1].role = "interviewer" /\ (n + 1) + 1 \in DOMAIN todo => todo[(n + 1) + 1].role = "completed"
        /\ todo[n + 1].role = "completed" => (n + 1) + 1 \notin DOMAIN todo
    BY <2>1 DEF TodoOK
  <2>3. QED
    BY <2>1, <2>2
<1>6. todo[1].role \in {"respondent", "interviewer", "completed"}
  BY <1>1 DEF Events
<1>7. /\ todo[1].role = "respondent" => rest # <<>> /\ rest[1].role = "interviewer"
      /\ todo[1].role = "interviewer" => rest = <<>> \/ rest[1].role = "completed"
      /\ todo[1].role = "completed" => rest = <<>>
  <2>1. 1 \in DOMAIN todo /\ (1 + 1 \in DOMAIN todo <=> rest # <<>>) /\ (rest # <<>> => rest[1] = todo[1 + 1])
    BY <1>1, <1>2, <1>3
  <2>2. /\ todo[1].role = "respondent" => 1 + 1 \in DOMAIN todo /\ todo[1 + 1].role = "interviewer"
        /\ todo[1].role = "interviewer" /\ 1 + 1 \in DOMAIN todo => todo[1 + 1].role = "completed"
        /\ todo[1].role = "completed" => 1 + 1 \notin DOMAIN todo
    BY <2>1 DEF TodoOK
  <2>3. QED
    BY <2>1, <2>2
<1>8. /\ Ahead(rest) \in Nat
      /\ Ahead(todo) = IF todo[1].role = "completed" THEN 0 ELSE Ahead(rest) + 1
  BY <1>6, <1>7 DEF Ahead
<1>9. QED
  BY <1>1, <1>2, <1>3, <1>5, <1>7, <1>8 DEF rest

\* The events of a turn that Think hands to the harness.
Appends(n, turn, stop) ==
  <<Respondent(n + 1), Interviewer(n + 2, turn)>>
    \o (IF turn.kind = "wrap_up" THEN <<Completed(stop)>> ELSE <<>>)

LEMMA AppendsOK ==
  ASSUME NEW n \in Nat, NEW turn \in Made, NEW stop \in BOOLEAN
  PROVE  LET todo == Appends(n, turn, stop)
         IN  /\ todo \in Seq(Events) /\ todo # <<>>
             /\ TodoOK(todo) /\ Ahead(todo) = 2
             /\ {turn.item} \cap Items \subseteq AskedIn(todo)
             /\ \A m \in DOMAIN todo : todo[m].role = "completed" => turn.kind = "wrap_up" /\ todo[m].stop = stop
<1> DEFINE a    == Respondent(n + 1)
           b    == Interviewer(n + 2, turn)
           e    == Completed(stop)
           todo == Appends(n, turn, stop)
<1>1. a \in Events /\ b \in Events /\ e \in Events
  BY DEF Respondent, Interviewer, Completed, Events, Made, Kinds
<1>2. a.role = "respondent" /\ b.role = "interviewer" /\ b.item = turn.item /\ e.role = "completed" /\ e.stop = stop
  BY DEF Respondent, Interviewer, Completed
<1>3. todo = <<a, b>> \o (IF turn.kind = "wrap_up" THEN <<e>> ELSE <<>>)
  BY DEF Appends
<1> HIDE DEF a, b, e, todo
<1>4. CASE turn.kind = "wrap_up"
  <2>1. /\ todo \in Seq(Events) /\ todo # <<>> /\ DOMAIN todo = {1, 2, 3}
        /\ todo[1] = a /\ todo[2] = b /\ todo[3] = e
    <3>1. todo = <<a, b>> \o <<e>>
      BY <1>3, <1>4
    <3>2. QED
      BY <3>1, <1>1
  <2>2. TodoOK(todo) /\ Ahead(todo) = 2
    BY <1>2, <2>1 DEF TodoOK, Ahead
  <2>3. {turn.item} \cap Items \subseteq AskedIn(todo)
    BY <1>2, <2>1 DEF AskedIn
  <2>4. QED
    BY <1>2, <1>4, <2>1, <2>2, <2>3 DEF todo
<1>5. CASE turn.kind # "wrap_up"
  <2>1. /\ todo \in Seq(Events) /\ todo # <<>> /\ DOMAIN todo = {1, 2}
        /\ todo[1] = a /\ todo[2] = b
    <3>1. <<a, b>> \in Seq(Events)
      BY <1>1
    <3>2. todo = <<a, b>> \o <<>>
      BY <1>3, <1>5
    <3>3. todo = <<a, b>>
      BY <3>1, <3>2, ConcatEmptySeq, Zenon
    <3>4. QED
      BY <3>3, <1>1
  <2>2. TodoOK(todo) /\ Ahead(todo) = 2
    BY <1>2, <2>1 DEF TodoOK, Ahead
  <2>3. {turn.item} \cap Items \subseteq AskedIn(todo)
    BY <1>2, <2>1 DEF AskedIn
  <2>4. QED
    BY <1>2, <2>1, <2>2, <2>3 DEF todo
<1>6. QED
  BY <1>4, <1>5
-----------------------------------------------------------------------------
(***************************************************************************)
(* Types, and the turns that memories count.                               *)
(***************************************************************************)
LEMMA StartType == Start \in Places /\ Nothing \in Memories /\ \A n \in Nat : Opened(n) \in Memories
<1>1. Start \in Places
  BY DEF Start, Places, Full
<1>2. QED
  BY <1>1 DEF Nothing, Opened, Memories

LEMMA IdleOK ==
  ASSUME NEW pc \in {"idle", "context"}
  PROVE  HandlerType([Idle EXCEPT !.pc = pc])
  BY StartType, EmptySeq DEF Idle, HandlerType, Handlers

\* Nothing is counted by a handler that has ended its turn.
LEMMA IdleTurns ==
  ASSUME NEW pc \in {"idle", "context"}, NEW events, Recorded(events) \in Nat
  PROVE  TurnsOK([Idle EXCEPT !.pc = pc], events)
<1>1. TodoOK(<<>>) /\ Ahead(<<>>) = 0
  BY DEF TodoOK, Ahead
<1>2. QED
  BY <1>1 DEF Idle, TurnsOK, Nothing

\* A step that changes one handler, the log and the memory.
LEMMA TurnsStep ==
  ASSUME TurnsInv, NEW c \in Clients, NEW t,
         client' = [client EXCEPT ![c] = t], HandlerType(t), TurnsOK(t, log'),
         log' \in Seq(Events), Recorded(log) <= Recorded(log'), Recorded(log') \in Nat,
         memory' \in Memories, memory'.turns <= Recorded(log') + 1,
         guide' \in Guides, replies' \in 0..MaxReplies, upsets' \in 0..MaxUpsets
  PROVE  TurnsInv'
<1>1. client \in [Clients -> Handlers] /\ log \in Seq(Events)
  BY DEF TurnsInv, TypeOK
<1>2. t \in Handlers
  BY DEF HandlerType
<1>3. client' \in [Clients -> Handlers] /\ client'[c] = t /\ \A d \in Clients : d # c => client'[d] = client[d]
  BY <1>1, <1>2
<1>4. Recorded(log) \in Nat
  BY <1>1, RecordedNat
<1>5. ASSUME NEW d \in Clients
      PROVE  /\ HandlerType(client'[d])
             /\ TurnsOK(client'[d], log')
  <2>1. CASE d = c
    BY <2>1, <1>3
  <2>2. CASE d # c
    <3>1. HandlerType(client[d]) /\ TurnsOK(client[d], log)
      BY DEF TurnsInv, TypeOK, HandlerType
    <3>2. client[d].base.turns \in Nat /\ client[d].delta.turns \in Nat /\ Ahead(client[d].todo) \in Nat
      BY <3>1 DEF HandlerType, Handlers, Memories, Ahead
    <3>3. TurnsOK(client[d], log')
      BY <3>1, <3>2, <1>4 DEF TurnsOK
    <3>4. QED
      BY <3>1, <3>3, <2>2, <1>3
  <2>3. QED
    BY <2>1, <2>2
<1>6. TypeOK'
  BY <1>3, <1>5 DEF TypeOK, HandlerType
<1>7. MemoryBehindLog'
  BY DEF MemoryBehindLog, Turns, Recorded
<1>8. QED
  BY <1>5, <1>6, <1>7 DEF TurnsInv

\* A step that leaves the log alone.
LEMMA QuietTurns ==
  ASSUME TurnsInv, NEW c \in Clients, NEW t,
         client' = [client EXCEPT ![c] = t], HandlerType(t), TurnsOK(t, log), log' = log,
         memory' \in Memories, memory'.turns <= Recorded(log) + 1,
         guide' \in Guides, replies' \in 0..MaxReplies, upsets' \in 0..MaxUpsets
  PROVE  TurnsInv'
<1>1. log \in Seq(Events)
  BY DEF TurnsInv, TypeOK
<1>2. /\ Recorded(log') = Recorded(log) /\ TurnsOK(t, log')
      /\ log' \in Seq(Events) /\ Recorded(log') \in Nat /\ Recorded(log) <= Recorded(log')
      /\ memory'.turns <= Recorded(log') + 1
  BY <1>1, RecordedNat
<1>3. QED
  BY <1>1, <1>2, TurnsStep

LEMMA TurnsStart == Init => TurnsInv
<1> SUFFICES ASSUME Init PROVE TurnsInv
  OBVIOUS
<1>1. log \in Seq(Events) /\ Recorded(log) = 0
  BY FS_EmptySet, EmptySeq DEF Init, Recorded
<1>2. memory \in Memories /\ memory.turns <= 1
  <2>1. Opened(0).turns = 0 /\ Opened(1).turns = 1 /\ Nothing.turns = 0
    BY DEF Opened, Nothing
  <2>2. Opened(0) \in Memories /\ Opened(1) \in Memories /\ Nothing \in Memories
    BY StartType
  <2>3. memory \in {Opened(1), Opened(0), Nothing}
    BY DEF Init
  <2>4. QED
    BY <2>1, <2>2, <2>3
<1>3. Idle = [Idle EXCEPT !.pc = "idle"]
  BY DEF Idle
<1>4. HandlerType(Idle) /\ TurnsOK(Idle, log)
  BY <1>1, <1>3, IdleOK, IdleTurns
<1>5. client \in [Clients -> Handlers] /\ \A c \in Clients : client[c] = Idle
  BY <1>4 DEF Init, HandlerType
<1>6. TypeOK
  BY <1>1, <1>2, <1>4, <1>5, SessionAssumption DEF Init, TypeOK, HandlerType
<1>7. MemoryBehindLog
  BY <1>1, <1>2 DEF MemoryBehindLog, Turns, Recorded
<1>8. QED
  BY <1>4, <1>5, <1>6, <1>7 DEF TurnsInv
\* Every step keeps the types, and every count of turns behind the log.
LEMMA TurnsNext == TurnsInv /\ [Next]_vars => TurnsInv'
<1> SUFFICES ASSUME TurnsInv, [Next]_vars PROVE TurnsInv'
  OBVIOUS
<1>1. /\ guide \in Guides /\ log \in Seq(Events) /\ Recorded(log) \in Nat
      /\ memory \in Memories /\ memory.turns <= Recorded(log) + 1
      /\ client \in [Clients -> Handlers]
      /\ replies \in 0..MaxReplies /\ upsets \in 0..MaxUpsets
      /\ \A c \in Clients : HandlerType(client[c]) /\ TurnsOK(client[c], log)
  BY RecordedNat DEF TurnsInv, TypeOK, HandlerType, MemoryBehindLog, Turns, Recorded
<1>2. HandlerType(Idle) /\ TurnsOK(Idle, log)
  <2>1. Idle = [Idle EXCEPT !.pc = "idle"]
    BY DEF Idle
  <2>2. QED
    BY <2>1, <1>1, IdleOK, IdleTurns
<1>3. ASSUME NEW c \in Clients, Receive(c) PROVE TurnsInv'
  <2> DEFINE t == [client[c] EXCEPT !.pc = "hydrate", !.then = "context"]
  <2>1. HandlerType(client[c]) /\ TurnsOK(client[c], log)
    BY <1>1
  <2>2. client' = [client EXCEPT ![c] = t] /\ log' = log /\ memory' = memory
    BY <1>3 DEF Receive
  <2>3. HandlerType(t) /\ TurnsOK(t, log)
    BY <2>1, <1>1, <1>3 DEF Receive, HandlerType, Handlers, TurnsOK
  <2> HIDE DEF t
  <2>4. guide' = guide /\ upsets' = upsets /\ replies' \in 0..MaxReplies
    BY <1>1, <1>3, SessionAssumption DEF Receive
  <2>5. QED
    BY <2>2, <2>3, <2>4, <1>1, QuietTurns
<1>4. ASSUME NEW c \in Clients, Resume(c) PROVE TurnsInv'
  <2> DEFINE t == [client[c] EXCEPT !.pc = "hydrate"]
  <2>1. HandlerType(client[c]) /\ TurnsOK(client[c], log)
    BY <1>1
  <2>2. client' = [client EXCEPT ![c] = t] /\ log' = log /\ memory' = memory
    BY <1>4 DEF Resume
  <2>3. HandlerType(t) /\ TurnsOK(t, log)
    BY <2>1, <1>1, <1>4 DEF Resume, HandlerType, Handlers, TurnsOK
  <2> HIDE DEF t
  <2>4. QED
    BY <2>2, <2>3, <1>1, <1>4, QuietTurns DEF Resume
<1>5. ASSUME NEW c \in Clients, Hydrate(c) PROVE TurnsInv'
  <2> DEFINE t == [client[c] EXCEPT !.pc = IF memory.present THEN "fetch" ELSE "replay",
                                  !.write = IF memory.present THEN "touch" ELSE "restore"]
  <2>1. HandlerType(client[c]) /\ TurnsOK(client[c], log)
    BY <1>1
  <2>2. client' = [client EXCEPT ![c] = t] /\ log' = log /\ memory' = memory
    BY <1>5 DEF Hydrate
  <2>3. HandlerType(t) /\ TurnsOK(t, log)
    BY <2>1, <1>1, <1>5 DEF Hydrate, HandlerType, Handlers, TurnsOK
  <2> HIDE DEF t
  <2>4. QED
    BY <2>2, <2>3, <1>1, <1>5, QuietTurns DEF Hydrate
<1>6. ASSUME NEW c \in Clients, Replay(c) PROVE TurnsInv'
  <2> DEFINE history == Opened(Recorded(log))
             t       == [client[c] EXCEPT !.pc = "fetch", !.delta = history]
  <2>1. HandlerType(client[c]) /\ TurnsOK(client[c], log)
    BY <1>1
  <2>2. client' = [client EXCEPT ![c] = t] /\ log' = log /\ memory' = memory
    BY <1>6 DEF Replay, Recorded, Turns
  <2>3. history \in Memories /\ history.turns = Recorded(log)
    BY <1>1, StartType DEF Opened, Nothing
  <2> HIDE DEF history
  <2>4. HandlerType(t) /\ TurnsOK(t, log)
    <3>1. client[c].pc = "replay"
      BY <1>6 DEF Replay
    <3>2. HandlerType(t)
      BY <2>1, <2>3, <3>1 DEF HandlerType, Handlers
    <3>3. /\ t.todo = client[c].todo /\ t.base = client[c].base /\ t.pc = "fetch" /\ t.delta = history
      BY <2>1 DEF HandlerType, Handlers
    <3>4. t.todo = <<>>
      BY <2>1, <3>1, <3>3 DEF TurnsOK
    <3>5. Ahead(t.todo) = 0
      BY <3>4 DEF Ahead
    <3>6. QED
      BY <2>1, <2>3, <3>2, <3>3, <3>4, <3>5, <1>1 DEF TurnsOK
  <2> HIDE DEF t
  <2>5. QED
    BY <2>2, <2>4, <1>1, <1>6, QuietTurns DEF Replay
<1>7. ASSUME NEW c \in Clients, Fetch(c) PROVE TurnsInv'
  <2> DEFINE t == [client[c] EXCEPT !.pc = "put", !.base = memory]
  <2>1. HandlerType(client[c]) /\ TurnsOK(client[c], log)
    BY <1>1
  <2>2. client' = [client EXCEPT ![c] = t] /\ log' = log /\ memory' = memory
    BY <1>7 DEF Fetch
  <2>3. HandlerType(t) /\ TurnsOK(t, log)
    BY <2>1, <1>1, <1>7 DEF Fetch, HandlerType, Handlers, TurnsOK
  <2> HIDE DEF t
  <2>4. QED
    BY <2>2, <2>3, <1>1, <1>7, QuietTurns DEF Fetch
<1>8. ASSUME NEW c \in Clients, Put(c) PROVE TurnsInv'
  <2> DEFINE old == client[c]
             t   == [Idle EXCEPT !.pc = old.then]
  <2>1. HandlerType(old) /\ TurnsOK(old, log) /\ old.pc = "put"
    BY <1>1, <1>8 DEF Put
  <2>2. client' = [client EXCEPT ![c] = t] /\ log' = log
        /\ memory' = Merged(old.write, old.base, old.delta)
    BY <1>8 DEF Put
  <2>3. HandlerType(t) /\ TurnsOK(t, log)
    BY <2>1, <1>1, IdleOK, IdleTurns DEF HandlerType, Handlers
  <2>4. old.write \in {"touch", "restore", "turn"} /\ old.base \in Memories /\ old.delta \in Memories
    BY <2>1 DEF HandlerType, Handlers
  <2>5. old.base.turns <= Recorded(log) + 1 /\ old.delta.turns <= Recorded(log) + 1
    <3>1. old.todo = <<>>
      BY <2>1 DEF TurnsOK
    <3>2. Ahead(old.todo) = 0
      BY <3>1 DEF Ahead
    <3>3. QED
      BY <3>2, <2>1, <2>4, <1>1 DEF TurnsOK, Memories
  <2> HIDE DEF t, old
  <2>6. memory' \in Memories /\ memory'.turns <= Recorded(log) + 1
    <3>1. CASE old.write = "touch"
      BY <3>1, <2>2, <2>4, <2>5 DEF Merged
    <3>2. CASE old.write = "restore"
      <4>1. memory' = [old.base EXCEPT !.present = TRUE, !.turns = old.delta.turns,
                                       !.place.coverage = Start.coverage]
        BY <3>2, <2>2 DEF Merged
      <4>2. Start.coverage \in [Items -> 0..Full]
        BY StartType DEF Places
      <4>3. QED
        BY <4>1, <4>2, <2>4, <2>5 DEF Memories, Places
    <3>3. CASE old.write = "turn"
      BY <3>3, <2>2, <2>4, <2>5 DEF Merged
    <3>4. QED
      BY <3>1, <3>2, <3>3, <2>4
  <2>7. QED
    BY <2>2, <2>3, <2>6, <1>1, <1>8, QuietTurns DEF Put
<1>9. ASSUME NEW c \in Clients, LoadContext(c) PROVE TurnsInv'
  <2> DEFINE t == [client[c] EXCEPT !.pc = "think", !.guide = guide, !.base = memory]
  <2>1. HandlerType(client[c]) /\ TurnsOK(client[c], log)
    BY <1>1
  <2>2. client' = [client EXCEPT ![c] = t] /\ log' = log /\ memory' = memory
    BY <1>9 DEF LoadContext
  <2>3. HandlerType(t) /\ TurnsOK(t, log)
    BY <2>1, <1>1, <1>9, GuideAssumption DEF LoadContext, HandlerType, Handlers, TurnsOK
  <2> HIDE DEF t
  <2>4. guide' = guide /\ replies' = replies /\ upsets' = upsets
    BY <1>9 DEF LoadContext
  <2>5. QED
    BY <2>2, <2>3, <2>4, <1>1, QuietTurns
<1>10. ASSUME NEW c \in Clients, Think(c) PROVE TurnsInv'
  <2> DEFINE old == client[c]
             n   == old.base.turns
  <2>1. HandlerType(old) /\ TurnsOK(old, log) /\ old.pc = "think"
    BY <1>1, <1>10 DEF Think
  <2>2. /\ old.base \in Memories /\ n \in Nat /\ old.base.place \in Places /\ old.guide \in Seq(Items)
    BY <2>1 DEF HandlerType, Handlers, Memories
  <2>3. PICK said \in Actions, stop \in BOOLEAN :
          LET turn == Turn(old.guide, old.base.place, said, stop)
          IN client' = [client EXCEPT ![c] =
               [old EXCEPT !.pc = "persist", !.write = "turn", !.base = Nothing,
                           !.todo = Appends(n, turn, stop),
                           !.delta = [present |-> TRUE, turns |-> n + 2, place |-> turn.place]]]
    BY <1>10 DEF Think, Appends
  <2> DEFINE turn  == Turn(old.guide, old.base.place, said, stop)
             todo  == Appends(n, turn, stop)
             delta == [present |-> TRUE, turns |-> n + 2, place |-> turn.place]
             t     == [old EXCEPT !.pc = "persist", !.write = "turn", !.base = Nothing,
                                  !.todo = todo, !.delta = delta]
  <2>4. turn \in Made
    BY <2>2, TurnType
  <2>5. client' = [client EXCEPT ![c] = t]
    BY <2>3
  <2> HIDE DEF turn
  <2>6. todo \in Seq(Events) /\ todo # <<>> /\ TodoOK(todo) /\ Ahead(todo) = 2
    BY <2>2, <2>4, AppendsOK
  <2>7. delta \in Memories /\ delta.turns = n + 2
    BY <2>2, <2>4 DEF Memories, Made
  <2> HIDE DEF todo, delta
  <2>8. Nothing \in Memories /\ Nothing.turns = 0
    BY StartType DEF Nothing
  <2>9. HandlerType(t) /\ t.pc = "persist" /\ t.base = Nothing /\ t.todo = todo /\ t.delta = delta
    BY <2>1, <2>6, <2>7, <2>8 DEF HandlerType, Handlers
  <2>10. TurnsOK(t, log)
    BY <2>1, <2>2, <2>6, <2>7, <2>8, <2>9, <1>1 DEF TurnsOK
  <2> HIDE DEF t
  <2>11. QED
    BY <2>5, <2>9, <2>10, <1>1, <1>10, QuietTurns DEF Think
<1>11. ASSUME NEW c \in Clients, Persist(c) PROVE TurnsInv'
  <2> DEFINE old  == client[c]
             e    == Head(old.todo)
             rest == Tail(old.todo)
             t    == [old EXCEPT !.todo = rest, !.pc = IF Len(old.todo) = 1 THEN "fetch" ELSE "persist"]
  <2>1. HandlerType(old) /\ TurnsOK(old, log) /\ old.pc = "persist"
    BY <1>1, <1>11 DEF Persist
  <2>2. client' = [client EXCEPT ![c] = t] /\ log' = Append(log, e)
    BY <1>11 DEF Persist
  <2>3. old.todo \in Seq(Events) /\ old.todo # <<>> /\ TodoOK(old.todo) /\ old.write = "turn"
    BY <2>1 DEF HandlerType, Handlers, TurnsOK
  <2>4. /\ e \in Events /\ rest \in Seq(Events) /\ TodoOK(rest)
        /\ Len(old.todo) = 1 <=> rest = <<>>
        /\ Ahead(rest) \in Nat
        /\ Ahead(old.todo) = IF e.role = "completed" THEN 0 ELSE Ahead(rest) + 1
        /\ e.role = "completed" => rest = <<>>
    BY <2>3, TodoTail
  <2> HIDE DEF e, rest
  <2>5. /\ log' \in Seq(Events) /\ Recorded(log') \in Nat
        /\ Recorded(log') = IF e.role = "completed" THEN Recorded(log) ELSE Recorded(log) + 1
    <3>1. log' \in Seq(Events)
      BY <2>2, <2>4, <1>1, AppendProperties
    <3>2. QED
      BY <3>1, <2>2, <2>4, <1>1, RecordedAppend
  <2>6. e.role = "completed" => Ahead(rest) = 0
    BY <2>4 DEF Ahead
  <2>7. HandlerType(t) /\ t.todo = rest /\ t.base = old.base /\ t.delta = old.delta
        /\ t.pc = IF Len(old.todo) = 1 THEN "fetch" ELSE "persist"
    BY <2>1, <2>3, <2>4 DEF HandlerType, Handlers
  <2>8. old.base.turns \in Nat /\ old.delta.turns \in Nat
    BY <2>1 DEF HandlerType, Handlers, Memories
  <2>9. TurnsOK(t, log')
    BY <2>1, <2>4, <2>5, <2>6, <2>7, <2>8, <1>1 DEF TurnsOK
  <2>10. memory' = memory /\ memory.turns \in Nat /\ guide' = guide /\ replies' = replies /\ upsets' = upsets
    BY <1>1, <1>11 DEF Persist, Memories
  <2> HIDE DEF t
  <2>11. Recorded(log) <= Recorded(log') /\ memory'.turns <= Recorded(log') + 1
    BY <2>5, <2>10, <1>1
  <2>12. QED
    BY <2>2, <2>5, <2>7, <2>9, <2>10, <2>11, <1>1, TurnsStep
<1>12. ASSUME NEW c \in Clients, ModelFails(c) PROVE TurnsInv'
  <2>1. client' = [client EXCEPT ![c] = Idle] /\ log' = log /\ memory' = memory
    BY <1>12 DEF ModelFails
  <2>2. guide' = guide /\ replies' = replies /\ upsets' \in 0..MaxUpsets
    BY <1>1, <1>12, SessionAssumption DEF ModelFails, Upset
  <2>3. QED
    BY <2>1, <2>2, <1>1, <1>2, QuietTurns
<1>13. ASSUME NEW c \in Clients, Abort(c) PROVE TurnsInv'
  <2>1. client' = [client EXCEPT ![c] = Idle] /\ log' = log /\ memory' = memory
    BY <1>13 DEF Abort
  <2>2. guide' = guide /\ replies' = replies /\ upsets' \in 0..MaxUpsets
    BY <1>1, <1>13, SessionAssumption DEF Abort, Upset
  <2>3. QED
    BY <2>1, <2>2, <1>1, <1>2, QuietTurns
<1>14. CASE Expire \/ Refine \/ UNCHANGED vars
  <2>1. client' = client /\ log' = log
    BY <1>14 DEF Expire, Refine, vars
  <2>2. memory' \in Memories /\ memory'.turns <= Recorded(log) + 1
    <3>1. Nothing \in Memories /\ Nothing.turns = 0
      BY StartType DEF Nothing
    <3>2. memory' = memory \/ memory' = Nothing
      BY <1>14 DEF Expire, Refine, vars
    <3>3. QED
      BY <3>1, <3>2, <1>1
  <2>3. guide' \in Guides /\ replies' \in 0..MaxReplies /\ upsets' \in 0..MaxUpsets
    BY <1>1, <1>14, SessionAssumption DEF Expire, Refine, vars, Upset
  <2>4. TypeOK'
    BY <2>1, <2>2, <2>3, <1>1 DEF TypeOK, HandlerType
  <2>5. MemoryBehindLog'
    BY <2>1, <2>2 DEF MemoryBehindLog, Turns, Recorded
  <2>6. QED
    BY <2>1, <2>4, <2>5, <1>1 DEF TurnsInv
<1>15. QED
  BY <1>3, <1>4, <1>5, <1>6, <1>7, <1>8, <1>9, <1>10, <1>11, <1>12, <1>13, <1>14 DEF Next, Handle
\* The type of every variable, for any number of tabs and whatever the model says.
THEOREM TypeCorrect == Spec => []TypeOK
<1>1. TurnsInv => TypeOK
  BY DEF TurnsInv
<1>2. QED
  BY <1>1, TurnsStart, TurnsNext, PTL DEF Spec

\* The memory never counts a turn that the event store does not have, but for the
\* greeting.
THEOREM MemoryBehind == Spec => []MemoryBehindLog
<1>1. TurnsInv => MemoryBehindLog
  BY DEF TurnsInv
<1>2. QED
  BY <1>1, TurnsStart, TurnsNext, PTL DEF Spec
-----------------------------------------------------------------------------
(***************************************************************************)
(* The items that memories take for covered.                               *)
(***************************************************************************)
\* Appending the first of the events that are ahead loses none.
LEMMA HeardAppend ==
  ASSUME NEW events \in Seq(Events), NEW todo \in Seq(Events), todo # <<>>
  PROVE  LET more == Append(events, Head(todo))
         IN  /\ AskedIn(events) \subseteq AskedIn(more)
             /\ Heard(events, todo) \subseteq Heard(more, Tail(todo))
<1> DEFINE e    == Head(todo)
           more == Append(events, e)
           rest == Tail(todo)
<1>1. /\ Len(todo) \in Nat /\ Len(todo) > 0 /\ DOMAIN todo = 1..Len(todo)
      /\ e \in Events /\ e = todo[1]
  BY LenProperties, EmptySeq, ElementOfSeq
<1>2. /\ rest \in Seq(Events) /\ DOMAIN rest = 1..(Len(todo) - 1)
      /\ \A n \in 1..(Len(todo) - 1) : rest[n] = todo[n + 1]
  BY <1>1
<1> HIDE DEF e, rest
<1>3. /\ Len(events) \in Nat /\ DOMAIN events = 1..Len(events)
      /\ DOMAIN more = 1..(Len(events) + 1)
      /\ \A n \in 1..Len(events) : more[n] = events[n]
      /\ more[Len(events) + 1] = e
  BY <1>1, AppendProperties, LenProperties
<1> HIDE DEF more
<1>4. AskedIn(events) \subseteq AskedIn(more)
  BY <1>3 DEF AskedIn
<1>5. ASSUME NEW i \in AskedIn(todo)
      PROVE  i \in AskedIn(more) \cup AskedIn(rest)
  <2>1. PICK n \in DOMAIN todo : todo[n].role = "interviewer" /\ todo[n].item = i
    BY DEF AskedIn
  <2>2. i \in Items
    BY DEF AskedIn
  <2>3. CASE n = 1
    <3>1. Len(events) + 1 \in DOMAIN more
      BY <1>3
    <3>2. more[Len(events) + 1].role = "interviewer" /\ more[Len(events) + 1].item = i
      BY <2>1, <2>3, <1>1, <1>3
    <3>3. QED
      BY <3>1, <3>2, <2>2 DEF AskedIn
  <2>4. CASE n # 1
    <3>1. n - 1 \in DOMAIN rest /\ rest[n - 1] = todo[n]
      BY <2>4, <1>1, <1>2
    <3>2. QED
      BY <3>1, <2>1, <2>2 DEF AskedIn
  <2>5. QED
    BY <2>3, <2>4
<1>6. QED
  BY <1>4, <1>5 DEF Heard, more, e, rest

\* Nothing is relied on at the start.
LEMMA StartPlace ==
  ASSUME NEW known
  PROVE  PlaceOK(Start, known)
<1>1. \A g \in Guides : \A k \in DOMAIN g : g[k] # NoItem
  BY GuideAssumption, ItemAssumption, LenProperties, ElementOfSeq
<1>2. QED
  BY <1>1 DEF PlaceOK, Start

\* Hydration forgets the coverage and keeps the current item.
LEMMA RestoredPlace ==
  ASSUME NEW place \in Places, NEW known, PlaceOK(place, known)
  PROVE  PlaceOK([place EXCEPT !.coverage = Start.coverage], known)
<1> DEFINE restored == [place EXCEPT !.coverage = Start.coverage]
<1>1. restored.current = place.current /\ restored.coverage = Start.coverage
  BY DEF Places
<1>2. \A i \in Items : Start.coverage[i] = 0
  BY DEF Start
<1> HIDE DEF restored
<1>3. QED
  BY <1>1, <1>2 DEF PlaceOK, restored

LEMMA IdlePlaces ==
  ASSUME NEW pc, NEW events
  PROVE  PlacesOK([Idle EXCEPT !.pc = pc], events)
<1> DEFINE t == [Idle EXCEPT !.pc = pc]
<1>1. t.guide = <<>> /\ t.base.place = Start /\ t.delta.place = Start /\ t.todo = <<>>
  BY DEF Idle, Nothing
<1> HIDE DEF t
<1>2. DOMAIN t.todo = {}
  BY <1>1
<1>3. QED
  BY <1>1, <1>2, StartPlace DEF PlacesOK, t

\* More events in the log do not hurt a handler.
LEMMA PlacesMonotone ==
  ASSUME NEW t, NEW events, NEW more, PlacesOK(t, events), AskedIn(events) \subseteq AskedIn(more)
  PROVE  PlacesOK(t, more)
<1>1. \A todo : Heard(events, todo) \subseteq Heard(more, todo)
  BY DEF Heard
<1>2. PlaceOK(t.base.place, Heard(more, <<>>)) /\ PlaceOK(t.delta.place, Heard(more, t.todo))
  <2>1. PlaceOK(t.base.place, Heard(events, <<>>)) /\ PlaceOK(t.delta.place, Heard(events, t.todo))
    BY DEF PlacesOK
  <2>2. /\ Heard(events, <<>>) \cap Items \subseteq Heard(more, <<>>)
        /\ Heard(events, t.todo) \cap Items \subseteq Heard(more, t.todo)
    BY <1>1
  <2>3. QED
    BY <2>1, <2>2, PlaceMonotone
<1>3. QED
  BY <1>1, <1>2 DEF PlacesOK

\* A step that changes one handler, the log and the memory.
LEMMA PlacesStep ==
  ASSUME TypeOK, PlacesInv, NEW c \in Clients, NEW t,
         client' = [client EXCEPT ![c] = t], PlacesOK(t, log'),
         AskedIn(log) \subseteq AskedIn(log'), PlaceOK(memory'.place, Heard(log', <<>>))
  PROVE  PlacesInv'
<1>1. client'[c] = t /\ \A d \in Clients : d # c => client'[d] = client[d]
  BY DEF TypeOK
<1>2. ASSUME NEW d \in Clients
      PROVE  PlacesOK(client'[d], log')
  <2>1. PlacesOK(client[d], log')
    BY PlacesMonotone DEF PlacesInv
  <2>2. QED
    BY <2>1, <1>1
<1>3. QED
  BY <1>2 DEF PlacesInv

LEMMA QuietPlaces ==
  ASSUME TypeOK, PlacesInv, NEW c \in Clients, NEW t,
         client' = [client EXCEPT ![c] = t], PlacesOK(t, log), log' = log, memory' = memory
  PROVE  PlacesInv'
<1>1. PlacesOK(t, log') /\ AskedIn(log) \subseteq AskedIn(log') /\ PlaceOK(memory'.place, Heard(log', <<>>))
  BY DEF PlacesInv
<1>2. QED
  BY <1>1, PlacesStep

LEMMA PlacesStart == Init => PlacesInv
<1> SUFFICES ASSUME Init PROVE PlacesInv
  OBVIOUS
<1>1. memory.place = Start
  <2>1. Opened(0).place = Start /\ Opened(1).place = Start /\ Nothing.place = Start
    BY DEF Opened, Nothing
  <2>2. QED
    BY <2>1 DEF Init
<1>2. Idle = [Idle EXCEPT !.pc = "idle"]
  BY DEF Idle
<1>3. \A c \in Clients : PlacesOK(client[c], log)
  BY <1>2, IdlePlaces DEF Init
<1>4. QED
  BY <1>1, <1>3, StartPlace DEF PlacesInv

\* Every step keeps the items that a memory relies on behind the log.
LEMMA PlacesNext == GuidesGrow /\ TurnsInv /\ PlacesInv /\ [Next]_vars => PlacesInv'
<1> SUFFICES ASSUME GuidesGrow, TurnsInv, PlacesInv, [Next]_vars PROVE PlacesInv'
  OBVIOUS
<1>1. /\ TypeOK /\ guide \in Guides /\ log \in Seq(Events) /\ memory \in Memories
      /\ PlaceOK(memory.place, Heard(log, <<>>))
      /\ \A c \in Clients : /\ client[c] \in Handlers
                             /\ TurnsOK(client[c], log) /\ PlacesOK(client[c], log)
  BY DEF TurnsInv, PlacesInv, TypeOK
<1>2. PlacesOK(Idle, log)
  <2>1. Idle = [Idle EXCEPT !.pc = "idle"]
    BY DEF Idle
  <2>2. QED
    BY <2>1, IdlePlaces
<1>3. ASSUME NEW c \in Clients, Receive(c) PROVE PlacesInv'
  <2> DEFINE t == [client[c] EXCEPT !.pc = "hydrate", !.then = "context"]
  <2>1. client' = [client EXCEPT ![c] = t] /\ log' = log /\ memory' = memory
    BY <1>3 DEF Receive
  <2>2. /\ t.guide = client[c].guide /\ t.base = client[c].base
        /\ t.delta = client[c].delta /\ t.todo = client[c].todo
    BY <1>1 DEF Handlers
  <2> HIDE DEF t
  <2>3. PlacesOK(t, log)
    BY <2>2, <1>1 DEF PlacesOK
  <2>4. QED
    BY <2>1, <2>3, <1>1, QuietPlaces
<1>4. ASSUME NEW c \in Clients, Resume(c) PROVE PlacesInv'
  <2> DEFINE t == [client[c] EXCEPT !.pc = "hydrate"]
  <2>1. client' = [client EXCEPT ![c] = t] /\ log' = log /\ memory' = memory
    BY <1>4 DEF Resume
  <2>2. /\ t.guide = client[c].guide /\ t.base = client[c].base
        /\ t.delta = client[c].delta /\ t.todo = client[c].todo
    BY <1>1 DEF Handlers
  <2> HIDE DEF t
  <2>3. PlacesOK(t, log)
    BY <2>2, <1>1 DEF PlacesOK
  <2>4. QED
    BY <2>1, <2>3, <1>1, QuietPlaces
<1>5. ASSUME NEW c \in Clients, Hydrate(c) PROVE PlacesInv'
  <2> DEFINE t == [client[c] EXCEPT !.pc = IF memory.present THEN "fetch" ELSE "replay",
                                  !.write = IF memory.present THEN "touch" ELSE "restore"]
  <2>1. client' = [client EXCEPT ![c] = t] /\ log' = log /\ memory' = memory
    BY <1>5 DEF Hydrate
  <2>2. /\ t.guide = client[c].guide /\ t.base = client[c].base
        /\ t.delta = client[c].delta /\ t.todo = client[c].todo
    BY <1>1 DEF Handlers
  <2> HIDE DEF t
  <2>3. PlacesOK(t, log)
    BY <2>2, <1>1 DEF PlacesOK
  <2>4. QED
    BY <2>1, <2>3, <1>1, QuietPlaces
<1>6. ASSUME NEW c \in Clients, Replay(c) PROVE PlacesInv'
  <2> DEFINE history == Opened(Cardinality(Turns))
             t       == [client[c] EXCEPT !.pc = "fetch", !.delta = history]
  <2>1. client' = [client EXCEPT ![c] = t] /\ log' = log /\ memory' = memory
    BY <1>6 DEF Replay
  <2>2. history.place = Start
    BY DEF Opened, Nothing
  <2> HIDE DEF history
  <2>3. /\ t.guide = client[c].guide /\ t.base = client[c].base
        /\ t.delta = history /\ t.todo = client[c].todo
    BY <1>1 DEF Handlers
  <2> HIDE DEF t
  <2>4. PlacesOK(t, log)
    BY <2>2, <2>3, <1>1, StartPlace DEF PlacesOK
  <2>5. QED
    BY <2>1, <2>4, <1>1, QuietPlaces
<1>7. ASSUME NEW c \in Clients, Fetch(c) PROVE PlacesInv'
  <2> DEFINE t == [client[c] EXCEPT !.pc = "put", !.base = memory]
  <2>1. client' = [client EXCEPT ![c] = t] /\ log' = log /\ memory' = memory
    BY <1>7 DEF Fetch
  <2>2. /\ t.guide = client[c].guide /\ t.base = memory
        /\ t.delta = client[c].delta /\ t.todo = client[c].todo
    BY <1>1 DEF Handlers
  <2> HIDE DEF t
  <2>3. PlacesOK(t, log)
    BY <2>2, <1>1 DEF PlacesOK
  <2>4. QED
    BY <2>1, <2>3, <1>1, QuietPlaces
<1>8. ASSUME NEW c \in Clients, Put(c) PROVE PlacesInv'
  <2> DEFINE old == client[c]
             t   == [Idle EXCEPT !.pc = old.then]
  <2>1. /\ old.pc = "put" /\ old.write \in {"touch", "restore", "turn"}
        /\ old.base \in Memories /\ old.delta \in Memories
    BY <1>1, <1>8 DEF Put, TypeOK, Handlers
  <2>2. client' = [client EXCEPT ![c] = t] /\ log' = log
        /\ memory' = Merged(old.write, old.base, old.delta)
    BY <1>8 DEF Put
  <2>3. PlacesOK(t, log)
    BY IdlePlaces
  <2>4. PlaceOK(old.base.place, Heard(log, <<>>)) /\ PlaceOK(old.delta.place, Heard(log, <<>>))
    <3>1. old.todo = <<>>
      BY <2>1, <1>1 DEF TurnsOK
    <3>2. QED
      BY <3>1, <1>1 DEF PlacesOK
  <2> HIDE DEF t, old
  <2>5. PlaceOK(memory'.place, Heard(log', <<>>))
    <3>1. CASE old.write = "touch"
      BY <3>1, <2>2, <2>4 DEF Merged
    <3>2. CASE old.write = "restore"
      <4>1. memory' = [old.base EXCEPT !.present = TRUE, !.turns = old.delta.turns,
                                       !.place.coverage = Start.coverage]
        BY <3>2, <2>2 DEF Merged
      <4>2. memory'.place = [old.base.place EXCEPT !.coverage = Start.coverage]
        BY <4>1, <2>1 DEF Memories
      <4>3. old.base.place \in Places
        BY <2>1 DEF Memories
      <4>4. QED
        BY <4>2, <4>3, <2>2, <2>4, RestoredPlace
    <3>3. CASE old.write = "turn"
      BY <3>3, <2>2, <2>4 DEF Merged
    <3>4. QED
      BY <3>1, <3>2, <3>3, <2>1
  <2>6. QED
    BY <2>2, <2>3, <2>5, <1>1, PlacesStep
<1>9. ASSUME NEW c \in Clients, LoadContext(c) PROVE PlacesInv'
  <2> DEFINE t == [client[c] EXCEPT !.pc = "think", !.guide = guide, !.base = memory]
  <2>1. client' = [client EXCEPT ![c] = t] /\ log' = log /\ memory' = memory /\ client[c].pc = "context"
    BY <1>9 DEF LoadContext
  <2>2. /\ t.guide = guide /\ t.base = memory
        /\ t.delta = client[c].delta /\ t.todo = client[c].todo
    BY <1>1 DEF Handlers
  <2> HIDE DEF t
  <2>3. DOMAIN t.todo = {}
    <3>1. t.todo = <<>>
      BY <2>1, <2>2, <1>1 DEF TurnsOK
    <3>2. QED
      BY <3>1
  <2>4. PlacesOK(t, log)
    BY <2>2, <2>3, <1>1 DEF PlacesOK
  <2>5. QED
    BY <2>1, <2>4, <1>1, QuietPlaces
<1>10. ASSUME NEW c \in Clients, Think(c) PROVE PlacesInv'
  <2> DEFINE old   == client[c]
             n     == old.base.turns
             known == Heard(log, <<>>)
  <2>1. /\ old.base.place \in Places /\ n \in Nat /\ old.guide \in Seq(Items) /\ old \in Handlers
        /\ old.guide \in Guides \cup {<<>>} /\ PlaceOK(old.base.place, known)
    BY <1>1 DEF Handlers, Memories, PlacesOK
  <2>2. PICK said \in Actions, stop \in BOOLEAN :
          LET turn == Turn(old.guide, old.base.place, said, stop)
          IN client' = [client EXCEPT ![c] =
               [old EXCEPT !.pc = "persist", !.write = "turn", !.base = Nothing,
                           !.todo = Appends(n, turn, stop),
                           !.delta = [present |-> TRUE, turns |-> n + 2, place |-> turn.place]]]
    BY <1>10 DEF Think, Appends
  <2> DEFINE turn  == Turn(old.guide, old.base.place, said, stop)
             todo  == Appends(n, turn, stop)
             delta == [present |-> TRUE, turns |-> n + 2, place |-> turn.place]
             t     == [old EXCEPT !.pc = "persist", !.write = "turn", !.base = Nothing,
                                  !.todo = todo, !.delta = delta]
  <2>3. client' = [client EXCEPT ![c] = t] /\ log' = log /\ memory' = memory
    BY <2>2, <1>10 DEF Think
  <2>4. turn \in Made
    BY <2>1, TurnType
  <2>5. /\ PlaceOK(turn.place, known \cup {turn.item})
        /\ turn.kind = "wrap_up" /\ ~stop => \A i \in Range(old.guide) : i \in known
    <3>1. Firsts \subseteq known
      BY DEF Heard
    <3>2. QED
      BY <3>1, <2>1, TurnKnown
  <2> HIDE DEF turn
  <2>6. /\ todo \in Seq(Events) /\ {turn.item} \cap Items \subseteq AskedIn(todo)
        /\ \A m \in DOMAIN todo : todo[m].role = "completed" => turn.kind = "wrap_up" /\ todo[m].stop = stop
    BY <2>1, <2>4, AppendsOK
  <2>7. t.guide = old.guide /\ t.base = Nothing /\ t.todo = todo /\ t.delta.place = turn.place
    BY <2>1 DEF Handlers
  <2> HIDE DEF todo, t, old
  <2>8. known \subseteq Heard(log, todo) /\ (known \cup {turn.item}) \cap Items \subseteq Heard(log, todo)
    BY <2>6 DEF Heard, AskedIn
  <2> HIDE DEF known
  <2>9. PlaceOK(t.delta.place, Heard(log, todo))
    BY <2>5, <2>7, <2>8, PlaceMonotone
  <2>10. PlaceOK(t.base.place, Heard(log, <<>>))
    BY <2>7, StartPlace DEF Nothing
  <2>11. \A m \in DOMAIN todo : todo[m].role = "completed" /\ ~todo[m].stop =>
           \A i \in Range(old.guide) : i \in Heard(log, todo)
    BY <2>5, <2>6, <2>8
  <2>12. PlacesOK(t, log)
    BY <2>1, <2>7, <2>9, <2>10, <2>11 DEF PlacesOK
  <2>13. QED
    BY <2>3, <2>12, <1>1, QuietPlaces
<1>11. ASSUME NEW c \in Clients, Persist(c) PROVE PlacesInv'
  <2> DEFINE old  == client[c]
             rest == Tail(old.todo)
             t    == [old EXCEPT !.todo = rest, !.pc = IF Len(old.todo) = 1 THEN "fetch" ELSE "persist"]
  <2>1. client' = [client EXCEPT ![c] = t] /\ log' = Append(log, Head(old.todo)) /\ memory' = memory
    BY <1>11 DEF Persist
  <2>2. old.todo \in Seq(Events) /\ old.todo # <<>> /\ PlacesOK(old, log) /\ old \in Handlers
    BY <1>1, <1>11 DEF Persist, TypeOK, Handlers
  <2>3. AskedIn(log) \subseteq AskedIn(log') /\ Heard(log, old.todo) \subseteq Heard(log', rest)
    BY <2>1, <2>2, <1>1, HeardAppend
  <2>4. t.guide = old.guide /\ t.base = old.base /\ t.delta = old.delta /\ t.todo = rest
    BY <2>2 DEF Handlers
  <2>5. \A n \in DOMAIN rest : n + 1 \in DOMAIN old.todo /\ rest[n] = old.todo[n + 1]
    BY <2>2, LenProperties
  <2> HIDE DEF t, old, rest
  <2>6. Heard(log, <<>>) \subseteq Heard(log', <<>>)
    BY <2>3 DEF Heard
  <2>7. PlaceOK(t.base.place, Heard(log', <<>>)) /\ PlaceOK(memory'.place, Heard(log', <<>>))
    <3>1. PlaceOK(old.base.place, Heard(log, <<>>))
      BY <2>2 DEF PlacesOK
    <3>2. QED
      BY <3>1, <2>1, <2>4, <2>6, <1>1, PlaceMonotone
  <2>8. PlaceOK(t.delta.place, Heard(log', rest))
    <3>1. PlaceOK(old.delta.place, Heard(log, old.todo))
      BY <2>2 DEF PlacesOK
    <3>2. QED
      BY <3>1, <2>3, <2>4, PlaceMonotone
  <2>9. \A n \in DOMAIN rest : rest[n].role = "completed" /\ ~rest[n].stop =>
          \A i \in Range(old.guide) : i \in Heard(log', rest)
    <3>1. \A n \in DOMAIN old.todo : old.todo[n].role = "completed" /\ ~old.todo[n].stop =>
            \A i \in Range(old.guide) : i \in Heard(log, old.todo)
      BY <2>2 DEF PlacesOK
    <3>2. QED
      BY <3>1, <2>3, <2>5
  <2>10. PlacesOK(t, log')
    <3>1. old.guide \in Guides \cup {<<>>}
      BY <2>2 DEF PlacesOK
    <3>2. QED
      BY <3>1, <2>4, <2>7, <2>8, <2>9 DEF PlacesOK
  <2>11. QED
    BY <2>1, <2>3, <2>7, <2>10, <1>1, PlacesStep
<1>12. ASSUME NEW c \in Clients, ModelFails(c) \/ Abort(c) PROVE PlacesInv'
  <2>1. client' = [client EXCEPT ![c] = Idle] /\ log' = log /\ memory' = memory
    BY <1>12 DEF ModelFails, Abort
  <2>2. QED
    BY <2>1, <1>1, <1>2, QuietPlaces
<1>13. CASE Expire \/ Refine \/ UNCHANGED vars
  <2>1. client' = client /\ log' = log /\ (memory' = memory \/ memory' = Nothing)
    BY <1>13 DEF Expire, Refine, vars
  <2>2. PlaceOK(memory'.place, Heard(log', <<>>))
    <3>1. PlaceOK(Nothing.place, Heard(log, <<>>))
      BY StartPlace DEF Nothing
    <3>2. QED
      BY <3>1, <2>1, <1>1
  <2>3. QED
    BY <2>1, <2>2, <1>1 DEF PlacesInv
<1>14. QED
  BY <1>3, <1>4, <1>5, <1>6, <1>7, <1>8, <1>9, <1>10, <1>11, <1>12, <1>13 DEF Next, Handle

\* What the invariant says of a handler that is about to record a completion.
LEMMA CoversFromPlaces ==
  ASSUME GuidesGrow, TurnsInv, PlacesInv, NEW c \in Clients, client[c].pc = "persist",
         Head(client[c].todo).role = "completed", ~Head(client[c].todo).stop,
         NEW i \in Range(client[c].guide)
  PROVE  Asked(i, client[c].guide)
<1> DEFINE old == client[c]
           g   == old.guide
<1>1. /\ old.todo \in Seq(Events) /\ old.todo # <<>> /\ TodoOK(old.todo) /\ PlacesOK(old, log)
      /\ g \in Seq(Items)
  BY DEF TurnsInv, TypeOK, Handlers, TurnsOK, PlacesInv
<1>2. 1 \in DOMAIN old.todo /\ Head(old.todo) = old.todo[1] /\ DOMAIN old.todo = 1..Len(old.todo)
  BY <1>1, LenProperties, EmptySeq
<1>3. DOMAIN old.todo = {1}
  <2>1. 1 + 1 \notin DOMAIN old.todo
    BY <1>1, <1>2 DEF TodoOK
  <2>2. Len(old.todo) \in Nat
    BY <1>1, LenProperties
  <2>3. QED
    BY <2>1, <2>2, <1>2
<1>4. AskedIn(old.todo) = {}
  BY <1>2, <1>3 DEF AskedIn
<1>5. i \in Heard(log, old.todo)
  BY <1>1, <1>2 DEF PlacesOK
<1>6. PICK m \in DOMAIN g : g[m] = i
  BY DEF Range
<1>7. g # <<>> /\ g \in Guides
  <2>1. g # <<>>
    BY <1>6
  <2>2. QED
    BY <2>1, <1>1 DEF PlacesOK
<1>8. CASE i \in Firsts
  <2>1. PICK h \in Guides : h # <<>> /\ h[1] = i
    BY <1>8 DEF Firsts
  <2>2. 1 \in DOMAIN h
    BY <2>1, GuideAssumption, LenProperties, EmptySeq
  <2>3. m = 1
    BY <2>1, <2>2, <1>6, <1>7, SameIndex
  <2>4. QED
    BY <2>3, <1>6, <1>7 DEF Asked
<1>9. CASE i \in AskedIn(log)
  BY <1>9 DEF AskedIn, Asked
<1>10. QED
  BY <1>4, <1>5, <1>8, <1>9 DEF Heard

\* No interview ends early: if a study's guide only grows at its end, an interview
\* that the respondent does not stop has covered every item of it, whatever the
\* model says, with any number of tabs, crashes and losses of the memory.
THEOREM CompletionCovers ==
  ASSUME GuidesGrow
  PROVE  Spec => []CompletionCoversGuide
<1>1. Init => TurnsInv /\ PlacesInv
  BY TurnsStart, PlacesStart
<1>2. TurnsInv /\ PlacesInv /\ [Next]_vars => TurnsInv' /\ PlacesInv'
  BY TurnsNext, PlacesNext
<1>3. TurnsInv /\ PlacesInv => CompletionCoversGuide
  BY CoversFromPlaces DEF CompletionCoversGuide
<1>4. QED
  BY <1>1, <1>2, <1>3, PTL DEF Spec

-----------------------------------------------------------------------------
(***************************************************************************)
(* The order of the transcript, for one tab.                               *)
(***************************************************************************)
\* No turn is recorded with an order beyond n.
UpTo(n) == \A m \in Turns : log[m].order <= n

\* What is still to be appended goes on from the log.
GoesOn(todo, turns) ==
  /\ todo[1].role = "respondent"  => UpTo(todo[1].order) /\ todo[2].order = todo[1].order + 1 /\ turns = todo[2].order
  /\ todo[1].role = "interviewer" => UpTo(todo[1].order) /\ turns = todo[1].order
  /\ todo[1].role = "completed"   => UpTo(turns)

\* The next turn of a handler goes on from the log: the memory that it has read,
\* or is about to write, counts at least all turns but one.
OrderOK(t) ==
  /\ t.pc \in {"idle", "hydrate", "context", "think"} => t.write = "none"
  /\ t.pc = "replay" => t.write = "restore"
  /\ t.pc \in {"context", "think"} => memory.present
  /\ t.pc \in {"put", "think"} => t.base = memory
  /\ t.pc \in {"fetch", "put"} =>
       /\ t.write = "touch" => memory.present
       /\ t.write = "restore" => t.delta.present /\ UpTo(t.delta.turns + 1)
       /\ t.write = "turn" => t.delta.present /\ UpTo(t.delta.turns)
  /\ t.write # "turn" /\ memory.present => UpTo(memory.turns + 1)
  /\ t.pc = "persist" => t.delta.present /\ GoesOn(t.todo, t.delta.turns)

OrderInv ==
  /\ TranscriptInOrder
  /\ UpTo(Recorded(log) + 1)
  /\ \A c \in Clients : OrderOK(client[c])

\* An event goes on from the log.
LEMMA GoneOn ==
  ASSUME log \in Seq(Events), NEW e \in Events, log' = Append(log, e), TranscriptInOrder,
         e.role # "completed" => UpTo(e.order)
  PROVE  /\ TranscriptInOrder'
         /\ \A x \in Nat : UpTo(x) /\ (e.role # "completed" => e.order <= x) => UpTo(x)'
<1>1. /\ Len(log) \in Nat /\ DOMAIN log = 1 .. Len(log) /\ DOMAIN log' = 1 .. Len(log) + 1
      /\ \A n \in 1 .. Len(log) : log'[n] = log[n] /\ log[n] \in Events
      /\ log'[Len(log) + 1] = e
  BY AppendProperties, LenProperties, ElementOfSeq
<1>2. ASSUME NEW n \in Turns'
      PROVE  \/ n \in Turns /\ log'[n] = log[n] /\ n <= Len(log)
             \/ n = Len(log) + 1 /\ log'[n] = e /\ e.role # "completed"
  BY <1>1 DEF Turns
<1>3. \A n \in Turns : n \in 1 .. Len(log)
  BY <1>1 DEF Turns
<1>4. TranscriptInOrder'
  <2> SUFFICES ASSUME NEW m \in Turns', NEW n \in Turns', m < n
               PROVE  log'[m].order <= log'[n].order
    BY DEF TranscriptInOrder
  <2>1. CASE n \in Turns /\ log'[n] = log[n] /\ n <= Len(log)
    <3>1. m \in Turns /\ log'[m] = log[m]
      BY <1>1, <1>2, <1>3, <2>1
    <3>2. QED
      BY <2>1, <3>1 DEF TranscriptInOrder
  <2>2. CASE n = Len(log) + 1 /\ log'[n] = e /\ e.role # "completed"
    <3>1. PICK k : k = Len(log) + 1
      OBVIOUS
    <3>2. m # k
      BY <1>1, <1>2, <1>3, <2>2, <3>1
    <3>3. m \in Turns /\ log'[m] = log[m]
      BY <1>2, <3>1, <3>2
    <3>4. QED
      BY <2>2, <3>3 DEF UpTo
  <2>3. QED
    BY <1>2, <2>1, <2>2
<1>5. ASSUME NEW x \in Nat, UpTo(x), e.role # "completed" => e.order <= x
      PROVE  UpTo(x)'
  <2>1. ASSUME NEW n \in Turns' PROVE log'[n].order <= x
    BY <1>2, <1>5, <2>1 DEF UpTo
  <2>2. QED
    BY <2>1 DEF UpTo
<1>6. QED
  BY <1>4, <1>5

\* Orders that a bound holds for are below any greater one.
LEMMA UpToMore ==
  ASSUME log \in Seq(Events), NEW x \in Nat, NEW y \in Nat, x <= y, UpTo(x)
  PROVE  UpTo(y)
<1>1. ASSUME NEW n \in Turns PROVE log[n].order \in Nat
  <2>1. n \in 1 .. Len(log)
    BY LenProperties DEF Turns
  <2>2. log[n] \in Events
    BY <2>1, ElementOfSeq
  <2>3. QED
    BY <2>2 DEF Events
<1>2. QED
  BY <1>1 DEF UpTo

\* A step of the one handler there is.
OneTab == \A c, d \in Clients : c = d

LEMMA OrderStep ==
  ASSUME OneTab, client \in [Clients -> Handlers], NEW c \in Clients, NEW t, client' = [client EXCEPT ![c] = t],
         TranscriptInOrder', UpTo(Recorded(log) + 1)', OrderOK(t)'
  PROVE  OrderInv'
BY DEF OneTab, OrderInv

LEMMA QuietOrder ==
  ASSUME OneTab, OrderInv, client \in [Clients -> Handlers], NEW c \in Clients, NEW t,
         client' = [client EXCEPT ![c] = t], UNCHANGED <<log, memory>>, OrderOK(t)
  PROVE  OrderInv'
<1>1. \A x : UpTo(x) => UpTo(x)'
  BY DEF UpTo, Turns
<1>2. OrderOK(t)'
  BY <1>1 DEF OrderOK, GoesOn, UpTo, Turns
<1>3. TranscriptInOrder' /\ UpTo(Recorded(log) + 1)'
  BY DEF OrderInv, TranscriptInOrder, UpTo, Turns, Recorded
<1>4. QED
  BY <1>2, <1>3, OrderStep

LEMMA OrderStart == Init => OrderInv
<1> SUFFICES ASSUME Init PROVE OrderInv
  OBVIOUS
<1>1. Turns = {}
  BY EmptySeq DEF Init, Turns
<1>2. TranscriptInOrder /\ \A x : UpTo(x)
  BY <1>1 DEF TranscriptInOrder, UpTo
<1>3. \A c \in Clients : client[c] = Idle
  BY DEF Init
<1>4. OrderOK(Idle)
  BY <1>2 DEF OrderOK, Idle
<1>5. QED
  BY <1>2, <1>3, <1>4 DEF OrderInv

\* The handler appends its next event.
LEMMA PersistOrder ==
  ASSUME OneTab, TurnsInv, OrderInv, NEW c \in Clients, Persist(c)
  PROVE  OrderInv'
<1> DEFINE old  == client[c]
           todo == old.todo
           e    == Head(todo)
           rest == Tail(todo)
<1>1. /\ log \in Seq(Events) /\ Recorded(log) \in Nat /\ client \in [Clients -> Handlers]
      /\ HandlerType(old) /\ TurnsOK(old, log) /\ OrderOK(old) /\ old.pc = "persist"
  BY RecordedNat DEF TurnsInv, OrderInv, TypeOK, HandlerType, Persist
<1>2. /\ todo \in Seq(Events) /\ todo # <<>> /\ TodoOK(todo) /\ old.write = "turn" /\ old.delta.turns \in Nat
      /\ old.delta.present /\ GoesOn(todo, old.delta.turns)
      /\ old.delta.turns <= Recorded(log) + 1 + Ahead(todo)
  BY <1>1 DEF HandlerType, Handlers, Memories, TurnsOK, OrderOK
<1>3. log' = Append(log, e) /\ UNCHANGED memory
  BY DEF Persist
<1>4. PICK t : t = [old EXCEPT !.todo = rest, !.pc = IF Len(todo) = 1 THEN "fetch" ELSE "persist"]
  OBVIOUS
<1>5. client' = [client EXCEPT ![c] = t]
  BY <1>1, <1>4 DEF Persist
<1>6. /\ t.todo = rest /\ t.delta = old.delta /\ t.write = "turn"
      /\ t.pc = IF Len(todo) = 1 THEN "fetch" ELSE "persist"
  BY <1>1, <1>2, <1>4 DEF HandlerType, Handlers
<1>7. PICK turns : turns = old.delta.turns
  OBVIOUS
<1> HIDE DEF old
<1>8. /\ e \in Events /\ e = todo[1] /\ rest \in Seq(Events)
      /\ Len(todo) = 1 <=> rest = <<>>
      /\ Ahead(rest) \in Nat /\ Ahead(todo) = IF e.role = "completed" THEN 0 ELSE Ahead(rest) + 1
      /\ e.role = "completed" => rest = <<>>
  BY <1>2, TodoTail
<1>9. rest # <<>> => rest[1] = todo[2] /\ rest[1] \in Events
  <2>1. Len(rest) = Len(todo) - 1 /\ \A n \in 1 .. Len(rest) : rest[n] = todo[n + 1] /\ rest[n] \in Events
    BY <1>2, <1>8, LenProperties, ElementOfSeq
  <2>2. rest # <<>> => 1 \in 1 .. Len(rest)
    BY <1>8, LenProperties, EmptySeq
  <2>3. QED
    BY <2>1, <2>2
<1>10. /\ e.order \in Nat /\ e.role \in {"respondent", "interviewer", "completed"}
       /\ turns \in Nat /\ turns <= Recorded(log) + 1 + Ahead(todo)
       /\ Recorded(log') = IF e.role = "completed" THEN Recorded(log) ELSE Recorded(log) + 1
  BY <1>1, <1>2, <1>3, <1>7, <1>8, RecordedAppend DEF Events
<1>11. PICK r : r = rest
  OBVIOUS
<1>12. /\ e.role # "completed" => UpTo(e.order) /\ e.order <= Recorded(log) + 2
       /\ UpTo(turns)
       /\ e.role # "completed" => e.order <= turns
       /\ e.role = "respondent" => r # <<>> /\ r[1].role = "interviewer" /\ turns = r[1].order
       /\ e.role = "interviewer" => r = <<>> \/ r[1].role = "completed"
  <2>1. CASE e.role = "respondent"
    <3>1. Ahead(todo) = 2
      BY <1>2, <1>8, <2>1 DEF Ahead
    <3>2. Ahead(rest) = 1
      BY <1>8, <2>1, <3>1
    <3>3. rest # <<>> /\ rest[1].role = "interviewer"
      BY <3>2 DEF Ahead
    <3>4. UpTo(e.order) /\ todo[2].order = e.order + 1 /\ turns = todo[2].order
      BY <1>2, <1>7, <1>8, <2>1 DEF GoesOn
    <3>5. UpTo(turns)
      BY <1>1, <1>10, <3>4, UpToMore
    <3>6. r # <<>> /\ r[1].role = "interviewer" /\ turns = r[1].order
      BY <1>9, <1>11, <3>3, <3>4
    <3>7. turns = e.order + 1 /\ turns <= Recorded(log) + 3
      BY <1>1, <1>10, <3>1, <3>4
    <3>8. e.order <= Recorded(log) + 2 /\ e.order <= turns
      BY <1>1, <1>10, <3>7
    <3>9. QED
      BY <2>1, <3>4, <3>5, <3>6, <3>8
  <2>2. CASE e.role = "interviewer"
    <3>1. Ahead(todo) = 1
      BY <1>2, <1>8, <2>2 DEF Ahead
    <3>2. Ahead(rest) = 0
      BY <1>8, <2>2, <3>1
    <3>3. rest = <<>> \/ rest[1].role = "completed"
      BY <1>9, <3>2 DEF Ahead, Events
    <3>4. UpTo(e.order) /\ turns = e.order
      BY <1>2, <1>7, <1>8, <2>2 DEF GoesOn
    <3>5. QED
      BY <1>1, <1>10, <1>11, <2>2, <3>1, <3>3, <3>4
  <2>3. CASE e.role = "completed"
    BY <1>2, <1>7, <1>8, <2>3 DEF GoesOn
  <2>4. QED
    BY <1>10, <2>1, <2>2, <2>3
<1> HIDE DEF rest
<1>13. /\ TranscriptInOrder'
       /\ \A x \in Nat : UpTo(x) /\ (e.role # "completed" => e.order <= x) => UpTo(x)'
  <2>1. PICK f : f = e
    OBVIOUS
  <2>2. f \in Events /\ log' = Append(log, f) /\ (f.role # "completed" => UpTo(f.order)) /\ TranscriptInOrder
    BY <1>3, <1>8, <1>12, <2>1 DEF OrderInv
  <2>3. /\ TranscriptInOrder'
        /\ \A x \in Nat : UpTo(x) /\ (f.role # "completed" => f.order <= x) => UpTo(x)'
    BY <1>1, <2>2, GoneOn
  <2>4. QED
    BY <2>1, <2>3
<1> HIDE DEF e
<1>14. UpTo(Recorded(log) + 1)'
  <2>1. PICK x : x = Recorded(log') + 1
    OBVIOUS
  <2>2. x \in Nat /\ Recorded(log) + 1 <= x /\ (e.role # "completed" => e.order <= x)
    BY <1>1, <1>10, <1>12, <2>1
  <2>3. UpTo(x)
    BY <1>1, <2>2, UpToMore DEF OrderInv
  <2>4. UpTo(x)'
    BY <1>13, <2>2, <2>3
  <2>5. QED
    BY <2>1, <2>4
<1>15. UpTo(turns)'
  BY <1>10, <1>12, <1>13
<1>16. OrderOK(t)'
  <2>1. t.delta.turns = turns /\ t.delta.present /\ t.todo = r /\ (Len(todo) = 1 <=> r = <<>>)
    BY <1>2, <1>6, <1>7, <1>8, <1>11
  <2>2. t.pc = "fetch" \/ (t.pc = "persist" /\ r # <<>>)
    BY <1>6, <2>1
  <2>3. t.pc = "persist" => GoesOn(r, turns)'
    <3>1. CASE e.role = "respondent"
      BY <1>12, <1>15, <3>1 DEF GoesOn
    <3>2. CASE e.role = "interviewer"
      BY <1>12, <1>15, <2>2, <3>2 DEF GoesOn
    <3>3. CASE e.role = "completed"
      BY <1>8, <1>11, <2>2, <3>3
    <3>4. QED
      BY <1>10, <3>1, <3>2, <3>3
  <2>4. QED
    BY <1>6, <1>15, <2>1, <2>2, <2>3 DEF OrderOK
<1>17. QED
  BY <1>1, <1>5, <1>13, <1>14, <1>16, OrderStep

\* The memory is written: it counts all turns but one.
LEMMA PutOrder ==
  ASSUME OneTab, TurnsInv, OrderInv, NEW c \in Clients, Put(c)
  PROVE  OrderInv'
<1>1. PICK old : old = client[c]
  OBVIOUS
<1>2. /\ log \in Seq(Events) /\ client \in [Clients -> Handlers]
      /\ HandlerType(old) /\ OrderOK(old) /\ old.pc = "put"
      /\ memory' = Merged(old.write, old.base, old.delta) /\ UNCHANGED log
  BY <1>1 DEF TurnsInv, OrderInv, TypeOK, HandlerType, Put
<1>3. /\ old.write \in {"touch", "restore", "turn"} /\ old.base = memory
      /\ old.base \in Memories /\ old.delta \in Memories
  BY <1>2 DEF HandlerType, Handlers, OrderOK
<1>4. memory'.present /\ UpTo(memory'.turns + 1)
  <2>1. CASE old.write = "touch"
    BY <1>2, <1>3, <2>1 DEF OrderOK, Merged
  <2>2. CASE old.write = "restore"
    <3>1. memory' = [old.base EXCEPT !.present = TRUE, !.turns = old.delta.turns,
                                     !.place.coverage = Start.coverage]
      BY <1>2, <2>2 DEF Merged
    <3>2. memory'.present /\ memory'.turns = old.delta.turns
      BY <1>3, <3>1 DEF Memories
    <3>3. QED
      BY <1>2, <2>2, <3>2 DEF OrderOK
  <2>3. CASE old.write = "turn"
    <3>1. memory'.present /\ memory'.turns = old.delta.turns /\ UpTo(old.delta.turns)
      BY <1>2, <2>3 DEF OrderOK, Merged
    <3>2. PICK x : x = old.delta.turns
      OBVIOUS
    <3>3. x \in Nat /\ x + 1 \in Nat /\ x <= x + 1
      BY <1>3, <3>2 DEF Memories
    <3>4. UpTo(x + 1)
      BY <1>2, <3>1, <3>2, <3>3, UpToMore
    <3>5. QED
      BY <3>1, <3>2, <3>4
  <2>4. QED
    BY <1>3, <2>1, <2>2, <2>3
<1>5. PICK t : t = [Idle EXCEPT !.pc = old.then]
  OBVIOUS
<1>6. client' = [client EXCEPT ![c] = t]
  BY <1>1, <1>5 DEF Put
<1>7. t.pc \in {"idle", "context"} /\ t.write = "none"
  BY <1>2, <1>5 DEF Idle, HandlerType, Handlers
<1>8. UpTo(memory.turns + 1)'
  BY <1>2, <1>4 DEF UpTo, Turns
<1>9. OrderOK(t)'
  BY <1>4, <1>7, <1>8 DEF OrderOK
<1>10. TranscriptInOrder' /\ UpTo(Recorded(log) + 1)'
  BY <1>2 DEF OrderInv, TranscriptInOrder, UpTo, Turns, Recorded
<1>11. QED
  BY <1>2, <1>6, <1>9, <1>10, OrderStep

\* The turn that is made goes on from the memory.
LEMMA ThinkOrder ==
  ASSUME OneTab, TurnsInv, OrderInv, NEW c \in Clients, Think(c)
  PROVE  OrderInv'
<1>1. PICK old, n : old = client[c] /\ n = old.base.turns
  OBVIOUS
<1>2. /\ client \in [Clients -> Handlers] /\ HandlerType(old) /\ OrderOK(old) /\ old.pc = "think"
      /\ UNCHANGED <<log, memory>>
  BY <1>1 DEF TurnsInv, OrderInv, TypeOK, HandlerType, Think
<1>3. memory.present /\ old.write = "none" /\ n = memory.turns /\ n \in Nat /\ UpTo(n + 1)
  BY <1>1, <1>2 DEF OrderOK, HandlerType, Handlers, Memories
<1>4. PICK turn, done :
        client' = [client EXCEPT ![c] =
          [old EXCEPT !.pc = "persist", !.write = "turn", !.base = Nothing,
                      !.todo = <<Respondent(n + 1), Interviewer(n + 2, turn)>> \o done,
                      !.delta = [present |-> TRUE, turns |-> n + 2, place |-> turn.place]]]
        /\ (done = <<>> \/ \E stop : done = <<Completed(stop)>>)
  <2>1. PICK said \in Actions, stop \in BOOLEAN :
          LET turn == Turn(old.guide, old.base.place, said, stop)
              done == IF turn.kind = "wrap_up" THEN <<Completed(stop)>> ELSE <<>>
          IN client' = [client EXCEPT ![c] =
               [old EXCEPT !.pc = "persist", !.write = "turn", !.base = Nothing,
                           !.todo = <<Respondent(n + 1), Interviewer(n + 2, turn)>> \o done,
                           !.delta = [present |-> TRUE, turns |-> n + 2, place |-> turn.place]]]
    BY <1>1 DEF Think
  <2>2. PICK turn : turn = Turn(old.guide, old.base.place, said, stop)
    OBVIOUS
  <2>3. PICK done : done = IF turn.kind = "wrap_up" THEN <<Completed(stop)>> ELSE <<>>
    OBVIOUS
  <2>4. QED
    BY <2>1, <2>2, <2>3
<1>5. PICK first, second : first = Respondent(n + 1) /\ second = Interviewer(n + 2, turn)
  OBVIOUS
<1>6. first.role = "respondent" /\ first.order = n + 1 /\ second.order = n + 2
  BY <1>5 DEF Respondent, Interviewer
<1>7. PICK todo, delta : todo = <<first, second>> \o done /\ delta = [present |-> TRUE, turns |-> n + 2, place |-> turn.place]
  OBVIOUS
<1>8. todo[1] = first /\ todo[2] = second
  <2>1. \E S : done \in Seq(S)
    <3>1. CASE done = <<>>
      BY <3>1, EmptySeq
    <3>2. ASSUME NEW stop, done = <<Completed(stop)>> PROVE \E S : done \in Seq(S)
      <4>1. PICK end : end = Completed(stop)
        OBVIOUS
      <4>2. done \in Seq({end})
        BY <3>2, <4>1
      <4>3. QED
        BY <4>2
    <3>3. QED
      BY <1>4, <3>1, <3>2
  <2>2. PICK S : done \in Seq(S)
    BY <2>1
  <2>3. <<first, second>> \in Seq(S \cup {first, second}) /\ done \in Seq(S \cup {first, second})
    BY <2>2
  <2>4. QED
    BY <1>7, <2>3, ConcatProperties
<1>9. PICK t : t = [old EXCEPT !.pc = "persist", !.write = "turn", !.base = Nothing, !.todo = todo, !.delta = delta]
  OBVIOUS
<1>10. t.pc = "persist" /\ t.write = "turn" /\ t.todo = todo /\ t.delta = delta
  BY <1>2, <1>9 DEF HandlerType, Handlers
<1>11. delta.present /\ delta.turns = n + 2
  BY <1>7
<1>12. GoesOn(todo, n + 2)
  BY <1>3, <1>6, <1>8 DEF GoesOn
<1>13. OrderOK(t)
  BY <1>10, <1>11, <1>12 DEF OrderOK
<1>14. client' = [client EXCEPT ![c] = t]
  BY <1>4, <1>5, <1>7, <1>9
<1>15. QED
  BY <1>2, <1>13, <1>14, QuietOrder

\* The upsets that may come while one tab is open: the model fails, the memory
\* expires while the respondent is away, the study is refined.
NothingCutShort == Upsets \cap {"abort", "expire"} = {}

LEMMA OrderNext ==
  ASSUME OneTab, NothingCutShort, TurnsInv, OrderInv, [Next]_vars
  PROVE  OrderInv'
<1>1. /\ client \in [Clients -> Handlers] /\ memory \in Memories /\ Recorded(log) \in Nat
      /\ \A c \in Clients : HandlerType(client[c]) /\ OrderOK(client[c])
  BY RecordedNat DEF TurnsInv, OrderInv, TypeOK, HandlerType
<1>2. ASSUME NEW c \in Clients, Receive(c) \/ Resume(c) \/ Hydrate(c) \/ Fetch(c) \/ LoadContext(c)
      PROVE  OrderInv'
  <2>1. PICK old : old = client[c]
    OBVIOUS
  <2>2. old \in Handlers /\ OrderOK(old) /\ UNCHANGED <<log, memory>>
    BY <1>1, <1>2, <2>1 DEF HandlerType, Receive, Resume, Hydrate, Fetch, LoadContext
  <2>3. ASSUME NEW t, client' = [client EXCEPT ![c] = t], OrderOK(t)
        PROVE  OrderInv'
    BY <1>1, <2>2, <2>3, QuietOrder
  <2>4. CASE Receive(c) \/ Resume(c)
    <3>1. old.pc = "idle"
      BY <2>1, <2>4 DEF Receive, Resume
    <3>2. PICK t : /\ client' = [client EXCEPT ![c] = t]
                   /\ \/ t = [old EXCEPT !.pc = "hydrate", !.then = "context"]
                      \/ t = [old EXCEPT !.pc = "hydrate"]
      <4>1. CASE Receive(c)
        <5>1. PICK t : t = [old EXCEPT !.pc = "hydrate", !.then = "context"]
          OBVIOUS
        <5>2. client' = [client EXCEPT ![c] = t]
          BY <1>1, <2>1, <4>1, <5>1 DEF Receive
        <5>3. QED
          BY <5>1, <5>2
      <4>2. CASE Resume(c)
        <5>1. PICK t : t = [old EXCEPT !.pc = "hydrate"]
          OBVIOUS
        <5>2. client' = [client EXCEPT ![c] = t]
          BY <1>1, <2>1, <4>2, <5>1 DEF Resume
        <5>3. QED
          BY <5>1, <5>2
      <4>3. QED
        BY <2>4, <4>1, <4>2
    <3>3. t.pc = "hydrate" /\ t.write = old.write
      BY <2>2, <3>2 DEF Handlers
    <3>4. OrderOK(t)
      BY <2>2, <3>1, <3>3 DEF OrderOK
    <3>5. QED
      BY <2>3, <3>2, <3>4
  <2>5. CASE Hydrate(c)
    <3>1. PICK t : t = [old EXCEPT !.pc    = IF memory.present THEN "fetch" ELSE "replay",
                                   !.write = IF memory.present THEN "touch" ELSE "restore"]
      OBVIOUS
    <3>2. client' = [client EXCEPT ![c] = t] /\ old.pc = "hydrate"
      BY <1>1, <2>1, <2>5, <3>1 DEF Hydrate
    <3>3. /\ t.pc = IF memory.present THEN "fetch" ELSE "replay"
          /\ t.write = IF memory.present THEN "touch" ELSE "restore"
      BY <2>2, <3>1 DEF Handlers
    <3>4. OrderOK(t)
      BY <2>2, <3>2, <3>3 DEF OrderOK
    <3>5. QED
      BY <2>3, <3>2, <3>4
  <2>6. CASE Fetch(c)
    <3>1. PICK t : t = [old EXCEPT !.pc = "put", !.base = memory]
      OBVIOUS
    <3>2. client' = [client EXCEPT ![c] = t] /\ old.pc = "fetch"
      BY <1>1, <2>1, <2>6, <3>1 DEF Fetch
    <3>3. t.pc = "put" /\ t.base = memory /\ t.write = old.write /\ t.delta = old.delta
      BY <2>2, <3>1 DEF Handlers
    <3>4. OrderOK(t)
      BY <2>2, <3>2, <3>3 DEF OrderOK
    <3>5. QED
      BY <2>3, <3>2, <3>4
  <2>7. CASE LoadContext(c)
    <3>1. PICK t : t = [old EXCEPT !.pc = "think", !.guide = guide, !.base = memory]
      OBVIOUS
    <3>2. client' = [client EXCEPT ![c] = t] /\ old.pc = "context"
      BY <1>1, <2>1, <2>7, <3>1 DEF LoadContext
    <3>3. t.pc = "think" /\ t.base = memory /\ t.write = old.write
      BY <2>2, <3>1 DEF Handlers
    <3>4. OrderOK(t)
      BY <2>2, <3>2, <3>3 DEF OrderOK
    <3>5. QED
      BY <2>3, <3>2, <3>4
  <2>8. QED
    BY <1>2, <2>4, <2>5, <2>6, <2>7
<1>3. ASSUME NEW c \in Clients, Replay(c) PROVE OrderInv'
  <2>1. PICK old, t, history :
          /\ old = client[c] /\ history = Opened(Cardinality(Turns))
          /\ t = [old EXCEPT !.pc = "fetch", !.delta = history]
    OBVIOUS
  <2>2. old \in Handlers /\ OrderOK(old) /\ UNCHANGED <<log, memory>>
    BY <1>1, <1>3, <2>1 DEF HandlerType, Replay
  <2>3. client' = [client EXCEPT ![c] = t] /\ old.pc = "replay"
    BY <1>1, <1>3, <2>1 DEF Replay
  <2>4. t.pc = "fetch" /\ t.write = old.write /\ t.delta = history
    BY <2>1, <2>2 DEF Handlers
  <2>5. history.present /\ history.turns = Recorded(log)
    BY <2>1 DEF Opened, Nothing, Turns, Recorded
  <2>6. UpTo(history.turns + 1)
    BY <2>5 DEF OrderInv
  <2>7. OrderOK(t)
    BY <2>2, <2>3, <2>4, <2>5, <2>6 DEF OrderOK
  <2>8. QED
    BY <1>1, <2>2, <2>3, <2>7, QuietOrder
<1>4. ASSUME NEW c \in Clients, ModelFails(c) PROVE OrderInv'
  <2>1. client' = [client EXCEPT ![c] = Idle] /\ UNCHANGED <<log, memory>> /\ client[c].pc = "think"
    BY <1>4 DEF ModelFails
  <2>2. memory.present => UpTo(memory.turns + 1)
    BY <1>1, <2>1 DEF OrderOK
  <2>3. PICK t : t = Idle
    OBVIOUS
  <2>4. OrderOK(t)
    BY <2>2, <2>3 DEF OrderOK, Idle
  <2>5. QED
    BY <1>1, <2>1, <2>3, <2>4, QuietOrder
<1>5. CASE \E c \in Clients : Abort(c)
  BY <1>5 DEF Abort, Upset, NothingCutShort
<1>6. CASE Expire
  <2>1. /\ \A c \in Clients : client[c].pc = "idle"
        /\ memory' = Nothing /\ UNCHANGED <<log, client>>
    BY <1>6 DEF Expire, Upset, NothingCutShort
  <2>2. ASSUME NEW t, OrderOK(t), t.pc = "idle" PROVE OrderOK(t)'
    BY <2>1, <2>2 DEF OrderOK, Nothing
  <2>3. ASSUME NEW c \in Clients PROVE OrderOK(client[c])'
    <3>1. PICK t : t = client[c]
      OBVIOUS
    <3>2. OrderOK(t)'
      BY <1>1, <2>1, <2>2, <3>1
    <3>3. QED
      BY <2>1, <3>1, <3>2
  <2>4. TranscriptInOrder' /\ UpTo(Recorded(log) + 1)'
    BY <2>1 DEF OrderInv, TranscriptInOrder, UpTo, Turns, Recorded
  <2>5. QED
    BY <2>3, <2>4 DEF OrderInv
<1>7. CASE UNCHANGED <<log, memory, client>>
  BY <1>7 DEF OrderInv, TranscriptInOrder, UpTo, Turns, Recorded, OrderOK, GoesOn
<1>8. QED
  BY <1>2, <1>3, <1>4, <1>5, <1>6, <1>7, PersistOrder, PutOrder, ThinkOrder DEF Next, Handle, Refine, vars

\* The turns of an interview are numbered in the order in which they were
\* recorded, so that the evidence view may sort them by their number: with one
\* tab open, and while no turn is cut short between its events and its memory.
THEOREM OneTabInOrder ==
  ASSUME OneTab, NothingCutShort
  PROVE  Spec => []TranscriptInOrder
<1>1. Init => TurnsInv /\ OrderInv
  BY TurnsStart, OrderStart
<1>2. TurnsInv /\ OrderInv /\ [Next]_vars => TurnsInv' /\ OrderInv'
  BY TurnsNext, OrderNext
<1>3. TurnsInv /\ OrderInv => TranscriptInOrder
  BY DEF OrderInv
<1>4. QED
  BY <1>1, <1>2, <1>3, PTL DEF Spec

-----------------------------------------------------------------------------
(***************************************************************************)
(* How many replies an interview needs.  A place leaves some of the room   *)
(* of the guide free (Left): a follow-up takes one reply of it, leaving an *)
(* item another.  For one tab and a study that is not refined, the replies *)
(* recorded and those left to make never exceed what is allowed, and each  *)
(* upset allows the whole guide once more (BoundInv).                      *)
(***************************************************************************)
\* The current item is not fully covered.
Open(g, place) == place.coverage[g[CurrentIndex(g, place)]] < Full

\* The replies that there still is room for: slot <<n, 0>> is taken when item n
\* is left, slot <<n, f>> by its f-th follow-up.
Left(g, place) ==
  {slot \in Room(g) : /\ place.coverage[g[slot[1]]] < Full
                      /\ slot[2] = 0 \/ slot[2] > place.followups[g[slot[1]]]}

LEMMA RoomFinite ==
  ASSUME NEW g \in Seq(Items)
  PROVE  IsFiniteSet(Room(g))
<1> DEFINE rows == {{n} \X (0 .. Limit[g[n]]) : n \in DOMAIN g}
           row  == [n \in DOMAIN g |-> {n} \X (0 .. Limit[g[n]])]
<1>1. DOMAIN g = 1..Len(g) /\ Len(g) \in Nat /\ \A n \in DOMAIN g : g[n] \in Items
  BY LenProperties, ElementOfSeq
<1>2. IsFiniteSet(DOMAIN g)
  BY <1>1, FS_Interval
<1>3. row \in Surjection(DOMAIN g, rows)
  BY DEF Surjection
<1>4. IsFiniteSet(rows)
  BY <1>2, <1>3, FS_Surjection
<1>5. ASSUME NEW n \in DOMAIN g PROVE IsFiniteSet({n} \X (0 .. Limit[g[n]]))
  <2>1. Limit[g[n]] \in Int
    BY <1>1, LimitAssumption
  <2>2. PICK m \in Int : m = Limit[g[n]]
    BY <2>1
  <2>3. IsFiniteSet(0 .. m)
    <3>1. 0 \in Int /\ m \in Int
      OBVIOUS
    <3>2. QED
      BY <3>1, FS_Interval, Zenon
  <2>4. IsFiniteSet({n})
    BY FS_Singleton
  <2>5. QED
    BY <2>2, <2>3, <2>4, FS_Product
<1>6. \A S \in rows : IsFiniteSet(S)
  BY <1>5
<1>7. IsFiniteSet(UNION rows)
  BY <1>4, <1>6, FS_UNION
<1>8. QED
  BY <1>7 DEF Room

\* The slots of an item are in the room.
LEMMA InRoom ==
  ASSUME NEW g \in Seq(Items), NEW n \in DOMAIN g, NEW f \in Nat, f <= Limit[g[n]]
  PROVE  <<n, f>> \in Room(g)
<1>1. g[n] \in Items
  BY LenProperties, ElementOfSeq
<1>2. f \in 0 .. Limit[g[n]]
  BY <1>1, LimitAssumption
<1>3. QED
  BY <1>2 DEF Room

LEMMA RoomSlots ==
  ASSUME NEW g \in Seq(Items), NEW slot \in Room(g)
  PROVE  /\ slot = <<slot[1], slot[2]>> /\ slot[1] \in DOMAIN g /\ g[slot[1]] \in Items
         /\ slot[2] \in Nat /\ slot[2] <= Limit[g[slot[1]]]
<1>1. PICK n \in DOMAIN g : slot \in {n} \X (0 .. Limit[g[n]])
  BY DEF Room
<1>2. g[n] \in Items
  BY LenProperties, ElementOfSeq
<1>3. Limit[g[n]] \in Nat
  BY <1>2, LimitAssumption
<1>4. QED
  BY <1>1, <1>2, <1>3

LEMMA LeftFinite ==
  ASSUME NEW g \in Seq(Items), NEW place
  PROVE  /\ IsFiniteSet(Left(g, place)) /\ Cardinality(Left(g, place)) \in Nat
         /\ Cardinality(Room(g)) \in Nat /\ Cardinality(Left(g, place)) <= Cardinality(Room(g))
<1>1. IsFiniteSet(Room(g)) /\ Left(g, place) \in SUBSET Room(g)
  BY RoomFinite DEF Left
<1>2. QED
  BY <1>1, FS_Subset, FS_CardinalityType

LEMMA CurrentIndexIn ==
  ASSUME NEW g \in Seq(Items), g # <<>>, NEW place
  PROVE  CurrentIndex(g, place) \in DOMAIN g /\ g[CurrentIndex(g, place)] \in Items
<1>1. CurrentIndex(g, place) \in DOMAIN g
  BY EmptySeq, LenProperties DEF CurrentIndex, Range
<1>2. QED
  BY <1>1, LenProperties, ElementOfSeq

LEMMA CurrentIndexAt ==
  ASSUME NEW g, \A m, n \in DOMAIN g : g[m] = g[n] => m = n, NEW k \in DOMAIN g,
         NEW place, place.current = g[k]
  PROVE  CurrentIndex(g, place) = k
BY DEF CurrentIndex, Range

\* At the start all of the room is left, and so it is after coverage is reset.
LEMMA LeftAtStart ==
  ASSUME NEW g \in Seq(Items), g # <<>>
  PROVE  Open(g, Start) /\ Left(g, Start) = Room(g)
<1>1. Open(g, Start)
  BY CurrentIndexIn DEF Open, Start, Full
<1>2. ASSUME NEW slot \in Room(g) PROVE slot \in Left(g, Start)
  BY RoomSlots DEF Left, Start, Full
<1>3. QED
  BY <1>1, <1>2 DEF Left

\* While the current item is open, its last slot is free.
LEMMA OpenLeaves ==
  ASSUME NEW g \in Seq(Items), g # <<>>, NEW place, Open(g, place)
  PROVE  Cardinality(Left(g, place)) \in Nat \ {0}
<1>1. PICK k : k = CurrentIndex(g, place)
  OBVIOUS
<1>2. k \in DOMAIN g /\ g[k] \in Items
  BY <1>1, CurrentIndexIn
<1>3. <<k, 0>> \in Left(g, place)
  BY <1>1, <1>2, InRoom, LimitAssumption DEF Left, Open
<1>4. QED
  BY <1>3, LeftFinite, FS_EmptySet

\* What is taken from a finite set makes it smaller.
LEMMA OneLess ==
  ASSUME NEW S, IsFiniteSet(S), NEW x \in S, NEW T \in SUBSET (S \ {x})
  PROVE  Cardinality(T) + 1 <= Cardinality(S)
<1>1. IsFiniteSet(S \ {x}) /\ Cardinality(S \ {x}) = Cardinality(S) - 1
  BY FS_RemoveElement
<1>2. Cardinality(T) <= Cardinality(S \ {x}) /\ IsFiniteSet(T)
  BY <1>1, FS_Subset
<1>3. Cardinality(S) \in Nat /\ Cardinality(T) \in Nat
  BY <1>2, FS_CardinalityType
<1>4. QED
  BY <1>1, <1>2, <1>3

\* A follow-up takes one slot and leaves the item open.
LEMMA ProbeTakes ==
  ASSUME NEW g \in Seq(Items), \A m, n \in DOMAIN g : g[m] = g[n] => m = n,
         NEW place \in Places, NEW k \in DOMAIN g, place.coverage[g[k]] < Full,
         place.followups[g[k]] < Limit[g[k]]
  PROVE  LET next == Probe(place, g[k]).place
         IN  Open(g, next) /\ Cardinality(Left(g, next)) + 1 <= Cardinality(Left(g, place))
<1>1. PICK next : next = Probe(place, g[k]).place
  OBVIOUS
<1>2. PICK i, f : i = g[k] /\ f = place.followups[i]
  OBVIOUS
<1>3. i \in Items /\ f \in Nat /\ k \in Nat
  BY <1>2, LenProperties, ElementOfSeq DEF Places
<1>4. /\ next.current = i
      /\ next.coverage = [place.coverage EXCEPT ![i] = IF @ = Full THEN Full ELSE 1]
      /\ next.followups = [place.followups EXCEPT ![i] = @ + 1]
  BY <1>1, <1>2 DEF Probe
<1>5. /\ next.coverage[i] < Full /\ next.followups[i] = f + 1
      /\ \A j \in Items \ {i} : next.coverage[j] = place.coverage[j] /\ next.followups[j] = place.followups[j]
  BY <1>2, <1>3, <1>4 DEF Places, Full
<1>6. Open(g, next)
  <2>1. CurrentIndex(g, next) = k
    BY <1>2, <1>4, CurrentIndexAt
  <2>2. QED
    BY <1>2, <1>5, <2>1 DEF Open
<1>7. <<k, f + 1>> \in Left(g, place)
  <2>1. <<k, f + 1>> \in Room(g)
    BY <1>2, <1>3, InRoom, LimitAssumption
  <2>2. QED
    BY <1>2, <1>3, <2>1 DEF Left
<1>8. ASSUME NEW slot \in Left(g, next) PROVE slot \in Left(g, place) \ {<<k, f + 1>>}
  <2>1. /\ slot \in Room(g) /\ next.coverage[g[slot[1]]] < Full
        /\ slot[2] = 0 \/ slot[2] > next.followups[g[slot[1]]]
    BY <1>8 DEF Left
  <2>2. slot[1] \in DOMAIN g /\ g[slot[1]] \in Items /\ slot[2] \in Nat
    BY <2>1, RoomSlots
  <2>3. CASE g[slot[1]] = i
    BY <1>2, <1>3, <1>5, <2>1, <2>2, <2>3 DEF Left
  <2>4. CASE g[slot[1]] # i
    BY <1>2, <1>5, <2>1, <2>2, <2>4 DEF Left
  <2>5. QED
    BY <2>3, <2>4
<1>9. Cardinality(Left(g, next)) + 1 <= Cardinality(Left(g, place))
  BY <1>7, <1>8, LeftFinite, OneLess
<1>10. QED
  BY <1>1, <1>6, <1>9

\* Going on to the next item takes one slot, and that item is open.
LEMMA AdvanceTakes ==
  ASSUME NEW g \in Seq(Items), \A m, n \in DOMAIN g : g[m] = g[n] => m = n,
         NEW place \in Places, NEW k \in DOMAIN g, place.coverage[g[k]] < Full,
         NEW action \in Actions
  PROVE  LET turn == Advance(g, place, k, action)
         IN  turn.kind = "wrap_up" \/
             (Open(g, turn.place) /\ Cardinality(Left(g, turn.place)) + 1 <= Cardinality(Left(g, place)))
<1> DEFINE covered == Cover(place.coverage, g[k])
           after   == NextUncovered(g, covered, k, action.wrap)
           left    == [place EXCEPT !.current = g[k], !.coverage = covered]
           turn    == Advance(g, place, k, action)
<1>1. PICK i : i = g[k]
  OBVIOUS
<1>2. /\ i \in Items /\ k \in Nat /\ \A m \in DOMAIN g : g[m] \in Items
      /\ 0 <= Limit[i]
  BY <1>1, LenProperties, ElementOfSeq, LimitAssumption
<1>3. covered[i] = Full /\ \A j \in Items \ {i} : covered[j] = place.coverage[j]
  BY <1>1, <1>2 DEF Cover, Places
<1>4. left.coverage = covered /\ left.followups = place.followups
  BY DEF Places
<1>5. after = 0 \/ (after \in DOMAIN g /\ covered[g[after]] < Full)
  BY <1>2, NextUncoveredIsFirst DEF Actions
<1>6. CASE after = 0
  BY <1>6 DEF Advance, WrapUp
<1>7. CASE after # 0
  <2>1. PICK next : next = turn.place
    OBVIOUS
  <2>2. turn = MoveTo(g[after], left)
    BY <1>7 DEF Advance
  <2> HIDE DEF covered, after, left, turn
  <2>3. next.current = g[after] /\ next.coverage = covered /\ next.followups = place.followups
    <3>1. next = [left EXCEPT !.current = g[after]]
      BY <2>1, <2>2 DEF MoveTo
    <3>2. left = [place EXCEPT !.current = g[k], !.coverage = covered]
      BY DEF left
    <3>3. QED
      BY <3>1, <3>2 DEF Places
  <2>4. Open(g, next)
    <3>1. CurrentIndex(g, next) = after
      BY <1>5, <1>7, <2>3, CurrentIndexAt
    <3>2. QED
      BY <1>5, <1>7, <2>3, <3>1 DEF Open
  <2>5. <<k, 0>> \in Left(g, place)
    BY <1>1, <1>2, InRoom DEF Left
  <2>6. ASSUME NEW slot \in Left(g, next) PROVE slot \in Left(g, place) \ {<<k, 0>>}
    <3>1. /\ slot \in Room(g) /\ covered[g[slot[1]]] < Full
          /\ slot[2] = 0 \/ slot[2] > place.followups[g[slot[1]]]
      BY <2>3, <2>6 DEF Left
    <3>2. slot[1] \in DOMAIN g /\ g[slot[1]] \in Items
      BY <3>1, RoomSlots
    <3>3. g[slot[1]] # i
      BY <1>3, <3>1 DEF Full
    <3>4. QED
      BY <1>1, <1>3, <3>1, <3>2, <3>3 DEF Left
  <2>7. Cardinality(Left(g, next)) + 1 <= Cardinality(Left(g, place))
    BY <2>5, <2>6, LeftFinite, OneLess
  <2>8. QED
    BY <2>1, <2>4, <2>7 DEF turn
<1>8. QED
  BY <1>6, <1>7

\* A turn that does not end the interview takes one slot.
LEMMA TurnTakes ==
  ASSUME NEW g \in Seq(Items), g # <<>>, \A m, n \in DOMAIN g : g[m] = g[n] => m = n,
         NEW place \in Places, Open(g, place), NEW said \in Actions, NEW stop \in BOOLEAN
  PROVE  LET turn == Turn(g, place, said, stop)
         IN  turn.kind = "wrap_up" \/
             (Open(g, turn.place) /\ Cardinality(Left(g, turn.place)) + 1 <= Cardinality(Left(g, place)))
<1> DEFINE k      == CurrentIndex(g, place)
           action == IF said.wrap \/ said.item \in Range(g) THEN said ELSE [said EXCEPT !.item = NoItem]
           turn   == Turn(g, place, said, stop)
<1>1. k \in DOMAIN g /\ g[k] \in Items /\ place.coverage[g[k]] < Full
  BY CurrentIndexIn DEF Open
<1>2. action \in Actions
  BY DEF Actions
<1>3. turn = IF stop THEN WrapUp(NoItem, [place EXCEPT !.current = g[k]])
             ELSE IF EndsItem(place, g[k], action) THEN Advance(g, place, k, action)
             ELSE Probe(place, g[k])
  BY DEF Turn
<1> HIDE DEF k, action, turn
<1>4. CASE stop
  BY <1>3, <1>4 DEF WrapUp, turn
<1>5. CASE ~stop /\ EndsItem(place, g[k], action)
  BY <1>1, <1>2, <1>3, <1>5, AdvanceTakes DEF turn
<1>6. CASE ~stop /\ ~EndsItem(place, g[k], action)
  <2>1. place.followups[g[k]] < Limit[g[k]]
    BY <1>1, <1>6, LimitAssumption DEF EndsItem, Places
  <2>2. QED
    BY <1>1, <1>3, <1>6, <2>1, ProbeTakes DEF turn
<1>7. QED
  BY <1>4, <1>5, <1>6

-----------------------------------------------------------------------------
\* The replies recorded in a sequence of events.
RepliesIn(events) == Cardinality({n \in DOMAIN events : events[n].role = "respondent"})

\* The replies that are allowed after some upsets.
Allowed(g, n) == (n + 1) * Cardinality(Room(g))

Fits(g, place, replied, most) == Open(g, place) /\ replied + Cardinality(Left(g, place)) <= most

Ends(todo) == \E n \in DOMAIN todo : todo[n].role = "completed"

\* The handler has recorded a reply that the memory does not know of yet.
Unsaved(t) ==
  \/ t.pc = "persist" /\ t.todo[1].role # "respondent"
  \/ t.pc \in {"fetch", "put"} /\ t.write = "turn"

\* What the handler will write still fits, with the replies that it will record.
BoundOK(t, g, m, replied, most) ==
  /\ Fits(g, m.place, replied, IF Unsaved(t) THEN most + 1 ELSE most)
  /\ ~m.present => m.place = Start
  /\ t.pc = "replay" \/ (t.pc = "fetch" /\ t.write = "restore") => ~m.present
  /\ t.pc = "replay" => t.write = "restore"
  /\ t.pc = "fetch" /\ t.write = "restore" => t.delta.present
  /\ t.pc = "put" /\ t.write = "restore" => t.base.place = Start /\ t.delta.present
  /\ t.pc = "put" /\ t.write \in {"touch", "restore"} =>
       Fits(g, t.base.place, replied, most) /\ (~t.base.present => t.base.place = Start)
  /\ t.pc = "think" => t.guide = g /\ Fits(g, t.base.place, replied, most)
  /\ t.pc = "persist" /\ t.todo[1].role = "respondent" =>
       replied + 1 <= most /\ (~Ends(t.todo) => Fits(g, t.delta.place, replied + 1, most))
  /\ t.pc = "persist" /\ t.todo[1].role = "interviewer" /\ ~Ends(t.todo) =>
       Fits(g, t.delta.place, replied, most)
  /\ t.pc = "persist" => t.delta.present
  /\ t.pc \in {"fetch", "put"} /\ t.write = "turn" =>
       Fits(g, t.delta.place, replied, most) /\ t.delta.present

BoundInv ==
  guide # <<>> /\ ~IsOver =>
    /\ RepliesIn(log) <= Allowed(guide, upsets)
    /\ \A c \in Clients : BoundOK(client[c], guide, memory, RepliesIn(log), Allowed(guide, upsets))

\* The study is not refined while the interview goes on.
NotRefined == "refine" \notin Upsets

LEMMA RepliesAppend ==
  ASSUME NEW events \in Seq(Events), NEW e \in Events
  PROVE  /\ RepliesIn(events) \in Nat
         /\ RepliesIn(Append(events, e)) =
              IF e.role = "respondent" THEN RepliesIn(events) + 1 ELSE RepliesIn(events)
<1> DEFINE turns == {n \in DOMAIN events : events[n].role = "respondent"}
           more  == Append(events, e)
           last  == Len(events) + 1
<1>1. /\ Len(events) \in Nat /\ DOMAIN events = 1..Len(events)
      /\ Len(more) = last /\ DOMAIN more = 1..last
      /\ \A n \in 1..Len(events) : more[n] = events[n]
      /\ more[last] = e
  BY AppendProperties, LenProperties
<1>2. IsFiniteSet(1..Len(events))
  BY <1>1, FS_Interval
<1>3. IsFiniteSet(turns) /\ last \notin turns
  BY <1>1, <1>2, FS_Subset
<1> HIDE DEF more
<1>4. {n \in DOMAIN more : more[n].role = "respondent"} =
        IF e.role = "respondent" THEN turns \cup {last} ELSE turns
  BY <1>1
<1>5. RepliesIn(events) = Cardinality(turns)
  BY DEF RepliesIn
<1>6. RepliesIn(more) = IF e.role = "respondent" THEN Cardinality(turns \cup {last}) ELSE Cardinality(turns)
  BY <1>4 DEF RepliesIn
<1> HIDE DEF turns
<1>7. Cardinality(turns) \in Nat /\ Cardinality(turns \cup {last}) = Cardinality(turns) + 1
  BY <1>3, FS_CardinalityType, FS_AddElement
<1>8. QED
  BY <1>5, <1>6, <1>7 DEF more

LEMMA RepliesNat ==
  ASSUME NEW events \in Seq(Events)
  PROVE  RepliesIn(events) \in Nat
<1>1. PICK e \in Events : TRUE
  <2>1. [role |-> "completed", order |-> 0, item |-> NoItem, kind |-> "wrap_up", stop |-> FALSE] \in Events
    BY DEF Events
  <2>2. QED
    BY <2>1
<1>2. QED
  BY RepliesAppend

\* An upset allows the whole guide once more.
LEMMA AllowedMore ==
  ASSUME NEW g \in Seq(Items), NEW n \in Nat
  PROVE  /\ Allowed(g, n) \in Nat /\ Cardinality(Room(g)) <= Allowed(g, n)
         /\ Allowed(g, n + 1) = Allowed(g, n) + Cardinality(Room(g))
<1>1. \A r \in Nat : /\ (n + 1) * r \in Nat /\ r <= (n + 1) * r
                     /\ ((n + 1) + 1) * r = (n + 1) * r + r
  <2>1. \A r \in Nat : n * r \in Nat /\ (n + 1) * r = n * r + r /\ ((n + 1) + 1) * r = n * r + r + r
    BY SMT
  <2>2. QED
    BY <2>1
<1>2. Cardinality(Room(g)) \in Nat
  BY LeftFinite
<1>3. QED
  BY <1>1, <1>2 DEF Allowed

LEMMA FitsMore ==
  ASSUME NEW g \in Seq(Items), NEW place, NEW replied \in Nat, NEW most \in Nat, NEW more \in Nat,
         most <= more, Fits(g, place, replied, most)
  PROVE  Fits(g, place, replied, more)
BY LeftFinite DEF Fits

\* With more allowed, what fitted still does.
LEMMA BoundMore ==
  ASSUME NEW g \in Seq(Items), NEW t, NEW m, NEW replied \in Nat, NEW most \in Nat, NEW more \in Nat,
         most <= more, BoundOK(t, g, m, replied, most)
  PROVE  BoundOK(t, g, m, replied, more)
<1>1. \A place : \A r \in Nat : Fits(g, place, r, most) => Fits(g, place, r, more)
  BY FitsMore
<1>2. \A place : Fits(g, place, replied, most + 1) => Fits(g, place, replied, more + 1)
  BY FitsMore
<1>3. replied + 1 \in Nat /\ (replied + 1 <= most => replied + 1 <= more)
  OBVIOUS
<1>4. QED
  BY <1>1, <1>2, <1>3 DEF BoundOK

\* The one handler takes a step that records nothing.
LEMMA BoundStep ==
  ASSUME OneTab, client \in [Clients -> Handlers], NEW c \in Clients, NEW t,
         client' = [client EXCEPT ![c] = t], UNCHANGED <<guide, log, upsets>>, BoundInv,
         guide # <<>> /\ ~IsOver => BoundOK(t, guide, memory', RepliesIn(log), Allowed(guide, upsets))
  PROVE  BoundInv'
<1>1. \A d \in Clients : client'[d] = t
  BY DEF OneTab
<1>2. IsOver' <=> IsOver
  BY DEF IsOver
<1>3. RepliesIn(log)' = RepliesIn(log) /\ Allowed(guide, upsets)' = Allowed(guide, upsets)
  OBVIOUS
<1>4. QED
  BY <1>1, <1>2, <1>3 DEF BoundInv

LEMMA BoundStart == Init => BoundInv
<1> SUFFICES ASSUME Init, guide # <<>> PROVE BoundInv
  BY DEF BoundInv
<1>1. guide \in Seq(Items) /\ log = <<>> /\ upsets = 0 /\ memory.place = Start
      /\ \A c \in Clients : client[c] = Idle
  <2>1. Nothing.place = Start /\ \A n : Opened(n).place = Start
    BY DEF Opened, Nothing
  <2>2. memory.place = Start
    BY <2>1 DEF Init
  <2>3. QED
    BY <2>2, GuideAssumption DEF Init
<1>2. RepliesIn(log) = 0
  <2>1. {n \in DOMAIN log : log[n].role = "respondent"} = {}
    BY <1>1, EmptySeq
  <2>2. QED
    BY <2>1, FS_EmptySet DEF RepliesIn
<1>3. PICK most : most = Allowed(guide, upsets)
  OBVIOUS
<1>4. most \in Nat /\ Cardinality(Room(guide)) <= most /\ Cardinality(Room(guide)) \in Nat
  BY <1>1, <1>3, AllowedMore, LeftFinite
<1>5. Fits(guide, memory.place, 0, most)
  BY <1>1, <1>4, LeftAtStart DEF Fits
<1>6. BoundOK(Idle, guide, memory, 0, most)
  BY <1>1, <1>5 DEF BoundOK, Unsaved, Idle
<1>7. QED
  BY <1>1, <1>2, <1>3, <1>4, <1>6 DEF BoundInv

\* The handler has made its turn.
LEMMA ThinkBound ==
  ASSUME OneTab, TurnsInv, BoundInv, NEW c \in Clients, Think(c)
  PROVE  BoundInv'
<1>1. PICK old, n : old = client[c] /\ n = old.base.turns
  OBVIOUS
<1>2. /\ guide \in Seq(Items) /\ \A i, j \in DOMAIN guide : guide[i] = guide[j] => i = j
      /\ client \in [Clients -> Handlers] /\ HandlerType(old) /\ old.pc = "think"
      /\ UNCHANGED <<guide, log, memory, replies, upsets>> /\ log \in Seq(Events) /\ upsets \in Nat
  BY <1>1, GuideAssumption, SessionAssumption DEF TurnsInv, TypeOK, HandlerType, Think
<1>3. PICK replied, most : replied = RepliesIn(log) /\ most = Allowed(guide, upsets)
  OBVIOUS
<1>4. replied \in Nat /\ most \in Nat
  BY <1>2, <1>3, RepliesNat, AllowedMore
<1>5. PICK said \in Actions, stop \in BOOLEAN :
        LET turn == Turn(old.guide, old.base.place, said, stop)
            done == IF turn.kind = "wrap_up" THEN <<Completed(stop)>> ELSE <<>>
        IN client' = [client EXCEPT ![c] =
             [old EXCEPT !.pc = "persist", !.write = "turn", !.base = Nothing,
                         !.todo = <<Respondent(n + 1), Interviewer(n + 2, turn)>> \o done,
                         !.delta = [present |-> TRUE, turns |-> n + 2, place |-> turn.place]]]
  BY <1>1 DEF Think
<1>6. PICK turn : turn = Turn(old.guide, old.base.place, said, stop)
  OBVIOUS
<1>7. PICK done : done = IF turn.kind = "wrap_up" THEN <<Completed(stop)>> ELSE <<>>
  OBVIOUS
<1>8. PICK first, second, end : first = Respondent(n + 1) /\ second = Interviewer(n + 2, turn) /\ end = Completed(stop)
  OBVIOUS
<1>9. first.role = "respondent" /\ end.role = "completed"
  BY <1>8 DEF Respondent, Completed
<1>10. PICK todo : todo = <<first, second>> \o done
  OBVIOUS
<1>11. todo[1].role = "respondent" /\ (turn.kind = "wrap_up" => Ends(todo))
  <2>1. CASE turn.kind = "wrap_up"
    <3>1. done = <<end>>
      BY <1>7, <1>8, <2>1
    <3>2. <<first, second>> \in Seq({first, second, end}) /\ done \in Seq({first, second, end})
          /\ Len(done) = 1 /\ done[1] = end
      BY <3>1
    <3>3. /\ todo \in Seq({first, second, end}) /\ Len(todo) = 3
          /\ todo[1] = first /\ todo[3] = end
      BY <1>10, <3>2, ConcatProperties
    <3>4. 3 \in DOMAIN todo
      BY <3>3, LenProperties
    <3>5. QED
      BY <1>9, <3>3, <3>4 DEF Ends
  <2>2. CASE turn.kind # "wrap_up"
    <3>1. done = <<>>
      BY <1>7, <2>2
    <3>2. <<first, second>> \in Seq({first, second}) /\ done \in Seq({first, second})
      BY <3>1
    <3>3. todo[1] = first
      BY <1>10, <3>2, ConcatProperties
    <3>4. QED
      BY <1>9, <2>2, <3>3
  <2>3. QED
    BY <2>1, <2>2
<1>12. PICK delta : delta = [present |-> TRUE, turns |-> n + 2, place |-> turn.place]
  OBVIOUS
<1>13. PICK t : t = [old EXCEPT !.pc = "persist", !.write = "turn", !.base = Nothing, !.todo = todo, !.delta = delta]
  OBVIOUS
<1>14. t.pc = "persist" /\ t.write = "turn" /\ t.todo = todo /\ t.delta = delta
  BY <1>2, <1>13 DEF HandlerType, Handlers
<1>15. client' = [client EXCEPT ![c] = t]
  BY <1>5, <1>6, <1>7, <1>8, <1>10, <1>12, <1>13
<1>16. ASSUME guide # <<>>, ~IsOver PROVE BoundOK(t, guide, memory, replied, most)
  <2>1. BoundOK(old, guide, memory, replied, most)
    BY <1>1, <1>3, <1>16 DEF BoundInv
  <2>2. old.guide = guide /\ Fits(guide, old.base.place, replied, most) /\ ~Unsaved(old)
    BY <1>2, <2>1 DEF BoundOK, Unsaved
  <2>3. PICK place : place = old.base.place
    OBVIOUS
  <2>4. place \in Places /\ Open(guide, place) /\ turn = Turn(guide, place, said, stop)
        /\ replied + Cardinality(Left(guide, place)) <= most
    BY <1>2, <1>6, <2>2, <2>3 DEF HandlerType, Handlers, Memories, Fits
  <2>5. turn.kind = "wrap_up" \/
          (Open(guide, turn.place) /\ Cardinality(Left(guide, turn.place)) + 1 <= Cardinality(Left(guide, place)))
    BY <1>2, <1>16, <2>4, TurnTakes
  <2>6. Cardinality(Left(guide, place)) \in Nat \ {0} /\ Cardinality(Left(guide, turn.place)) \in Nat
    BY <1>2, <1>16, <2>4, OpenLeaves, LeftFinite
  <2>7. replied + 1 <= most
    BY <1>4, <2>4, <2>6
  <2>8. ~Ends(todo) => Fits(guide, delta.place, replied + 1, most)
    BY <1>4, <1>11, <1>12, <2>4, <2>5, <2>6 DEF Fits
  <2>9. ~Unsaved(t) /\ t.delta.present
    BY <1>11, <1>12, <1>14 DEF Unsaved
  <2>10. QED
    BY <1>11, <1>14, <2>1, <2>2, <2>7, <2>8, <2>9 DEF BoundOK
<1>17. QED
  BY <1>2, <1>3, <1>15, <1>16, BoundStep

\* The handler appends its next event.
LEMMA PersistBound ==
  ASSUME OneTab, TurnsInv, BoundInv, NEW c \in Clients, Persist(c)
  PROVE  BoundInv'
<1>1. PICK old, todo, e, rest : old = client[c] /\ todo = old.todo /\ e = Head(todo) /\ rest = Tail(todo)
  OBVIOUS
<1>2. /\ guide \in Seq(Items) /\ log \in Seq(Events) /\ upsets \in Nat
      /\ client \in [Clients -> Handlers] /\ HandlerType(old) /\ TurnsOK(old, log) /\ old.pc = "persist"
      /\ UNCHANGED <<guide, memory, replies, upsets>>
  BY <1>1, GuideAssumption, SessionAssumption DEF TurnsInv, TypeOK, HandlerType, Persist
<1>3. /\ todo \in Seq(Events) /\ todo # <<>> /\ TodoOK(todo) /\ old.write = "turn"
  BY <1>1, <1>2 DEF HandlerType, Handlers, TurnsOK
<1>4. log' = Append(log, e)
  BY <1>1 DEF Persist
<1>5. PICK t : t = [old EXCEPT !.todo = rest, !.pc = IF Len(todo) = 1 THEN "fetch" ELSE "persist"]
  OBVIOUS
<1>6. client' = [client EXCEPT ![c] = t]
  BY <1>1, <1>5 DEF Persist
<1>7. /\ t.todo = rest /\ t.delta = old.delta /\ t.write = "turn"
      /\ t.pc = IF Len(todo) = 1 THEN "fetch" ELSE "persist"
  BY <1>2, <1>3, <1>5 DEF HandlerType, Handlers
<1>8. /\ e \in Events /\ e = todo[1] /\ rest \in Seq(Events)
      /\ Len(todo) = 1 <=> rest = <<>>
      /\ e.role = "completed" => rest = <<>>
  BY <1>1, <1>3, TodoTail
<1>9. /\ Len(rest) = Len(todo) - 1 /\ DOMAIN rest = 1..Len(rest) /\ DOMAIN todo = 1..Len(todo)
      /\ Len(todo) \in Nat \ {0} /\ Len(rest) \in Nat
      /\ \A n \in DOMAIN rest : rest[n] = todo[n + 1]
  BY <1>1, <1>3, <1>8, LenProperties, EmptySeq
<1>10. Ends(rest) => Ends(todo)
  BY <1>9 DEF Ends
<1>11. PICK replied, most : replied = RepliesIn(log) /\ most = Allowed(guide, upsets)
  OBVIOUS
<1>12. replied \in Nat /\ most \in Nat
  BY <1>2, <1>11, RepliesNat, AllowedMore
<1>13. RepliesIn(log') = IF e.role = "respondent" THEN replied + 1 ELSE replied
  BY <1>2, <1>4, <1>8, <1>11, RepliesAppend
<1>14. ASSUME guide # <<>>, ~IsOver'
       PROVE  RepliesIn(log') <= most /\ BoundOK(t, guide, memory, RepliesIn(log'), most)
  <2>1. ~IsOver /\ e.role # "completed"
    <3>1. PICK longer : longer = log'
      OBVIOUS
    <3>2. /\ DOMAIN log = 1..Len(log) /\ DOMAIN longer = 1..(Len(log) + 1) /\ Len(log) \in Nat
          /\ \A n \in 1..Len(log) : longer[n] = log[n]
          /\ longer[Len(log) + 1] = e
      BY <1>2, <1>4, <1>8, <3>1, AppendProperties, LenProperties
    <3>3. \A n \in DOMAIN longer : longer[n].role # "completed"
      BY <1>14, <3>1 DEF IsOver
    <3>4. QED
      BY <3>2, <3>3 DEF IsOver
  <2>2. BoundOK(old, guide, memory, replied, most) /\ replied <= most
    BY <1>1, <1>11, <1>14, <2>1 DEF BoundInv
  <2>3. t.delta.present /\ ~memory.present => memory.place = Start
    BY <1>2, <1>7, <2>2 DEF BoundOK
  <2>4. Fits(guide, memory.place, RepliesIn(log'), most + 1)
    <3>1. CASE e.role = "respondent"
      <4>1. Fits(guide, memory.place, replied, most)
        BY <1>1, <1>2, <1>8, <2>2, <3>1 DEF BoundOK, Unsaved
      <4>2. QED
        BY <1>2, <1>12, <1>13, <3>1, <4>1, LeftFinite DEF Fits
    <3>2. CASE e.role # "respondent"
      <4>1. Unsaved(old)
        BY <1>1, <1>2, <1>8, <3>2 DEF Unsaved
      <4>2. QED
        BY <1>13, <2>2, <3>2, <4>1 DEF BoundOK
    <3>3. QED
      BY <3>1, <3>2
  <2>5. CASE e.role = "respondent"
    <3>1. replied + 1 <= most /\ (~Ends(todo) => Fits(guide, old.delta.place, replied + 1, most)) /\ old.delta.present
      BY <1>1, <1>2, <1>8, <2>2, <2>5 DEF BoundOK
    <3>2. 2 \in DOMAIN todo /\ todo[2].role = "interviewer"
      <4>1. PICK n : n = 1
        OBVIOUS
      <4>2. n \in DOMAIN todo /\ todo[n].role = "respondent" /\ n + 1 = 2
        BY <1>8, <1>9, <2>5, <4>1
      <4>3. QED
        BY <1>3, <4>2 DEF TodoOK
    <3>3. rest # <<>> /\ rest[1].role = "interviewer" /\ (~Ends(rest) => ~Ends(todo))
      <4>1. 1 \in DOMAIN rest /\ rest[1] = todo[2] /\ Len(todo) # 1
        BY <1>9, <3>2
      <4>2. ASSUME NEW n \in DOMAIN todo, todo[n].role = "completed" PROVE Ends(rest)
        <5>1. n # 1
          BY <1>8, <2>1, <4>2
        <5>2. PICK m : m = n - 1
          OBVIOUS
        <5>3. m \in DOMAIN rest /\ rest[m] = todo[n]
          BY <1>9, <5>1, <5>2
        <5>4. QED
          BY <4>2, <5>3 DEF Ends
      <4>3. QED
        BY <1>8, <3>2, <4>1, <4>2 DEF Ends
    <3>4. t.pc = "persist" /\ t.todo[1].role = "interviewer" /\ Unsaved(t)
      BY <1>7, <1>8, <3>3 DEF Unsaved
    <3>5. QED
      BY <1>7, <1>13, <2>2, <2>4, <2>5, <3>1, <3>3, <3>4 DEF BoundOK
  <2>6. CASE e.role = "interviewer"
    <3>1. (~Ends(todo) => Fits(guide, old.delta.place, replied, most)) /\ old.delta.present
      BY <1>1, <1>2, <1>8, <2>2, <2>6 DEF BoundOK
    <3>2. CASE rest = <<>>
      <4>1. Len(todo) = 1 /\ t.pc = "fetch"
        BY <1>7, <1>8, <3>2
      <4>2. ~Ends(todo)
        BY <1>8, <1>9, <2>6, <4>1 DEF Ends
      <4>3. QED
        BY <1>7, <1>13, <2>2, <2>4, <2>6, <3>1, <4>1, <4>2 DEF BoundOK, Unsaved
    <3>3. CASE rest # <<>>
      <4>1. Len(todo) # 1 /\ t.pc = "persist"
        BY <1>7, <1>8, <3>3
      <4>2. 2 \in DOMAIN todo
        BY <1>9, <4>1
      <4>3. todo[2].role = "completed" /\ rest[1] = todo[2]
        BY <1>3, <1>8, <1>9, <2>6, <4>2 DEF TodoOK
      <4>4. QED
        BY <1>7, <1>13, <2>2, <2>4, <2>6, <3>1, <4>1, <4>3 DEF BoundOK, Unsaved
    <3>4. QED
      BY <3>2, <3>3
  <2>7. QED
    BY <1>8, <2>1, <2>5, <2>6 DEF Events
<1>15. \A d \in Clients : client'[d] = t
  BY <1>2, <1>6 DEF OneTab
<1>16. QED
  BY <1>2, <1>11, <1>14, <1>15 DEF BoundInv

\* The memory is written.
LEMMA PutBound ==
  ASSUME OneTab, TurnsInv, BoundInv, NEW c \in Clients, Put(c)
  PROVE  BoundInv'
<1>1. PICK old : old = client[c]
  OBVIOUS
<1>2. /\ guide \in Seq(Items) /\ client \in [Clients -> Handlers] /\ HandlerType(old) /\ old.pc = "put"
      /\ memory' = Merged(old.write, old.base, old.delta) /\ UNCHANGED <<guide, log, upsets>>
  BY <1>1, GuideAssumption DEF TurnsInv, TypeOK, HandlerType, Put
<1>3. old.write \in {"touch", "restore", "turn"} /\ old.base \in Memories /\ old.delta \in Memories
  BY <1>2 DEF HandlerType, Handlers
<1>4. PICK t, m : t = [Idle EXCEPT !.pc = old.then] /\ m = memory'
  OBVIOUS
<1>5. client' = [client EXCEPT ![c] = t]
  BY <1>1, <1>4 DEF Put
<1>6. t.pc \in {"idle", "context"} /\ t.write = "none"
  BY <1>2, <1>4 DEF Idle, HandlerType, Handlers
<1>7. PICK replied, most : replied = RepliesIn(log) /\ most = Allowed(guide, upsets)
  OBVIOUS
<1>8. ASSUME guide # <<>>, ~IsOver PROVE BoundOK(t, guide, m, replied, most)
  <2>1. BoundOK(old, guide, memory, replied, most)
    BY <1>1, <1>7, <1>8 DEF BoundInv
  <2>2. Fits(guide, m.place, replied, most) /\ (~m.present => m.place = Start)
    <3>1. CASE old.write = "touch"
      BY <1>2, <1>4, <2>1, <3>1 DEF BoundOK, Merged
    <3>2. CASE old.write = "restore"
      <4>1. old.base.place = Start /\ Fits(guide, old.base.place, replied, most)
        BY <1>2, <2>1, <3>2 DEF BoundOK
      <4>2. m = [old.base EXCEPT !.present = TRUE, !.turns = old.delta.turns,
                                 !.place.coverage = Start.coverage]
        BY <1>2, <1>4, <3>2 DEF Merged
      <4>3. m.present /\ m.place = [old.base.place EXCEPT !.coverage = Start.coverage]
        BY <1>3, <4>2 DEF Memories
      <4>4. m.place = Start
        BY <4>1, <4>3 DEF Start
      <4>5. QED
        BY <4>1, <4>3, <4>4
    <3>3. CASE old.write = "turn"
      BY <1>2, <1>4, <2>1, <3>3 DEF BoundOK, Merged
    <3>4. QED
      BY <1>3, <3>1, <3>2, <3>3
  <2>3. QED
    BY <1>6, <2>2 DEF BoundOK, Unsaved
<1>9. QED
  BY <1>2, <1>4, <1>5, <1>7, <1>8, BoundStep

\* The upsets: each of them allows the whole guide once more.
LEMMA UpsetBound ==
  ASSUME OneTab, TurnsInv, BoundInv, upsets' = upsets + 1, UNCHANGED <<guide, log>>,
         \A c \in Clients : client'[c] = client[c] \/ client'[c] = Idle,
         memory' = memory \/ (memory' = Nothing /\ memory.present /\ client' = client)
  PROVE  BoundInv'
<1>1. guide \in Seq(Items) /\ log \in Seq(Events) /\ upsets \in Nat
  BY GuideAssumption, SessionAssumption DEF TurnsInv, TypeOK
<1>2. PICK replied, most, more : replied = RepliesIn(log) /\ most = Allowed(guide, upsets) /\ more = Allowed(guide, upsets')
  OBVIOUS
<1>3. PICK room : room = Cardinality(Room(guide))
  OBVIOUS
<1>4. replied \in Nat /\ most \in Nat /\ room \in Nat /\ more = most + room /\ more \in Nat /\ most <= more
  <2>1. replied \in Nat /\ room \in Nat
    BY <1>1, <1>2, <1>3, RepliesNat, LeftFinite
  <2>2. PICK u : u = upsets
    OBVIOUS
  <2>3. u \in Nat /\ most = Allowed(guide, u) /\ more = Allowed(guide, u + 1)
    BY <1>1, <1>2, <2>2
  <2>4. most \in Nat /\ more = most + room
    BY <1>1, <1>3, <2>3, AllowedMore
  <2>5. QED
    BY <2>1, <2>4
<1>5. SUFFICES ASSUME guide # <<>>, ~IsOver
               PROVE  replied <= more /\ \A c \in Clients : BoundOK(client'[c], guide, memory', replied, more)
  BY <1>2 DEF BoundInv, IsOver
<1>6. replied <= most /\ \A c \in Clients : BoundOK(client[c], guide, memory, replied, most)
  BY <1>2, <1>5 DEF BoundInv
<1>7. Open(guide, Start) /\ Cardinality(Left(guide, Start)) = room /\ room # 0
  BY <1>1, <1>3, <1>5, LeftAtStart, OpenLeaves
<1>8. ASSUME NEW c \in Clients PROVE BoundOK(client'[c], guide, memory', replied, more)
  <2>1. PICK old, t, m, n : old = client[c] /\ t = client'[c] /\ m = memory /\ n = memory'
    OBVIOUS
  <2>2. BoundOK(old, guide, m, replied, most)
    BY <1>6, <2>1
  <2>3. CASE t = old /\ n = m
    BY <1>1, <1>4, <2>1, <2>2, <2>3, BoundMore
  <2>4. CASE t = Idle /\ n = m
    <3>1. Fits(guide, m.place, replied, most) \/ Fits(guide, m.place, replied, most + 1)
      BY <2>2 DEF BoundOK
    <3>2. Fits(guide, m.place, replied, more)
      BY <1>1, <1>4, <1>7, <3>1, LeftFinite DEF Fits
    <3>3. t.pc = "idle"
      BY <2>4 DEF Idle
    <3>4. QED
      BY <2>1, <2>2, <2>4, <3>2, <3>3 DEF BoundOK, Unsaved
  <2>5. CASE t = old /\ n = Nothing /\ m.present
    <3>1. BoundOK(t, guide, m, replied, more)
      BY <1>1, <1>4, <2>2, <2>5, BoundMore
    <3>2. n.place = Start
      BY <2>5 DEF Nothing
    <3>3. Fits(guide, n.place, replied, more) /\ Fits(guide, n.place, replied, more + 1)
      BY <1>4, <1>6, <1>7, <3>2 DEF Fits
    <3>4. BoundOK(t, guide, n, replied, more)
      BY <2>5, <3>1, <3>2, <3>3 DEF BoundOK
    <3>5. QED
      BY <2>1, <3>4
  <2>6. QED
    BY <2>1, <2>3, <2>4, <2>5
<1>9. QED
  BY <1>4, <1>6, <1>8

LEMMA BoundNext ==
  ASSUME OneTab, NotRefined, TurnsInv, BoundInv, [Next]_vars
  PROVE  BoundInv'
<1>1. /\ client \in [Clients -> Handlers] /\ memory \in Memories
      /\ \A c \in Clients : HandlerType(client[c])
  BY DEF TurnsInv, TypeOK, HandlerType
<1>2. ASSUME NEW c \in Clients, Receive(c) \/ Resume(c) \/ Hydrate(c) \/ Replay(c) \/ Fetch(c) \/ LoadContext(c)
      PROVE  BoundInv'
  <2>1. PICK old, replied, most : old = client[c] /\ replied = RepliesIn(log) /\ most = Allowed(guide, upsets)
    OBVIOUS
  <2>2. old \in Handlers /\ HandlerType(old) /\ UNCHANGED <<guide, log, memory, upsets>>
    BY <1>1, <1>2, <2>1 DEF Receive, Resume, Hydrate, Replay, Fetch, LoadContext, HandlerType
  <2>3. guide # <<>> /\ ~IsOver => BoundOK(old, guide, memory, replied, most)
    BY <2>1 DEF BoundInv
  <2>4. ASSUME NEW t, client' = [client EXCEPT ![c] = t],
               BoundOK(old, guide, memory, replied, most) => BoundOK(t, guide, memory, replied, most)
        PROVE  BoundInv'
    BY <1>1, <2>1, <2>2, <2>3, <2>4, BoundStep
  <2>5. CASE Receive(c) \/ Resume(c)
    <3>1. old.pc = "idle"
      BY <2>1, <2>5 DEF Receive, Resume
    <3>2. PICK t : /\ client' = [client EXCEPT ![c] = t]
                   /\ \/ t = [old EXCEPT !.pc = "hydrate", !.then = "context"]
                      \/ t = [old EXCEPT !.pc = "hydrate"]
      <4>1. CASE Receive(c)
        <5>1. PICK t : t = [old EXCEPT !.pc = "hydrate", !.then = "context"]
          OBVIOUS
        <5>2. client' = [client EXCEPT ![c] = t]
          BY <1>1, <2>1, <4>1, <5>1 DEF Receive
        <5>3. QED
          BY <5>1, <5>2
      <4>2. CASE Resume(c)
        <5>1. PICK t : t = [old EXCEPT !.pc = "hydrate"]
          OBVIOUS
        <5>2. client' = [client EXCEPT ![c] = t]
          BY <1>1, <2>1, <4>2, <5>1 DEF Resume
        <5>3. QED
          BY <5>1, <5>2
      <4>3. QED
        BY <2>5, <4>1, <4>2
    <3>3. t.pc = "hydrate"
      BY <2>2, <3>2 DEF Handlers
    <3>4. BoundOK(old, guide, memory, replied, most) => BoundOK(t, guide, memory, replied, most)
      BY <3>1, <3>3 DEF BoundOK, Unsaved
    <3>5. QED
      BY <2>4, <3>2, <3>4
  <2>6. CASE Hydrate(c)
    <3>1. PICK t : t = [old EXCEPT !.pc    = IF memory.present THEN "fetch" ELSE "replay",
                                   !.write = IF memory.present THEN "touch" ELSE "restore"]
      OBVIOUS
    <3>2. client' = [client EXCEPT ![c] = t] /\ old.pc = "hydrate"
      BY <1>1, <2>1, <2>6, <3>1 DEF Hydrate
    <3>3. /\ t.pc = IF memory.present THEN "fetch" ELSE "replay"
          /\ t.write = IF memory.present THEN "touch" ELSE "restore"
      BY <2>2, <3>1 DEF Handlers
    <3>4. BoundOK(old, guide, memory, replied, most) => BoundOK(t, guide, memory, replied, most)
      BY <3>2, <3>3 DEF BoundOK, Unsaved
    <3>5. QED
      BY <2>4, <3>2, <3>4
  <2>7. CASE Replay(c)
    <3>1. PICK t, history : history = Opened(Cardinality(Turns)) /\ t = [old EXCEPT !.pc = "fetch", !.delta = history]
      OBVIOUS
    <3>2. client' = [client EXCEPT ![c] = t] /\ old.pc = "replay"
      BY <1>1, <2>1, <2>7, <3>1 DEF Replay
    <3>3. t.pc = "fetch" /\ t.write = old.write /\ t.delta = history /\ history.present
      BY <2>2, <3>1 DEF Handlers, Opened, Nothing
    <3>4. BoundOK(old, guide, memory, replied, most) => BoundOK(t, guide, memory, replied, most)
      BY <3>2, <3>3 DEF BoundOK, Unsaved
    <3>5. QED
      BY <2>4, <3>2, <3>4
  <2>8. CASE Fetch(c)
    <3>1. PICK t : t = [old EXCEPT !.pc = "put", !.base = memory]
      OBVIOUS
    <3>2. client' = [client EXCEPT ![c] = t] /\ old.pc = "fetch"
      BY <1>1, <2>1, <2>8, <3>1 DEF Fetch
    <3>3. t.pc = "put" /\ t.base = memory /\ t.write = old.write /\ t.delta = old.delta
      BY <2>2, <3>1 DEF Handlers
    <3>4. BoundOK(old, guide, memory, replied, most) => BoundOK(t, guide, memory, replied, most)
      BY <3>2, <3>3 DEF BoundOK, Unsaved
    <3>5. QED
      BY <2>4, <3>2, <3>4
  <2>9. CASE LoadContext(c)
    <3>1. PICK t : t = [old EXCEPT !.pc = "think", !.guide = guide, !.base = memory]
      OBVIOUS
    <3>2. client' = [client EXCEPT ![c] = t] /\ old.pc = "context"
      BY <1>1, <2>1, <2>9, <3>1 DEF LoadContext
    <3>3. t.pc = "think" /\ t.base = memory /\ t.guide = guide
      BY <2>2, <3>1 DEF Handlers
    <3>4. BoundOK(old, guide, memory, replied, most) => BoundOK(t, guide, memory, replied, most)
      BY <3>2, <3>3 DEF BoundOK, Unsaved
    <3>5. QED
      BY <2>4, <3>2, <3>4
  <2>10. QED
    BY <1>2, <2>5, <2>6, <2>7, <2>8, <2>9
<1>3. ASSUME NEW c \in Clients, ModelFails(c) \/ Abort(c) PROVE BoundInv'
  <2>1. /\ upsets' = upsets + 1 /\ UNCHANGED <<guide, log, memory>>
        /\ client' = [client EXCEPT ![c] = Idle]
    BY <1>3 DEF ModelFails, Abort, Upset
  <2>2. \A d \in Clients : client'[d] = client[d] \/ client'[d] = Idle
    BY <1>1, <2>1
  <2>3. QED
    BY <2>1, <2>2, UpsetBound
<1>4. CASE Expire
  BY <1>4, UpsetBound DEF Expire, Upset
<1>5. CASE Refine
  BY <1>5 DEF Refine, Upset, NotRefined
<1>6. CASE UNCHANGED vars
  BY <1>6 DEF vars, BoundInv, IsOver
<1>7. QED
  BY <1>2, <1>3, <1>4, <1>5, <1>6, PersistBound, PutBound, ThinkBound DEF Next, Handle

\* An interview comes to its end whatever the language model answers: it needs no
\* more replies than the guide leaves room for, and as many again for each time
\* that the model fails, a turn is cut short or the memory is lost.  For one tab,
\* and a study that is not refined meanwhile.
THEOREM RepliesStayBounded ==
  ASSUME OneTab, NotRefined
  PROVE  Spec => []RepliesBounded
<1>1. Init => TurnsInv /\ BoundInv
  BY TurnsStart, BoundStart
<1>2. TurnsInv /\ BoundInv /\ [Next]_vars => TurnsInv' /\ BoundInv'
  BY TurnsNext, BoundNext
<1>3. TurnsInv /\ BoundInv => RepliesBounded
  <2>1. {n \in Turns : log[n].role = "respondent"} = {n \in DOMAIN log : log[n].role = "respondent"}
    BY DEF Turns
  <2>2. QED
    BY <2>1 DEF BoundInv, RepliesBounded, RepliesIn, Allowed
<1>4. QED
  BY <1>1, <1>2, <1>3, PTL DEF Spec
=============================================================================
