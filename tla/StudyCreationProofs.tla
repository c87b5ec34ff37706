------------------------- MODULE StudyCreationProofs -------------------------
(***************************************************************************)
(* Proofs about the page that creates a study, for any guide, any number   *)
(* of turns and of failed calls.                                           *)
(*                                                                         *)
(* A study has the key of the attempt that made it, so there are no more   *)
(* studies than keys that have been drawn.  The page draws one for its     *)
(* first attempt, and another only after a new reason: what was said after *)
(* a failure is something else, or a draft is skipped to from a study that *)
(* exists.                                                                 *)
(*                                                                         *)
(* A bubble that types has a turn under way that writes into it: a turn    *)
(* takes the typing of its bubble with it, whichever way it ends, and      *)
(* writes into no other.                                                   *)
(***************************************************************************)
EXTENDS ResearchConsole, FiniteSetTheorems, SequenceTheorems, TLAPS

PageFields ==
  {"study", "key", "drawn", "spec", "turns", "busy", "failed", "gate", "rounds", "draft", "question",
   "channels", "stage", "abort", "rail", "seen", "editing"}
SendFields == {"st", "turn", "text", "key", "channels", "skip"}

\* A page that differs in nothing that a key depends on.
Alike(p, q) ==
  /\ DOMAIN p = PageFields
  /\ p.key = q.key /\ p.drawn = q.drawn /\ p.study = q.study

Active(s) == sends[s].st # "idle"

\* Keys have been drawn; an attempt has one.
PageTyped ==
  /\ DOMAIN page = PageFields
  /\ page.drawn \in Nat /\ page.key \in 0 .. page.drawn /\ page.study \in Nat
  /\ page.busy \in BOOLEAN
SendsTyped ==
  /\ DOMAIN sends = Creation!Slots
  /\ \A s \in Creation!Slots :
       /\ DOMAIN sends[s] = SendFields
       /\ sends[s].key \in 0 .. page.drawn
       /\ sends[s].st \in {"create", "created"} => sends[s].key # 0

\* Until there is a study, one turn at a time is under way, and none when the
\* page is not busy; the gate has no business with a study that exists.
OneTurn ==
  IF page.study = 0
  THEN /\ \A s, t \in Creation!Slots : Active(s) /\ Active(t) => s = t
       /\ ~page.busy => \A s \in Creation!Slots : ~Active(s)
  ELSE \A s \in Creation!Slots : sends[s].st # "assess"

\* The server has one study of a key.
OneOfEach ==
  /\ IsFiniteSet(made)
  /\ \A c \in made \cup late : c.key \in 1 .. page.drawn
  /\ \A c, d \in made : c.key = d.key => c = d

\* Each key but the first had a reason of its own.
KeysHaveReasons ==
  /\ reasons \in Nat
  /\ page.drawn <= reasons + 1
  /\ page.study = 0 /\ page.key = 0 => page.drawn <= reasons

Attempts == PageTyped /\ SendsTyped /\ OneTurn /\ OneOfEach /\ KeysHaveReasons

-----------------------------------------------------------------------------
\* Looking at the conversation changes nothing that a key depends on.
LEMMA SeenIs ==
  ASSUME NEW p, NEW c, DOMAIN p = PageFields
  PROVE  Alike(Creation!Seen(p, c), p) /\ Creation!Seen(p, c).busy = p.busy
<1>1. Creation!Seen(p, c) = p \/ Creation!Seen(p, c) = [p EXCEPT !.seen = Len(c)]
  BY DEF Creation!Seen
<1>2. QED
  BY <1>1 DEF Alike, PageFields

\* Steps that leave keys, turns and studies alone.
LEMMA RestKeeps ==
  ASSUME Attempts, UNCHANGED <<made, late, sends, reasons>>, Alike(page', page), page'.busy = page.busy
  PROVE  Attempts'
<1>1. PageTyped' /\ SendsTyped'
  BY DEF Attempts, PageTyped, SendsTyped, Alike
<1>2. OneTurn'
  BY DEF Attempts, OneTurn, Active, Alike
<1>3. OneOfEach' /\ KeysHaveReasons'
  BY DEF Attempts, OneOfEach, KeysHaveReasons, Alike
<1>4. QED
  BY <1>1, <1>2, <1>3 DEF Attempts

\* Steps of one turn, which stays under way and wants no study.
LEMMA TurnKeeps ==
  ASSUME Attempts, UNCHANGED <<made, late, reasons>>, Alike(page', page), page'.busy = page.busy,
         NEW s \in Creation!Slots, Active(s), NEW st, st \notin {"idle", "assess", "create", "created"},
         sends' = [sends EXCEPT ![s].st = st]
  PROVE  Attempts'
<1>1. /\ DOMAIN sends' = Creation!Slots
      /\ \A t \in Creation!Slots \ {s} : sends'[t] = sends[t]
      /\ DOMAIN sends'[s] = SendFields /\ sends'[s].st = st /\ sends'[s].key = sends[s].key
  BY DEF Attempts, SendsTyped, SendFields
<1>2. PageTyped' /\ SendsTyped'
  BY <1>1 DEF Attempts, PageTyped, SendsTyped, Alike
<1>3. OneTurn'
  <2>1. \A t \in Creation!Slots : Active(t)' <=> Active(t)
    BY <1>1 DEF Active
  <2>2. \A t \in Creation!Slots : sends[t].st # "assess" => sends'[t].st # "assess"
    BY <1>1
  <2>3. page'.study = page.study /\ page'.busy = page.busy
    BY DEF Alike
  <2>4. QED
    BY <2>1, <2>2, <2>3 DEF Attempts, OneTurn
<1>4. OneOfEach' /\ KeysHaveReasons'
  BY DEF Attempts, OneOfEach, KeysHaveReasons, Alike
<1>5. QED
  BY <1>2, <1>3, <1>4 DEF Attempts

\* A turn ends.
LEMMA EndKeeps ==
  ASSUME Attempts, UNCHANGED <<made, reasons>>,
         NEW s, (s \in Creation!Slots /\ Active(s)) \/ page.study # 0,
         \A c \in late' : c \in late \/ c.key \in 1 .. page.drawn,
         NEW p, NEW c, Alike(p, page), Creation!Ends(s, p, c)
  PROVE  Attempts'
<1> DEFINE q == [p EXCEPT !.busy = FALSE]
<1>1. Alike(q, page) /\ q.busy = FALSE
  BY DEF Alike, PageFields
<1>2. page' = Creation!Seen(q, c) /\ sends' = [sends EXCEPT ![s] = Creation!Idle]
  BY DEF Creation!Ends, Creation!Shows
<1>3. Alike(page', page) /\ page'.busy = FALSE
  <2>1. DOMAIN q = PageFields
    BY <1>1 DEF Alike
  <2> HIDE DEF q
  <2>2. QED
    BY <1>1, <1>2, <2>1, SeenIs DEF Alike
<1>4. /\ DOMAIN sends' = Creation!Slots
      /\ \A t \in Creation!Slots : sends'[t] = IF t = s THEN Creation!Idle ELSE sends[t]
  BY <1>2 DEF Attempts, SendsTyped
<1>5. DOMAIN Creation!Idle = SendFields /\ Creation!Idle.key = 0 /\ Creation!Idle.st = "idle"
  BY DEF Creation!Idle, SendFields
<1>6. PageTyped' /\ SendsTyped'
  <2>1. PageTyped' /\ page'.drawn = page.drawn /\ page.drawn \in Nat
    BY <1>3 DEF Attempts, PageTyped, Alike
  <2>2. ASSUME NEW t \in Creation!Slots
        PROVE  /\ DOMAIN sends'[t] = SendFields /\ sends'[t].key \in 0 .. page.drawn
               /\ sends'[t].st \in {"create", "created"} => sends'[t].key # 0
    <3>1. sends'[t] = Creation!Idle \/ sends'[t] = sends[t]
      BY <1>4, Zenon
    <3>2. QED
      BY <1>5, <2>1, <3>1 DEF Attempts, SendsTyped
  <2>3. QED
    BY <1>4, <2>1, <2>2, Zenon DEF SendsTyped
<1>7. OneTurn'
  <2>1. \A t \in Creation!Slots : Active(t)' <=> Active(t) /\ t # s
    BY <1>4, <1>5 DEF Active
  <2>2. \A t \in Creation!Slots : sends'[t].st = "assess" => sends[t].st = "assess"
    BY <1>4, <1>5
  <2>3. page'.study = page.study
    BY <1>3 DEF Alike
  <2>4. QED
    BY <2>1, <2>2, <2>3 DEF Attempts, OneTurn
<1>8. OneOfEach' /\ KeysHaveReasons'
  BY <1>3 DEF Attempts, OneOfEach, KeysHaveReasons, Alike
<1>9. QED
  BY <1>6, <1>7, <1>8 DEF Attempts

-----------------------------------------------------------------------------
(* Saying something, and skipping to a draft.                              *)

\* The turn that slot s of a page q takes, with the attempt c.
LEMMA SendKeeps ==
  ASSUME Attempts, NEW text, NEW p, NEW c, Alike(p, page), Creation!Send(text, p, c),
         ~page.busy \/ page.study # 0
  PROVE  Attempts'
<1> DEFINE turn == page.turns + 1
           k    == Creation!KeyFor(text)
           q    == [p EXCEPT !.key = k, !.failed = 0, !.turns = turn, !.busy = TRUE]
           r    == IF page.study = 0 THEN Creation!Gated(q) ELSE [q EXCEPT !.abort = Creation!Slot]
           new  == [Creation!Idle EXCEPT !.st = IF page.study = 0 THEN "assess" ELSE "stream", !.turn = turn, !.text = text]
<1>1. /\ page' = Creation!Seen(r, c \o <<Creation!You(turn, text), Creation!Agent(turn)>>)
      /\ sends' = [sends EXCEPT ![Creation!Slot] = new]
      /\ reasons' = IF page.study = 0 /\ page.failed \notin {0, text} THEN reasons + 1 ELSE reasons
      /\ UNCHANGED <<made, late>>
  BY DEF Creation!Send, Creation!Shows
<1>2. /\ DOMAIN q = PageFields /\ q.key = k /\ q.drawn = page.drawn /\ q.study = page.study /\ q.busy = TRUE
  BY DEF Alike, PageFields
<1>3. /\ DOMAIN r = PageFields /\ r.key = k /\ r.drawn = page.drawn /\ r.study = page.study /\ r.busy = TRUE
  <2> HIDE DEF q
  <2>1. CASE page.study = 0
    BY <1>2, <2>1 DEF Creation!Gated, PageFields
  <2>2. CASE page.study # 0
    BY <1>2, <2>2 DEF PageFields
  <2>3. QED
    BY <2>1, <2>2
<1>4. /\ DOMAIN page' = PageFields /\ page'.key = k /\ page'.drawn = page.drawn
      /\ page'.study = page.study /\ page'.busy = TRUE
  <2> HIDE DEF r
  <2>1. QED
    BY <1>1, <1>3, SeenIs DEF Alike
<1>5. /\ DOMAIN new = SendFields /\ new.key = 0
      /\ new.st = IF page.study = 0 THEN "assess" ELSE "stream"
  BY DEF Creation!Idle, SendFields
<1> HIDE DEF q, r, new
<1>6. DOMAIN sends' = Creation!Slots /\ \A t \in Creation!Slots : sends'[t] = IF t = Creation!Slot THEN new ELSE sends[t]
  BY <1>1 DEF Attempts, SendsTyped
<1>7. k \in {0, page.key} /\ (k = 0 => page.key = 0 \/ (page.study = 0 /\ page.failed \notin {0, text}))
  BY DEF Creation!KeyFor
<1> HIDE DEF k
<1>8. PageTyped'
  <2>1. page.drawn \in Nat /\ page.key \in 0 .. page.drawn /\ page.study \in Nat
    BY DEF Attempts, PageTyped
  <2>2. page'.drawn \in Nat /\ page'.key \in 0 .. page'.drawn /\ page'.study \in Nat
    BY <1>4, <1>7, <2>1
  <2>3. page'.busy \in BOOLEAN
    BY <1>4, Zenon
  <2>4. QED
    BY <1>4, <2>2, <2>3, Zenon DEF PageTyped
<1>9. SendsTyped'
  <2>1. page.drawn \in Nat /\ page'.drawn = page.drawn
    BY <1>4 DEF Attempts, PageTyped
  <2>2. ASSUME NEW t \in Creation!Slots
        PROVE  /\ DOMAIN sends'[t] = SendFields /\ sends'[t].key \in 0 .. page.drawn
               /\ sends'[t].st \in {"create", "created"} => sends'[t].key # 0
    <3>1. sends'[t] = new \/ sends'[t] = sends[t]
      BY <1>6, Zenon
    <3>2. QED
      BY <1>5, <2>1, <3>1 DEF Attempts, SendsTyped
  <2>3. QED
    BY <1>6, <2>1, <2>2, Zenon DEF SendsTyped
<1>10. OneTurn'
  <2>1. CASE page.study = 0
    <3>1. \A t \in Creation!Slots : ~Active(t)
      BY <2>1 DEF Attempts, OneTurn, PageTyped
    <3>2. \A t \in Creation!Slots : Active(t)' => t = Creation!Slot
      BY <1>6, <3>1 DEF Active
    <3>3. QED
      BY <1>4, <2>1, <3>2 DEF OneTurn
  <2>2. CASE page.study # 0
    BY <1>4, <1>5, <1>6, <2>2 DEF Attempts, OneTurn
  <2>3. QED
    BY <2>1, <2>2
<1>11. OneOfEach'
  BY <1>1, <1>4 DEF Attempts, OneOfEach
<1>12. KeysHaveReasons'
  BY <1>1, <1>4, <1>7 DEF Attempts, KeysHaveReasons, PageTyped
<1>13. QED
  BY <1>8, <1>9, <1>10, <1>11, <1>12 DEF Attempts

\* The page with a key: the one it has, or the next.
LEMMA KeyedIs ==
  ASSUME NEW p, DOMAIN p = PageFields, p.drawn \in Nat, p.key \in 0 .. p.drawn
  PROVE  LET q == Creation!Keyed(p) IN
         /\ DOMAIN q = PageFields /\ q.study = p.study /\ q.busy = p.busy
         /\ q.drawn \in Nat /\ q.key \in 1 .. q.drawn
         /\ q.drawn = IF p.key = 0 THEN p.drawn + 1 ELSE p.drawn
<1>1. CASE p.key = 0
  BY <1>1 DEF Creation!Keyed, PageFields
<1>2. CASE p.key # 0
  BY <1>2 DEF Creation!Keyed, PageFields
<1>3. QED
  BY <1>1, <1>2

\* A turn comes to the call that makes the study, with the key of its page.
LEMMA CreateKeeps ==
  ASSUME Attempts, UNCHANGED <<made, late>>,
         NEW p, NEW c, Alike(p, page), p.busy = TRUE, page' = Creation!Seen(Creation!Keyed(p), c),
         NEW s, DOMAIN sends' = Creation!Slots,
         \A t \in Creation!Slots \ {s} : sends'[t] = sends[t],
         s \in Creation!Slots =>
           DOMAIN sends'[s] = SendFields /\ sends'[s].st = "create" /\ sends'[s].key = Creation!Keyed(p).key,
         IF page.study = 0 THEN reasons' = reasons /\ \A t \in Creation!Slots : Active(t) => t = s
         ELSE reasons' = reasons + 1
  PROVE  Attempts'
<1> DEFINE q == Creation!Keyed(p)
<1>1. /\ DOMAIN p = PageFields /\ p.study = page.study
      /\ p.drawn = page.drawn /\ page.drawn \in Nat /\ p.key = page.key /\ p.key \in 0 .. p.drawn
      /\ page.study \in Nat
  BY DEF Attempts, PageTyped, Alike
<1>2. /\ DOMAIN q = PageFields /\ q.study = page.study /\ q.busy = TRUE
      /\ q.drawn \in Nat /\ q.key \in 1 .. q.drawn
      /\ q.drawn = IF page.key = 0 THEN page.drawn + 1 ELSE page.drawn
  BY <1>1, KeyedIs
<1> HIDE DEF q
<1>3. /\ DOMAIN page' = PageFields /\ page'.study = page.study /\ page'.busy = TRUE
      /\ page'.drawn = q.drawn /\ page'.key = q.key
  BY <1>2, SeenIs DEF Alike, q
<1>4. q.drawn >= page.drawn
  BY <1>1, <1>2
<1>5. PageTyped'
  <2>1. page'.drawn \in Nat /\ page'.key \in 0 .. page'.drawn /\ page'.study \in Nat
    BY <1>1, <1>2, <1>3
  <2>2. page'.busy \in BOOLEAN
    BY <1>3, Zenon
  <2>3. QED
    BY <1>3, <2>1, <2>2, Zenon DEF PageTyped
<1>6. SendsTyped'
  <2>1. ASSUME NEW t \in Creation!Slots
        PROVE  /\ DOMAIN sends'[t] = SendFields /\ sends'[t].key \in 0 .. page'.drawn
               /\ sends'[t].st \in {"create", "created"} => sends'[t].key # 0
    <3>1. CASE t = s
      <4>1. sends'[t].key = q.key /\ DOMAIN sends'[t] = SendFields
        BY <3>1 DEF q
      <4>2. QED
        BY <1>2, <1>3, <4>1
    <3>2. CASE t # s
      <4>1. sends'[t] = sends[t]
        BY <3>2
      <4>2. QED
        BY <1>1, <1>2, <1>3, <1>4, <4>1 DEF Attempts, SendsTyped
    <3>3. QED
      BY <3>1, <3>2
  <2>2. QED
    BY <2>1, Zenon DEF SendsTyped
<1>7. OneTurn'
  <2>1. CASE page.study = 0
    <3>1. \A t \in Creation!Slots : Active(t)' => t = s
      BY <2>1 DEF Active
    <3>2. QED
      BY <1>3, <2>1, <3>1 DEF OneTurn
  <2>2. CASE page.study # 0
    <3>1. \A t \in Creation!Slots : sends'[t].st # "assess"
      BY <2>2 DEF Attempts, OneTurn
    <3>2. QED
      BY <1>3, <2>2, <3>1 DEF OneTurn
  <2>3. QED
    BY <2>1, <2>2
<1>8. OneOfEach'
  BY <1>1, <1>2, <1>3, <1>4 DEF Attempts, OneOfEach
<1>9. KeysHaveReasons'
  BY <1>1, <1>2, <1>3 DEF Attempts, KeysHaveReasons
<1>10. QED
  BY <1>5, <1>6, <1>7, <1>8, <1>9 DEF Attempts

LEMMA SkipKeeps ==
  ASSUME Attempts, NEW i, Creation!Skip(i)
  PROVE  Attempts'
<1> DEFINE p   == [page EXCEPT !.turns = page.turns + 1, !.busy = TRUE]
           c   == Append(Creation!WithoutChips(i), [Creation!Agent(page.turns + 1) EXCEPT !.says = TRUE])
           q   == Creation!Keyed(p)
           new == [Creation!Idle EXCEPT !.st = "create", !.turn = page.turns + 1, !.key = q.key, !.channels = q.channels, !.skip = TRUE]
<1>1. /\ ~page.busy /\ UNCHANGED <<made, late>>
      /\ page' = Creation!Seen(q, c) /\ sends' = [sends EXCEPT ![Creation!Slot] = new]
      /\ reasons' = IF page.study # 0 THEN reasons + 1 ELSE reasons
  BY DEF Creation!Skip, Creation!Shows
<1>2. Alike(p, page) /\ p.busy = TRUE
  BY DEF Attempts, PageTyped, Alike, PageFields
<1>3. DOMAIN new = SendFields /\ new.st = "create" /\ new.key = q.key
  BY DEF Creation!Idle, SendFields
<1>4. page.study = 0 => \A t \in Creation!Slots : ~Active(t)
  BY <1>1 DEF Attempts, OneTurn
<1>5. DOMAIN sends = Creation!Slots
  BY DEF Attempts, SendsTyped
<1> HIDE DEF p, c, new
<1>6. /\ DOMAIN sends' = Creation!Slots
      /\ \A t \in Creation!Slots \ {Creation!Slot} : sends'[t] = sends[t]
      /\ Creation!Slot \in Creation!Slots => sends'[Creation!Slot] = new
  BY <1>1, <1>5
<1>7. QED
  BY <1>1, <1>2, <1>3, <1>4, <1>6, CreateKeeps

-----------------------------------------------------------------------------
(* A turn of the gate.                                                     *)

LEMMA JudgedKeeps ==
  ASSUME Attempts, UNCHANGED <<made, late, reasons>>,
         NEW s \in Creation!Slots, sends[s].st = "assess", NEW a, Creation!Judged(s, a)
  PROVE  Attempts'
<1> DEFINE draft == Creation!Distilled(a.found)
           p     == [page EXCEPT !.draft = draft]
           ask   == Creation!Question(a.asked, draft)
<1>1. DOMAIN page = PageFields /\ Active(s)
  BY DEF Attempts, PageTyped, Active
<1>2. page.study = 0 /\ page.busy = TRUE /\ \A t \in Creation!Slots : Active(t) => t = s
  BY <1>1 DEF Attempts, OneTurn, PageTyped
<1>3. Alike(p, page) /\ p.busy = TRUE
  BY <1>1, <1>2 DEF Alike, PageFields
<1>4. CASE /\ Creation!Shows(Creation!Keyed(p), Creation!Patched(chat, sends[s].turn, [says |-> TRUE]))
           /\ sends' = [sends EXCEPT ![s].st = "create", ![s].key = Creation!Keyed(p).key, ![s].channels = Creation!Keyed(p).channels]
  <2>1. page' = Creation!Seen(Creation!Keyed(p), Creation!Patched(chat, sends[s].turn, [says |-> TRUE]))
    BY <1>4 DEF Creation!Shows
  <2>2. DOMAIN sends = Creation!Slots /\ DOMAIN sends[s] = SendFields
    BY DEF Attempts, SendsTyped
  <2> DEFINE k == Creation!Keyed(p)
  <2>3. sends' = [sends EXCEPT ![s].st = "create", ![s].key = k.key, ![s].channels = k.channels]
    BY <1>4
  <2> HIDE DEF k, p
  <2>4. /\ DOMAIN sends' = Creation!Slots
        /\ \A t \in Creation!Slots \ {s} : sends'[t] = sends[t]
        /\ DOMAIN sends'[s] = SendFields /\ sends'[s].st = "create" /\ sends'[s].key = k.key
    BY <2>2, <2>3 DEF SendFields
  <2>5. QED
    BY <1>2, <1>3, <2>1, <2>4, CreateKeeps DEF k
<1>5. CASE Creation!Ends(s, [p EXCEPT !.question = ask], Creation!Said(chat, sends[s].turn, a.chips))
  <2>1. Alike([p EXCEPT !.question = ask], page)
    BY <1>3 DEF Alike, PageFields
  <2>2. QED
    BY <1>1, <1>5, <2>1, EndKeeps
<1>6. CASE Creation!Ends(s, [p EXCEPT !.failed = sends[s].text], Creation!Noticed(chat, sends[s].turn))
  <2>1. Alike([p EXCEPT !.failed = sends[s].text], page)
    BY <1>3 DEF Alike, PageFields
  <2>2. QED
    BY <1>1, <1>6, <2>1, EndKeeps
<1>7. QED
  BY <1>4, <1>5, <1>6 DEF Creation!Judged

\* The server makes the study of a call: with a key it knows, none.
LEMMA MadeIs ==
  ASSUME OneOfEach, NEW c, c.key \in 1 .. page.drawn
  PROVE  LET m == Creation!Made(c) IN
         /\ IsFiniteSet(m)
         /\ \A d \in m : d.key \in 1 .. page.drawn
         /\ \A d, e \in m : d.key = e.key => d = e
<1>1. CASE \E m \in made : m.key = c.key
  BY <1>1 DEF OneOfEach, Creation!Made
<1>2. CASE ~\E m \in made : m.key = c.key
  <2>1. Creation!Made(c) = made \cup {c}
    BY <1>2 DEF Creation!Made
  <2>2. IsFiniteSet(made \cup {c})
    BY FS_AddElement DEF OneOfEach
  <2>3. QED
    BY <1>2, <2>1, <2>2 DEF OneOfEach
<1>3. QED
  BY <1>1, <1>2

LEMMA ServeCreateKeeps ==
  ASSUME Attempts, NEW s \in Creation!Slots, Creation!ServeCreate(s)
  PROVE  Attempts'
<1>1. /\ sends[s].st = "create" /\ made' = Creation!Made(Creation!Call(s))
      /\ sends' = [sends EXCEPT ![s].st = "created"] /\ UNCHANGED <<late, page, reasons>>
  BY DEF Creation!ServeCreate
<1>2. page.drawn \in Nat /\ sends[s].key \in 1 .. page.drawn
  <2>1. page.drawn \in Nat /\ sends[s].key \in 0 .. page.drawn /\ sends[s].key # 0
    BY <1>1 DEF Attempts, PageTyped, SendsTyped
  <2>2. QED
    BY <2>1
<1>3. /\ DOMAIN sends' = Creation!Slots /\ DOMAIN sends'[s] = SendFields
      /\ \A t \in Creation!Slots \ {s} : sends'[t] = sends[t]
      /\ sends'[s].st = "created" /\ sends'[s].key = sends[s].key
  BY <1>1 DEF Attempts, SendsTyped, SendFields
<1>4. PageTyped' /\ KeysHaveReasons'
  BY <1>1 DEF Attempts, PageTyped, KeysHaveReasons
<1>5. SendsTyped'
  BY <1>1, <1>2, <1>3 DEF Attempts, SendsTyped
<1>6. OneTurn'
  <2>1. \A t \in Creation!Slots : Active(t)' <=> Active(t)
    BY <1>1, <1>3 DEF Active
  <2>2. \A t \in Creation!Slots : sends[t].st # "assess" => sends'[t].st # "assess"
    BY <1>3
  <2>3. QED
    BY <1>1, <2>1, <2>2 DEF Attempts, OneTurn
<1>7. OneOfEach'
  <2>1. Creation!Call(s).key \in 1 .. page.drawn
    BY <1>2 DEF Creation!Call
  <2>2. /\ IsFiniteSet(made') /\ \A d \in made' : d.key \in 1 .. page.drawn
        /\ \A d, e \in made' : d.key = e.key => d = e
    BY <1>1, <2>1, MadeIs DEF Attempts
  <2>3. QED
    BY <1>1, <2>2 DEF Attempts, OneOfEach
<1>8. QED
  BY <1>4, <1>5, <1>6, <1>7 DEF Attempts

LEMMA ServeLateKeeps ==
  ASSUME Attempts, NEW c \in late, Creation!ServeLate(c)
  PROVE  Attempts'
<1>1. made' = Creation!Made(c) /\ late' = late \ {c} /\ UNCHANGED <<page, sends, reasons>>
  BY DEF Creation!ServeLate
<1>2. PageTyped' /\ SendsTyped' /\ OneTurn' /\ KeysHaveReasons'
  BY <1>1 DEF Attempts, PageTyped, SendsTyped, OneTurn, Active, KeysHaveReasons
<1>3. /\ IsFiniteSet(made') /\ \A d \in made' : d.key \in 1 .. page.drawn
      /\ \A d, e \in made' : d.key = e.key => d = e
  <2>1. c.key \in 1 .. page.drawn
    BY DEF Attempts, OneOfEach
  <2>2. QED
    BY <1>1, <2>1, MadeIs DEF Attempts
<1>4. OneOfEach'
  BY <1>1, <1>3 DEF Attempts, OneOfEach
<1>5. QED
  BY <1>2, <1>4 DEF Attempts

LEMMA CreateLostKeeps ==
  ASSUME Attempts, NEW s \in Creation!Slots, Creation!CreateLost(s)
  PROVE  Attempts'
<1>1. /\ sends[s].st \in {"create", "created"} /\ UNCHANGED <<made, reasons>>
      /\ late' \subseteq late \cup {Creation!Call(s)} /\ Creation!Fails(s)
  BY DEF Creation!CreateLost
<1>2. Creation!Call(s).key \in 1 .. page.drawn
  <2>1. page.drawn \in Nat /\ sends[s].key \in 0 .. page.drawn /\ sends[s].key # 0
    BY <1>1 DEF Attempts, PageTyped, SendsTyped
  <2>2. QED
    BY <2>1 DEF Creation!Call
<1>3. \A c \in late' : c \in late \/ c.key \in 1 .. page.drawn
  BY <1>1, <1>2
<1> DEFINE p == IF sends[s].skip THEN page ELSE [page EXCEPT !.failed = sends[s].text]
<1>4. Alike(p, page)
  BY DEF Attempts, PageTyped, Alike, PageFields
<1>5. Creation!Ends(s, p, Creation!Noticed(chat, sends[s].turn)) /\ Active(s)
  BY <1>1 DEF Creation!Fails, Active
<1> HIDE DEF p
<1>6. QED
  BY <1>1, <1>3, <1>4, <1>5, EndKeeps

\* The page has its study; no other turn is under way.
LEMMA CreatedKeeps ==
  ASSUME Attempts, NEW s \in Creation!Slots, Creation!Created(s)
  PROVE  Attempts'
<1> DEFINE q == [page EXCEPT !.key = 0, !.study = sends[s].key, !.spec.task = page.draft]
<1>1. /\ sends[s].st = "created" /\ page' = Creation!Seen(q, chat)
      /\ sends' = [sends EXCEPT ![s].st = "load"] /\ UNCHANGED <<made, late, reasons>>
  BY DEF Creation!Created, Creation!Shows
<1>2. /\ page.drawn \in Nat /\ page.busy \in BOOLEAN /\ DOMAIN page = PageFields
      /\ sends[s].key \in 1 .. page.drawn
  <2>1. page.drawn \in Nat /\ sends[s].key \in 0 .. page.drawn /\ sends[s].key # 0
    BY <1>1 DEF Attempts, PageTyped, SendsTyped
  <2>2. QED
    BY <2>1 DEF Attempts, PageTyped
<1>3. /\ DOMAIN q = PageFields /\ q.key = 0 /\ q.study = sends[s].key
      /\ q.drawn = page.drawn /\ q.busy = page.busy
  BY <1>2 DEF PageFields
<1> HIDE DEF q
<1>4. /\ DOMAIN page' = PageFields /\ page'.key = 0 /\ page'.study = sends[s].key
      /\ page'.drawn = page.drawn /\ page'.busy = page.busy
  BY <1>1, <1>3, SeenIs DEF Alike
<1>5. /\ DOMAIN sends' = Creation!Slots /\ DOMAIN sends'[s] = SendFields
      /\ \A t \in Creation!Slots \ {s} : sends'[t] = sends[t]
      /\ sends'[s].st = "load" /\ sends'[s].key = sends[s].key
  BY <1>1 DEF Attempts, SendsTyped, SendFields
<1>6. PageTyped'
  <2>1. page'.drawn \in Nat /\ page'.key \in 0 .. page'.drawn /\ page'.study \in Nat
    BY <1>2, <1>4
  <2>2. QED
    BY <1>2, <1>4, <2>1, Zenon DEF PageTyped
<1>7. SendsTyped'
  BY <1>4, <1>5 DEF Attempts, SendsTyped
<1>8. OneTurn'
  <2>1. \A t \in Creation!Slots : sends'[t].st # "assess"
    <3>1. ASSUME NEW t \in Creation!Slots, t # s, sends[t].st = "assess"
          PROVE  FALSE
      <4>1. Active(s) /\ Active(t)
        BY <1>1, <3>1 DEF Active
      <4>2. QED
        BY <3>1, <4>1 DEF Attempts, OneTurn
    <3>2. QED
      BY <1>5, <3>1
  <2>2. page'.study # 0
    BY <1>2, <1>4
  <2>3. QED
    BY <2>1, <2>2 DEF OneTurn
<1>9. OneOfEach'
  BY <1>1, <1>4 DEF Attempts, OneOfEach
<1>10. KeysHaveReasons'
  BY <1>1, <1>2, <1>4 DEF Attempts, KeysHaveReasons
<1>11. QED
  BY <1>6, <1>7, <1>8, <1>9, <1>10 DEF Attempts

LEMMA LoadedKeeps ==
  ASSUME Attempts, NEW s \in Creation!Slots, Creation!Loaded(s)
  PROVE  Attempts'
<1> DEFINE p == [page EXCEPT !.gate = FALSE, !.rounds = 0, !.question = IF sends[s].skip THEN @ ELSE "none"]
           c == Creation!Said(chat, sends[s].turn, "none")
<1>1. Active(s) /\ UNCHANGED <<made, late, reasons>>
  BY DEF Creation!Loaded, Active
<1>2. Alike(p, page)
  BY DEF Attempts, PageTyped, Alike, PageFields
<1>3. CASE Creation!Ends(s, p, c)
  <2> HIDE DEF p
  <2>1. QED
    BY <1>1, <1>2, <1>3, EndKeeps
<1>4. ASSUME NEW blocks, NEW m,
             Creation!Ends(s, [p EXCEPT !.spec = Creation!Merged(@, blocks), !.channels = m.channels], c)
      PROVE  Attempts'
  <2>1. Alike([p EXCEPT !.spec = Creation!Merged(@, blocks), !.channels = m.channels], page)
    BY <1>2 DEF Alike, PageFields
  <2>2. QED
    BY <1>1, <1>4, <2>1, EndKeeps
<1>5. QED
  BY <1>3, <1>4 DEF Creation!Loaded

-----------------------------------------------------------------------------
(* A turn of the refinement, and what is done beside the conversation.     *)

\* Whatever else changes on the page, and who has seen it.
LEMMA LookKeeps ==
  ASSUME Attempts, UNCHANGED <<made, late, sends, reasons>>,
         NEW p, NEW c, Alike(p, page), p.busy = page.busy, page' = p \/ page' = Creation!Seen(p, c)
  PROVE  Attempts'
<1>1. Alike(page', page) /\ page'.busy = page.busy
  BY SeenIs DEF Alike
<1>2. QED
  BY <1>1, RestKeeps

LEMMA StreamKeeps ==
  ASSUME Attempts, NEW s \in Creation!Slots,
         Creation!Delta(s) \/ Creation!SpecPatch(s) \/ Creation!Done(s) \/ Creation!StreamError(s)
           \/ Creation!Closed(s) \/ Creation!Broken(s)
  PROVE  Attempts'
<1>1. DOMAIN page = PageFields
  BY DEF Attempts, PageTyped
<1>2. CASE Creation!Delta(s)
  <2>1. Alike(page, page) /\ UNCHANGED <<made, late, sends, reasons>> /\ page' = page
    BY <1>1, <1>2 DEF Alike, Creation!Delta
  <2>2. QED
    BY <2>1, LookKeeps
<1>3. CASE Creation!SpecPatch(s)
  <2>1. PICK blocks : page' = [page EXCEPT !.spec = Creation!Merged(@, blocks)]
    BY <1>3 DEF Creation!SpecPatch
  <2>2. Alike(page', page) /\ page'.busy = page.busy
    BY <1>1, <2>1 DEF Alike, PageFields
  <2>3. UNCHANGED <<made, late, sends, reasons>>
    BY <1>3 DEF Creation!SpecPatch
  <2>4. QED
    BY <2>2, <2>3, RestKeeps
<1>4. CASE Creation!Done(s)
  <2> DEFINE p == [page EXCEPT !.stage = IF @ = "audience" THEN "closure" ELSE "none"]
  <2>1. PICK c : page' = Creation!Seen(p, c)
    BY <1>4 DEF Creation!Done, Creation!Shows
  <2>2. DOMAIN p = PageFields /\ Alike(p, page) /\ p.busy = page.busy
    BY <1>1 DEF Alike, PageFields
  <2> HIDE DEF p
  <2>3. Alike(page', page) /\ page'.busy = page.busy
    BY <2>1, <2>2, SeenIs DEF Alike
  <2>4. Active(s) /\ sends' = [sends EXCEPT ![s].st = "closing"] /\ UNCHANGED <<made, late, reasons>>
    BY <1>4 DEF Creation!Done, Active
  <2>5. "closing" \notin {"idle", "assess", "create", "created"}
    OBVIOUS
  <2>6. QED
    BY <2>3, <2>4, <2>5, TurnKeeps, Zenon
<1>5. CASE Creation!StreamError(s)
  <2> DEFINE p == [page EXCEPT !.failed = sends[s].text]
  <2>1. PICK c : page' = Creation!Seen(p, c)
    BY <1>5 DEF Creation!StreamError, Creation!Shows
  <2>2. DOMAIN p = PageFields /\ Alike(p, page) /\ p.busy = page.busy
    BY <1>1 DEF Alike, PageFields
  <2> HIDE DEF p
  <2>3. Alike(page', page) /\ page'.busy = page.busy
    BY <2>1, <2>2, SeenIs DEF Alike
  <2>4. Active(s) /\ sends' = [sends EXCEPT ![s].st = "closing"] /\ UNCHANGED <<made, late, reasons>>
    BY <1>5 DEF Creation!StreamError, Active
  <2>5. "closing" \notin {"idle", "assess", "create", "created"}
    OBVIOUS
  <2>6. QED
    BY <2>3, <2>4, <2>5, TurnKeeps, Zenon
<1>6. CASE Creation!Closed(s)
  <2>1. Alike([page EXCEPT !.abort = 0], page)
    BY <1>1 DEF Alike, PageFields
  <2>2. Active(s) /\ Creation!Ends(s, [page EXCEPT !.abort = 0], chat) /\ UNCHANGED <<made, late, reasons>>
    BY <1>6 DEF Creation!Closed, Active
  <2>3. QED
    BY <2>1, <2>2, EndKeeps
<1>7. CASE Creation!Broken(s)
  <2> DEFINE p == [page EXCEPT !.abort = 0, !.failed = sends[s].text]
  <2>1. Alike(p, page)
    BY <1>1 DEF Alike, PageFields
  <2>2. Active(s) /\ Creation!Ends(s, p, Creation!Noticed(chat, sends[s].turn)) /\ UNCHANGED <<made, late, reasons>>
    BY <1>7 DEF Creation!Broken, Active
  <2> HIDE DEF p
  <2>3. QED
    BY <2>1, <2>2, EndKeeps
<1>8. QED
  BY <1>2, <1>3, <1>4, <1>5, <1>6, <1>7

LEMMA AnswerKeeps ==
  ASSUME Attempts, NEW s \in Creation!Slots, Creation!Answer(s)
  PROVE  Attempts'
<1>1. ASSUME Creation!Assessed(s) \/ Creation!AssessedLocally(s) PROVE Attempts'
  <2>1. sends[s].st = "assess" /\ UNCHANGED <<made, late, reasons>> /\ \E a : Creation!Judged(s, a)
    BY <1>1 DEF Creation!Assessed, Creation!AssessedLocally
  <2>2. QED
    BY <2>1, JudgedKeeps
<1>2. QED
  BY <1>1, ServeCreateKeeps, CreateLostKeeps, CreatedKeeps, LoadedKeeps, StreamKeeps DEF Creation!Answer

\* The composer, the chips and the task of the guide.
LEMMA TalkKeeps ==
  ASSUME Attempts,
         \/ Creation!Say \/ Creation!Retry \/ Creation!Stop \/ Creation!SaveTask \/ Creation!LeaveTask
         \/ \E i \in DOMAIN chat : Creation!Choose(i) \/ Creation!Freeform(i) \/ Creation!Skip(i)
         \/ \E f \in Creation!Facets : Creation!EditTask(f)
  PROVE  Attempts'
<1>1. DOMAIN page = PageFields /\ Alike(page, page)
  BY DEF Attempts, PageTyped, Alike
<1>2. CASE Creation!Say
  BY <1>1, <1>2, SendKeeps DEF Creation!Say
<1>3. CASE Creation!Retry
  BY <1>1, <1>3, SendKeeps DEF Creation!Retry
<1>4. CASE Creation!Stop
  <2> DEFINE p == [page EXCEPT !.abort = 0]
  <2>1. Alike(p, page)
    BY <1>1 DEF Alike, PageFields
  <2>2. /\ page.study # 0 /\ UNCHANGED <<made, late, reasons>>
        /\ Creation!Ends(page.abort, p, Creation!Cut(chat, sends[page.abort].turn))
    BY <1>4 DEF Creation!Stop
  <2> HIDE DEF p
  <2>3. QED
    BY <2>1, <2>2, EndKeeps
<1>5. CASE Creation!SaveTask
  <2>1. page.study # 0
    BY <1>5 DEF Creation!SaveTask, Creation!Sheet
  <2>2. PICK task : Creation!Send(page.turns + 1, [page EXCEPT !.editing = "none", !.spec.task = task], chat)
    BY <1>5 DEF Creation!SaveTask
  <2>3. Alike([page EXCEPT !.editing = "none", !.spec.task = task], page)
    BY <1>1 DEF Alike, PageFields
  <2>4. QED
    BY <2>1, <2>2, <2>3, SendKeeps
<1>6. CASE Creation!LeaveTask \/ \E f \in Creation!Facets : Creation!EditTask(f)
  <2>1. (\E f : page' = [page EXCEPT !.editing = f]) /\ UNCHANGED <<made, late, sends, reasons>>
    BY <1>6 DEF Creation!LeaveTask, Creation!EditTask
  <2>2. Alike(page', page) /\ page'.busy = page.busy
    BY <1>1, <2>1 DEF Alike, PageFields
  <2>3. QED
    BY <2>1, <2>2, RestKeeps
<1>7. ASSUME NEW i, Creation!Choose(i) PROVE Attempts'
  <2> DEFINE p == [page EXCEPT !.stage = IF chat[i].chips = "many" THEN "audience" ELSE @]
  <2>1. Alike(p, page)
    BY <1>1 DEF Alike, PageFields
  <2>2. ~page.busy /\ Creation!Send(page.turns + 1, p, Creation!WithoutChips(i))
    BY <1>7 DEF Creation!Choose
  <2> HIDE DEF p
  <2>3. QED
    BY <2>1, <2>2, SendKeeps
<1>8. ASSUME NEW i, Creation!Freeform(i) PROVE Attempts'
  <2>1. /\ page' = [page EXCEPT !.stage = IF chat[i].chips = "many" THEN "audience" ELSE @]
        /\ UNCHANGED <<made, late, sends, reasons>>
    BY <1>8 DEF Creation!Freeform
  <2>2. Alike(page', page) /\ page'.busy = page.busy
    BY <1>1, <2>1 DEF Alike, PageFields
  <2>3. QED
    BY <2>1, <2>2, RestKeeps
<1>9. QED
  BY <1>2, <1>3, <1>4, <1>5, <1>6, <1>7, <1>8, SkipKeeps

LEMMA BesideKeeps ==
  ASSUME Attempts, Creation!Beside
  PROVE  Attempts'
<1>1. DOMAIN page = PageFields /\ Alike(page, page)
  BY DEF Attempts, PageTyped, Alike
<1>2. ASSUME NEW r, Creation!Pin(r) PROVE Attempts'
  <2>1. Alike([page EXCEPT !.rail = r], page) /\ [page EXCEPT !.rail = r].busy = page.busy
    BY <1>1 DEF Alike, PageFields
  <2>2. page' = Creation!Seen([page EXCEPT !.rail = r], chat) /\ UNCHANGED <<made, late, sends, reasons>>
    BY <1>2 DEF Creation!Pin
  <2>3. QED
    BY <2>1, <2>2, LookKeeps
<1>3. ASSUME NEW ch, Creation!ToggleChannel(ch) PROVE Attempts'
  <2>1. Alike(page', page) /\ page'.busy = page.busy
    BY <1>1, <1>3 DEF Alike, PageFields, Creation!ToggleChannel
  <2>2. UNCHANGED <<made, late, sends, reasons>>
    BY <1>3 DEF Creation!ToggleChannel
  <2>3. QED
    BY <2>1, <2>2, RestKeeps
<1>4. ASSUME UNCHANGED <<made, late, sends, reasons>>, page' = page \/ \E c : Creation!Shows(page, c)
      PROVE  Attempts'
  BY <1>1, <1>4, LookKeeps DEF Creation!Shows
<1>5. ASSUME \/ \E f \in Fields : Creation!ChangeSetting(f)
             \/ Creation!OpenSettings \/ Creation!SettingsSaved \/ Creation!Retitle \/ Creation!ShutPreview
             \/ Creation!Answered \/ Creation!Published \/ Creation!AsideFails
      PROVE  Attempts'
  <2>1. UNCHANGED <<made, late, sends, reasons>> /\ (page' = page \/ \E c : Creation!Shows(page, c))
    BY <1>5 DEF Creation!ChangeSetting, Creation!OpenSettings, Creation!SettingsSaved, Creation!Retitle,
                Creation!ShutPreview, Creation!Answered, Creation!Published, Creation!AsideFails
  <2>2. QED
    BY <1>4, <2>1
<1>6. ASSUME Creation!Publish \/ Creation!Export \/ Creation!Simulate \/ Creation!AnotherPersona
      PROVE  Attempts'
  <2>1. \E kind : Creation!Asks(kind)
    BY <1>6 DEF Creation!Publish, Creation!Export, Creation!Simulate, Creation!AnotherPersona
  <2>2. QED
    BY <1>4, <2>1 DEF Creation!Asks
<1>7. QED
  BY <1>2, <1>3, <1>5, <1>6 DEF Creation!Beside

-----------------------------------------------------------------------------
(* The theorem.                                                            *)

LEMMA InitAttempts ==
  ASSUME Init
  PROVE  Attempts
<1>1. /\ made = {} /\ late = {} /\ reasons = 0 /\ page = Creation!NewPage
      /\ sends = [s \in Creation!Slots |-> Creation!Idle]
  BY DEF Init, Creation!Init
<1>2. PageTyped /\ page.study = 0 /\ page.drawn = 0 /\ page.key = 0
  BY <1>1 DEF PageTyped, Creation!NewPage, PageFields
<1>3. SendsTyped /\ OneTurn
  BY <1>1, <1>2 DEF SendsTyped, OneTurn, Active, Creation!Idle, SendFields
<1>4. OneOfEach
  BY <1>1, FS_EmptySet DEF OneOfEach
<1>5. KeysHaveReasons
  BY <1>1, <1>2 DEF KeysHaveReasons
<1>6. QED
  BY <1>2, <1>3, <1>4, <1>5 DEF Attempts

LEMMA NextAttempts ==
  ASSUME Attempts, [Next]_consoleVars
  PROVE  Attempts'
<1>1. CASE UNCHANGED creationVars
  BY <1>1 DEF creationVars, Attempts, PageTyped, SendsTyped, OneTurn, Active, OneOfEach, KeysHaveReasons
<1>2. CASE Creation!Create
  BY <1>2, TalkKeeps, AnswerKeeps, ServeLateKeeps, BesideKeeps DEF Creation!Create
<1>3. UNCHANGED creationVars \/ Creation!Create
  BY DEF Next, consoleVars
<1>4. QED
  BY <1>1, <1>2, <1>3

\* One study of each key: no more studies than keys.
LEMMA NoMoreThanKeys ==
  ASSUME Attempts
  PROVE  Cardinality(made) <= 1 + reasons
<1> DEFINE f == [c \in made |-> c.key]
<1>1. page.drawn \in Nat /\ reasons \in Nat /\ page.drawn <= reasons + 1 /\ IsFiniteSet(made)
  BY DEF Attempts, PageTyped, KeysHaveReasons, OneOfEach
<1>2. IsFiniteSet(1 .. page.drawn) /\ Cardinality(1 .. page.drawn) = page.drawn
  BY <1>1, FS_Interval
<1>3. f \in Injection(made, 1 .. page.drawn)
  BY DEF Injection, IsInjective, Attempts, OneOfEach
<1>4. Cardinality(made) <= page.drawn
  BY <1>2, <1>3, FS_Injection
<1>5. Cardinality(made) \in Nat
  BY <1>1, FS_CardinalityType
<1>6. QED
  BY <1>1, <1>4, <1>5

\* A researcher's reason to make a study makes one, whatever becomes of the
\* calls (studies/new/page.tsx:559-573, 741-744, 974-988).
THEOREM OneStudy == Spec => []RetriesMakeOneStudy
<1>1. Init => Attempts
  BY InitAttempts
<1>2. Attempts /\ [Next]_consoleVars => Attempts'
  BY NextAttempts
<1>3. Attempts => RetriesMakeOneStudy
  BY NoMoreThanKeys DEF RetriesMakeOneStudy
<1>4. QED
  BY <1>1, <1>2, <1>3, PTL DEF Spec

-----------------------------------------------------------------------------
(* The bubbles that type.                                                  *)

BubbleFields == {"by", "turn", "text", "says", "typing", "chips"}

Conversation(c) ==
  /\ \E S : c \in Seq(S)
  /\ \A i \in DOMAIN c : DOMAIN c[i] = BubbleFields /\ (c[i].typing => c[i].by # "you")

\* The turns that bubbles type for.
TypingIn(c) == {c[i].turn : i \in {j \in DOMAIN c : c[j].typing}}

\* A conversation with the bubbles of c, changed in place.
Changed(d, c) ==
  /\ \E S : d \in Seq(S)
  /\ DOMAIN d = DOMAIN c
  /\ \A i \in DOMAIN c : DOMAIN d[i] = BubbleFields /\ d[i].turn = c[i].turn

\* Patches leave a bubble in its place and in its turn.
LEMMA StaysSequence ==
  ASSUME NEW c, \E S : c \in Seq(S), NEW d, d = [i \in DOMAIN c |-> d[i]]
  PROVE  \E T : d \in Seq(T)
<1>1. PICK S : c \in Seq(S)
  OBVIOUS
<1>2. DOMAIN c = 1 .. Len(c) /\ Len(c) \in Nat
  BY <1>1
<1> DEFINE T == {d[i] : i \in DOMAIN c}
<1>3. d \in [1 .. Len(c) -> T]
  BY <1>2
<1>4. d \in Seq(T)
  BY <1>2, <1>3, SeqDef
<1>5. QED
  BY <1>4

LEMMA PatchedIs ==
  ASSUME NEW c, Conversation(c), NEW turn, NEW patch,
         DOMAIN patch \subseteq {"by", "says", "typing", "chips"}
  PROVE  LET d == Creation!Patched(c, turn, patch) IN
         /\ Changed(d, c)
         /\ \A i \in DOMAIN c :
              IF Creation!Mine(c[i], turn)
              THEN \A f \in BubbleFields : d[i][f] = IF f \in DOMAIN patch THEN patch[f] ELSE c[i][f]
              ELSE d[i] = c[i]
<1> DEFINE d == Creation!Patched(c, turn, patch)
<1>1. DOMAIN d = DOMAIN c /\ (\E T : d \in Seq(T))
  <2>1. d = [i \in DOMAIN c |-> d[i]]
    BY DEF Creation!Patched
  <2> HIDE DEF d
  <2>2. DOMAIN d = DOMAIN c
    BY <2>1
  <2>3. QED
    BY <2>1, <2>2, StaysSequence DEF Conversation
<1>2. ASSUME NEW i \in DOMAIN c
      PROVE  /\ DOMAIN d[i] = BubbleFields
             /\ IF Creation!Mine(c[i], turn)
                THEN \A f \in BubbleFields : d[i][f] = IF f \in DOMAIN patch THEN patch[f] ELSE c[i][f]
                ELSE d[i] = c[i]
  BY DEF Creation!Patched, Creation!Patch, Conversation
<1>3. ASSUME NEW i \in DOMAIN c
      PROVE  d[i].turn = c[i].turn
  <2>1. "turn" \notin DOMAIN patch /\ "turn" \in BubbleFields
    BY DEF BubbleFields
  <2> HIDE DEF d
  <2>2. QED
    BY <1>2, <2>1
<1>4. QED
  BY <1>1, <1>2, <1>3, Zenon DEF Changed

\* A conversation that has changed in place: its bubbles type for no other
\* turns, if none starts to type.
LEMMA ChangedTyping ==
  ASSUME NEW c, Conversation(c), NEW d, Changed(d, c),
         \A i \in DOMAIN c : d[i].typing => c[i].typing /\ d[i].by = c[i].by
  PROVE  Conversation(d) /\ TypingIn(d) \subseteq TypingIn(c)
<1>1. Conversation(d)
  BY DEF Conversation, Changed
<1>2. ASSUME NEW i \in DOMAIN d, d[i].typing
      PROVE  d[i].turn \in TypingIn(c)
  BY <1>2 DEF Changed, TypingIn
<1>3. QED
  BY <1>1, <1>2 DEF TypingIn

\* What ends a turn in the conversation, or takes a word in it.
LEMMA PatchedTyping ==
  ASSUME NEW c, Conversation(c), NEW turn, NEW patch,
         DOMAIN patch \subseteq {"by", "says", "typing", "chips"},
         IF "typing" \in DOMAIN patch THEN patch.typing = FALSE ELSE "by" \notin DOMAIN patch
  PROVE  LET d == Creation!Patched(c, turn, patch) IN
         /\ Conversation(d) /\ DOMAIN d = DOMAIN c /\ TypingIn(d) \subseteq TypingIn(c)
         /\ "typing" \in DOMAIN patch => turn \notin TypingIn(d)
<1> DEFINE d == Creation!Patched(c, turn, patch)
<1>1. /\ Changed(d, c)
      /\ \A i \in DOMAIN c :
           IF Creation!Mine(c[i], turn)
           THEN \A f \in BubbleFields : d[i][f] = IF f \in DOMAIN patch THEN patch[f] ELSE c[i][f]
           ELSE d[i] = c[i]
  BY PatchedIs
<1> HIDE DEF d
<1>2. ASSUME NEW i \in DOMAIN c, d[i].typing
      PROVE  c[i].typing /\ d[i].by = c[i].by /\ ("typing" \in DOMAIN patch => d[i].turn # turn)
  <2>1. CASE Creation!Mine(c[i], turn)
    <3>1. "typing" \notin DOMAIN patch
      BY <1>1, <1>2, <2>1 DEF BubbleFields
    <3>2. QED
      BY <1>1, <1>2, <2>1, <3>1 DEF BubbleFields
  <2>2. CASE ~Creation!Mine(c[i], turn)
    <3>1. d[i] = c[i]
      BY <1>1, <2>2
    <3>2. c[i].typing /\ c[i].by # "you"
      BY <1>2, <3>1 DEF Conversation
    <3>3. QED
      BY <2>2, <3>1, <3>2 DEF Creation!Mine
  <2>3. QED
    BY <2>1, <2>2
<1>3. Conversation(d) /\ TypingIn(d) \subseteq TypingIn(c)
  BY <1>1, <1>2, ChangedTyping
<1>4. DOMAIN d = DOMAIN c
  BY <1>1 DEF Changed
<1>5. "typing" \in DOMAIN patch => turn \notin TypingIn(d)
  BY <1>2, <1>4 DEF TypingIn
<1>6. QED
  BY <1>3, <1>4, <1>5 DEF d

\* What loses a bubble, or gets one that does not type.
LEMMA FewerTyping ==
  ASSUME NEW c, Conversation(c), NEW d, \E S : d \in Seq(S),
         \A i \in DOMAIN d : \E j \in DOMAIN c : d[i] = c[j]
  PROVE  Conversation(d) /\ TypingIn(d) \subseteq TypingIn(c)
<1>1. Conversation(d)
  BY DEF Conversation
<1>2. ASSUME NEW i \in DOMAIN d, d[i].typing
      PROVE  d[i].turn \in TypingIn(c)
  <2>1. PICK j \in DOMAIN c : d[i] = c[j]
    OBVIOUS
  <2>2. QED
    BY <1>2, <2>1 DEF TypingIn
<1>3. QED
  BY <1>1, <1>2 DEF TypingIn

LEMMA MoreTyping ==
  ASSUME NEW c, Conversation(c), NEW b, DOMAIN b = BubbleFields, b.typing => b.by # "you"
  PROVE  LET d == Append(c, b) IN
         Conversation(d) /\ TypingIn(d) \subseteq TypingIn(c) \cup (IF b.typing THEN {b.turn} ELSE {})
<1> DEFINE d == Append(c, b)
<1>1. PICK S : c \in Seq(S)
  BY DEF Conversation
<1>2. c \in Seq(S \cup {b})
  BY <1>1
<1>3. /\ d \in Seq(S \cup {b})
      /\ \A i \in DOMAIN d : (i \in DOMAIN c /\ d[i] = c[i]) \/ d[i] = b
  BY <1>2
<1> HIDE DEF d
<1>4. \E T : d \in Seq(T)
  BY <1>3
<1>5. Conversation(d)
  BY <1>3, <1>4 DEF Conversation
<1>6. ASSUME NEW i \in DOMAIN d, d[i].typing
      PROVE  d[i].turn \in TypingIn(c) \cup (IF b.typing THEN {b.turn} ELSE {})
  <2>1. CASE i \in DOMAIN c /\ d[i] = c[i]
    BY <1>6, <2>1 DEF TypingIn
  <2>2. CASE d[i] = b
    BY <1>6, <2>2
  <2>3. QED
    BY <1>3, <2>1, <2>2
<1>7. QED
  BY <1>5, <1>6 DEF TypingIn, d

-----------------------------------------------------------------------------
(* What is said and what is stopped.                                       *)

LEMMA BubblesAre ==
  ASSUME NEW turn, NEW text
  PROVE  /\ DOMAIN Creation!You(turn, text) = BubbleFields /\ Creation!You(turn, text).typing = FALSE
         /\ DOMAIN Creation!Agent(turn) = BubbleFields /\ Creation!Agent(turn).typing = TRUE
         /\ Creation!Agent(turn).by = "agent" /\ Creation!Agent(turn).turn = turn
         /\ DOMAIN Creation!System = BubbleFields /\ Creation!System.typing = FALSE
  BY DEF Creation!You, Creation!Agent, Creation!System, BubbleFields

\* A field of one bubble changes that has to do with neither its turn nor its
\* typing.
LEMMA TouchedTyping ==
  ASSUME NEW c, Conversation(c), NEW d, NEW i,
         \/ d = [c EXCEPT ![i].says = TRUE]
         \/ d = [c EXCEPT ![i].chips = "none"]
  PROVE  Conversation(d) /\ TypingIn(d) \subseteq TypingIn(c)
<1>1. DOMAIN d = DOMAIN c /\ d = [j \in DOMAIN c |-> d[j]]
  OBVIOUS
<1>2. \E S : d \in Seq(S)
  BY <1>1, StaysSequence DEF Conversation
<1>3. ASSUME NEW j \in DOMAIN c
      PROVE  /\ DOMAIN d[j] = BubbleFields /\ d[j].turn = c[j].turn
             /\ d[j].by = c[j].by /\ d[j].typing = c[j].typing
  <2> DEFINE b == c[j]
  <2>1. DOMAIN b = BubbleFields
    BY DEF Conversation
  <2>2. d[j] = b \/ d[j] = [b EXCEPT !.says = TRUE] \/ d[j] = [b EXCEPT !.chips = "none"]
    OBVIOUS
  <2> HIDE DEF b
  <2>3. DOMAIN d[j] = BubbleFields /\ d[j].turn = b.turn /\ d[j].by = b.by /\ d[j].typing = b.typing
    BY <2>1, <2>2 DEF BubbleFields
  <2>4. QED
    BY <2>3 DEF b
<1>4. Changed(d, c)
  BY <1>1, <1>2, <1>3 DEF Changed
<1>5. QED
  BY <1>3, <1>4, ChangedTyping

LEMMA SaidTyping ==
  ASSUME NEW c, Conversation(c), NEW turn, NEW text
  PROVE  LET d == c \o <<Creation!You(turn, text), Creation!Agent(turn)>> IN
         Conversation(d) /\ TypingIn(d) \subseteq TypingIn(c) \cup {turn}
<1>1. PICK a, b : a = Creation!You(turn, text) /\ b = Creation!Agent(turn)
  OBVIOUS
<1>2. /\ DOMAIN a = BubbleFields /\ a.typing = FALSE
      /\ DOMAIN b = BubbleFields /\ b.typing = TRUE /\ b.by = "agent" /\ b.turn = turn
  BY <1>1, BubblesAre
<1>3. PICK e : e = Append(c, a)
  OBVIOUS
<1>4. Conversation(e) /\ TypingIn(e) \subseteq TypingIn(c)
  BY <1>2, <1>3, MoreTyping
<1>5. Conversation(Append(e, b)) /\ TypingIn(Append(e, b)) \subseteq TypingIn(e) \cup {turn}
  BY <1>2, <1>4, MoreTyping
<1>6. c \o <<a, b>> = Append(e, b)
  <2>1. PICK S : c \in Seq(S)
    BY DEF Conversation
  <2>2. c \in Seq(S \cup {a, b}) /\ a \in S \cup {a, b} /\ b \in S \cup {a, b}
    BY <2>1
  <2>3. QED
    BY <1>3, <2>2
<1>7. QED
  BY <1>1, <1>4, <1>5, <1>6

LEMMA FrontTyping ==
  ASSUME NEW c, Conversation(c), c # <<>>
  PROVE  Conversation(Creation!Front(c)) /\ TypingIn(Creation!Front(c)) \subseteq TypingIn(c)
<1>1. PICK S : c \in Seq(S)
  BY DEF Conversation
<1>2. Len(c) \in Nat /\ Len(c) > 0 /\ DOMAIN c = 1 .. Len(c)
  BY <1>1
<1> DEFINE d == SubSeq(c, 1, Len(c) - 1)
<1>3. d \in Seq(S) /\ Len(d) = Len(c) - 1 /\ \A k \in 1 .. Len(c) - 1 : d[k] = c[k]
  BY <1>1, <1>2, SubSeqProperties
<1> HIDE DEF d
<1>4. \A k \in DOMAIN d : d[k] = c[k] /\ k \in DOMAIN c
  BY <1>2, <1>3
<1>5. Conversation(d) /\ TypingIn(d) \subseteq TypingIn(c)
  BY <1>3, <1>4, FewerTyping
<1>6. QED
  BY <1>5 DEF Creation!Front, d

LEMMA UnsentTyping ==
  ASSUME Conversation(chat), NEW text
  PROVE  /\ Conversation(Creation!Unsent(chat, text))
         /\ TypingIn(Creation!Unsent(chat, text)) \subseteq TypingIn(chat)
<1> DEFINE d == IF chat # <<>> /\ Creation!Last(chat).by = "system" THEN Creation!Front(chat) ELSE chat
<1>1. Conversation(d) /\ TypingIn(d) \subseteq TypingIn(chat)
  BY FrontTyping
<1>2. Creation!Unsent(chat, text) = d \/ (d # <<>> /\ Creation!Unsent(chat, text) = Creation!Front(d))
  BY DEF Creation!Unsent
<1> HIDE DEF d
<1>3. QED
  BY <1>1, <1>2, FrontTyping

\* A bubble goes; the others keep their order.
LEMMA RemovedTyping ==
  ASSUME NEW c, Conversation(c), NEW n \in DOMAIN c
  PROVE  Conversation(Creation!RemoveAt(c, n)) /\ TypingIn(Creation!RemoveAt(c, n)) \subseteq TypingIn(c)
<1>1. PICK S : c \in Seq(S)
  BY DEF Conversation
<1>2. n \in 1 .. Len(c) /\ Len(c) \in Nat
  BY <1>1
<1> DEFINE a == SubSeq(c, 1, n - 1)
           b == SubSeq(c, n + 1, Len(c))
<1>3. a \in Seq(S) /\ Len(a) = n - 1 /\ \A k \in 1 .. n - 1 : a[k] = c[k]
  BY <1>1, <1>2, SubSeqProperties
<1>4. b \in Seq(S) /\ Len(b) = Len(c) - n /\ \A k \in 1 .. Len(c) - n : b[k] = c[n + k]
  BY <1>1, <1>2, SubSeqProperties
<1> HIDE DEF a, b
<1>5. /\ a \o b \in Seq(S) /\ Len(a \o b) = Len(c) - 1
      /\ \A k \in 1 .. Len(c) - 1 : (a \o b)[k] = IF k <= n - 1 THEN a[k] ELSE b[k - (n - 1)]
  BY <1>2, <1>3, <1>4, ConcatProperties
<1>6. DOMAIN (a \o b) = 1 .. Len(c) - 1 /\ DOMAIN c = 1 .. Len(c)
  BY <1>1, <1>5
<1>7. ASSUME NEW k \in 1 .. Len(c) - 1
      PROVE  \E j \in DOMAIN c : (a \o b)[k] = c[j]
  <2>1. CASE k <= n - 1
    <3>1. k \in 1 .. n - 1 /\ k \in 1 .. Len(c)
      BY <1>2, <1>7, <2>1
    <3>2. QED
      BY <1>3, <1>5, <1>6, <1>7, <2>1, <3>1
  <2>2. CASE ~(k <= n - 1)
    <3>1. k - (n - 1) \in 1 .. Len(c) - n /\ n + (k - (n - 1)) = k + 1 /\ k + 1 \in 1 .. Len(c)
      BY <1>2, <1>7, <2>2
    <3>2. QED
      BY <1>4, <1>5, <1>6, <1>7, <2>2, <3>1
  <2>3. QED
    BY <2>1, <2>2
<1>8. \E T : a \o b \in Seq(T)
  BY <1>5
<1>9. PICK d : d = a \o b
  OBVIOUS
<1>10. Conversation(d) /\ TypingIn(d) \subseteq TypingIn(c)
  BY <1>6, <1>7, <1>8, <1>9, FewerTyping
<1>11. QED
  BY <1>9, <1>10 DEF Creation!RemoveAt, a, b

LEMMA CutTyping ==
  ASSUME Conversation(chat), NEW turn
  PROVE  LET d == Creation!Cut(chat, turn) IN
         Conversation(d) /\ TypingIn(d) \subseteq TypingIn(chat) \ {turn}
<1> DEFINE patch == [typing |-> FALSE]
           mute == {i \in DOMAIN chat : Creation!Mine(chat[i], turn) /\ ~chat[i].says}
           kept == Creation!Patched(chat, turn, patch)
           n    == CHOOSE i \in mute : TRUE
           d    == Creation!Cut(chat, turn)
<1>1. DOMAIN patch = {"typing"} /\ patch.typing = FALSE
  OBVIOUS
<1>2. d = kept \/ (mute # {} /\ d = Creation!RemoveAt(kept, n))
  BY DEF Creation!Cut
<1>3. mute # {} => n \in DOMAIN chat
  OBVIOUS
<1> HIDE DEF patch, n, d
<1>4. /\ Conversation(kept) /\ DOMAIN kept = DOMAIN chat
      /\ TypingIn(kept) \subseteq TypingIn(chat) /\ turn \notin TypingIn(kept)
  BY <1>1, PatchedTyping
<1> HIDE DEF kept
<1>5. Conversation(d) /\ TypingIn(d) \subseteq TypingIn(kept)
  BY <1>2, <1>3, <1>4, RemovedTyping
<1>6. QED
  BY <1>4, <1>5 DEF d

-----------------------------------------------------------------------------
(* Who types is waited for.                                                *)

\* A turn of the conversation is one of a slot that has been counted; there is
\* room for another when the page is not busy.
Awaited ==
  /\ Conversation(chat)
  /\ page.turns \in Nat /\ page.abort \in {0} \cup Creation!Slots
  /\ ~page.busy => \E s \in Creation!Slots : ~Active(s)
  /\ \A s \in Creation!Slots : Active(s) => sends[s].turn \in 0 .. page.turns
  /\ TypingIn(chat) \subseteq {sends[s].turn : s \in {t \in Creation!Slots : Active(t)}}
  /\ \A s \in Creation!Slots : sends[s].st = "closing" => sends[s].turn \notin TypingIn(chat)

\* Looking at the conversation changes nothing that a turn depends on.
LEMMA LooksAlike ==
  ASSUME NEW p, NEW c, DOMAIN p = PageFields
  PROVE  LET q == Creation!Seen(p, c) IN q.turns = p.turns /\ q.abort = p.abort /\ q.busy = p.busy
<1>1. Creation!Seen(p, c) = p \/ Creation!Seen(p, c) = [p EXCEPT !.seen = Len(c)]
  BY DEF Creation!Seen
<1>2. QED
  BY <1>1 DEF PageFields

\* Steps that leave the turns alone.
LEMMA QuietAwaited ==
  ASSUME Awaited, UNCHANGED sends, Conversation(chat'), TypingIn(chat') \subseteq TypingIn(chat),
         page'.turns = page.turns, page'.abort = page.abort, page'.busy = page.busy
  PROVE  Awaited'
  BY DEF Awaited, Active

\* Steps of one turn, which stays under way.
LEMMA GoesOnAwaited ==
  ASSUME Attempts, Awaited, Conversation(chat'), TypingIn(chat') \subseteq TypingIn(chat),
         page'.turns = page.turns, page'.abort = page.abort, page'.busy = page.busy,
         NEW s \in Creation!Slots, Active(s), NEW r, sends' = [sends EXCEPT ![s] = r],
         r.st # "idle", r.turn = sends[s].turn, r.st = "closing" => r.turn \notin TypingIn(chat')
  PROVE  Awaited'
<1>1. \A t \in Creation!Slots : sends'[t] = IF t = s THEN r ELSE sends[t]
  BY DEF Attempts, SendsTyped
<1>2. \A t \in Creation!Slots : sends'[t].turn = sends[t].turn /\ (Active(t)' <=> Active(t))
  BY <1>1 DEF Active
<1>3. TypingIn(chat') \subseteq {sends'[t].turn : t \in {u \in Creation!Slots : Active(u)'}}
  BY <1>2 DEF Awaited
<1>4. \A t \in Creation!Slots : sends'[t].st = "closing" => sends'[t].turn \notin TypingIn(chat')
  BY <1>1 DEF Awaited
<1>5. \A t \in Creation!Slots : Active(t)' => sends'[t].turn \in 0 .. page'.turns
  BY <1>2 DEF Awaited
<1>6. ~page'.busy => \E t \in Creation!Slots : ~Active(t)'
  BY <1>2 DEF Awaited
<1>7. QED
  BY <1>3, <1>4, <1>5, <1>6 DEF Awaited

\* A turn ends, and types no more.
LEMMA EndAwaited ==
  ASSUME Attempts, Awaited, NEW s \in Creation!Slots, NEW p, DOMAIN p = PageFields, NEW c, Creation!Ends(s, p, c),
         Conversation(c), TypingIn(c) \subseteq TypingIn(chat) \ {sends[s].turn},
         p.turns = page.turns, p.abort \in {0} \cup Creation!Slots
  PROVE  Awaited'
<1> DEFINE q == [p EXCEPT !.busy = FALSE]
<1>1. DOMAIN q = PageFields /\ q.turns = page.turns /\ q.abort = p.abort /\ q.busy = FALSE
  BY DEF PageFields
<1>2. page' = Creation!Seen(q, c) /\ chat' = c /\ sends' = [sends EXCEPT ![s] = Creation!Idle]
  BY DEF Creation!Ends, Creation!Shows
<1> HIDE DEF q
<1>3. page'.turns = page.turns /\ page'.abort \in {0} \cup Creation!Slots /\ page'.busy = FALSE
  BY <1>1, <1>2, LooksAlike
<1>4. \A t \in Creation!Slots : sends'[t] = IF t = s THEN Creation!Idle ELSE sends[t]
  BY <1>2 DEF Attempts, SendsTyped
<1>5. Creation!Idle.st = "idle"
  BY DEF Creation!Idle
<1>6. \A t \in Creation!Slots : (Active(t)' <=> Active(t) /\ t # s) /\ (t # s => sends'[t] = sends[t])
  BY <1>4, <1>5 DEF Active
<1>7. ASSUME NEW n \in TypingIn(chat')
      PROVE  \E t \in Creation!Slots : Active(t)' /\ n = sends'[t].turn
  <2>1. n \in TypingIn(chat) /\ n # sends[s].turn
    BY <1>2, <1>7
  <2>2. PICK t \in Creation!Slots : Active(t) /\ n = sends[t].turn
    BY <2>1 DEF Awaited
  <2>3. QED
    BY <1>6, <2>1, <2>2
<1>8. \A t \in Creation!Slots : sends'[t].st = "closing" => sends'[t].turn \notin TypingIn(chat')
  BY <1>2, <1>4, <1>5 DEF Awaited
<1>9. \A t \in Creation!Slots : Active(t)' => sends'[t].turn \in 0 .. page'.turns
  BY <1>3, <1>6 DEF Awaited
<1>10. QED
  BY <1>2, <1>3, <1>6, <1>7, <1>8, <1>9 DEF Awaited

\* A turn takes a slot.
LEMMA StartAwaited ==
  ASSUME Attempts, Awaited, \E s \in Creation!Slots : ~Active(s),
         NEW c, Conversation(c), TypingIn(c) \subseteq TypingIn(chat) \cup {page.turns + 1},
         NEW p, DOMAIN p = PageFields, p.turns = page.turns + 1, p.busy = TRUE,
         p.abort \in {page.abort, Creation!Slot}, Creation!Shows(p, c),
         NEW r, sends' = [sends EXCEPT ![Creation!Slot] = r], r.st \notin {"idle", "closing"}, r.turn = page.turns + 1
  PROVE  Awaited'
<1>1. Creation!Slot \in Creation!Slots /\ ~Active(Creation!Slot)
  BY DEF Creation!Slot, Active
<1>2. chat' = c /\ page'.turns = page.turns + 1 /\ page'.abort = p.abort /\ page'.busy = TRUE
  BY LooksAlike DEF Creation!Shows
<1>3. \A t \in Creation!Slots : sends'[t] = IF t = Creation!Slot THEN r ELSE sends[t]
  BY <1>1 DEF Attempts, SendsTyped
<1>4. PICK s : s = Creation!Slot
  OBVIOUS
<1>5. /\ s \in Creation!Slots /\ ~Active(s) /\ sends'[s] = r
      /\ \A t \in Creation!Slots \ {s} : sends'[t] = sends[t]
  BY <1>1, <1>3, <1>4
<1>6. page.turns \in Nat
  BY DEF Awaited
<1>7. ASSUME NEW n \in TypingIn(chat')
      PROVE  \E t \in Creation!Slots : Active(t)' /\ n = sends'[t].turn
  <2>1. CASE n = page.turns + 1
    <3>1. Active(s)' /\ n = sends'[s].turn
      BY <1>5, <2>1 DEF Active
    <3>2. QED
      BY <1>5, <3>1
  <2>2. CASE n \in TypingIn(chat)
    <3>1. PICK t \in Creation!Slots : Active(t) /\ n = sends[t].turn
      BY <2>2 DEF Awaited
    <3>2. Active(t)' /\ n = sends'[t].turn
      BY <1>5, <3>1 DEF Active
    <3>3. QED
      BY <3>2
  <2>3. QED
    BY <1>2, <1>7, <2>1, <2>2
<1>8. ASSUME NEW t \in Creation!Slots, sends'[t].st = "closing"
      PROVE  sends'[t].turn \notin TypingIn(chat')
  <2>1. t # s
    BY <1>5, <1>8
  <2>2. sends'[t] = sends[t] /\ Active(t)
    BY <1>5, <1>8, <2>1 DEF Active
  <2>3. sends[t].turn \notin TypingIn(chat) /\ sends[t].turn \in 0 .. page.turns
    BY <1>8, <2>2 DEF Awaited
  <2>4. sends[t].turn # page.turns + 1
    BY <1>6, <2>3
  <2>5. QED
    BY <1>2, <2>2, <2>3, <2>4
<1>9. ASSUME NEW t \in Creation!Slots, Active(t)'
      PROVE  sends'[t].turn \in 0 .. page'.turns
  <2>1. CASE t = s
    BY <1>2, <1>5, <1>6, <2>1
  <2>2. CASE t # s
    <3>1. Active(t) /\ sends'[t] = sends[t]
      BY <1>5, <1>9, <2>2 DEF Active
    <3>2. sends[t].turn \in 0 .. page.turns
      BY <3>1 DEF Awaited
    <3>3. QED
      BY <1>2, <1>6, <3>1, <3>2
  <2>3. QED
    BY <2>1, <2>2
<1>10. page'.abort \in {0} \cup Creation!Slots
  BY <1>1, <1>2 DEF Awaited
<1>11. page'.turns \in Nat
  BY <1>2, <1>6
<1>12. QED
  BY <1>2, <1>7, <1>8, <1>9, <1>10, <1>11 DEF Awaited

-----------------------------------------------------------------------------
(* The steps of the conversation.                                          *)

LEMMA SendAwaited ==
  ASSUME Attempts, Awaited, NEW text, NEW p, Alike(p, page), p.abort = page.abort,
         NEW c, Conversation(c), TypingIn(c) \subseteq TypingIn(chat), Creation!Send(text, p, c)
  PROVE  Awaited'
<1> DEFINE turn == page.turns + 1
           q    == [p EXCEPT !.key = Creation!KeyFor(text), !.failed = 0, !.turns = turn, !.busy = TRUE]
           r    == IF page.study = 0 THEN Creation!Gated(q) ELSE [q EXCEPT !.abort = Creation!Slot]
           d    == c \o <<Creation!You(turn, text), Creation!Agent(turn)>>
           new  == [Creation!Idle EXCEPT !.st = IF page.study = 0 THEN "assess" ELSE "stream", !.turn = turn, !.text = text]
<1>1. /\ \E s \in Creation!Slots : ~Active(s)
      /\ Creation!Shows(r, d) /\ sends' = [sends EXCEPT ![Creation!Slot] = new]
  BY DEF Creation!Send, Active
<1>2. DOMAIN q = PageFields /\ q.turns = turn /\ q.busy = TRUE /\ q.abort = page.abort
  BY DEF Alike, PageFields
<1> HIDE DEF q
<1>3. DOMAIN r = PageFields /\ r.turns = turn /\ r.busy = TRUE /\ r.abort \in {page.abort, Creation!Slot}
  <2>1. CASE page.study = 0
    BY <1>2, <2>1 DEF Creation!Gated, PageFields
  <2>2. CASE page.study # 0
    BY <1>2, <2>2 DEF PageFields
  <2>3. QED
    BY <2>1, <2>2
<1>4. new.st \notin {"idle", "closing"} /\ new.turn = turn
  BY DEF Creation!Idle
<1>5. Conversation(d) /\ TypingIn(d) \subseteq TypingIn(chat) \cup {turn}
  BY SaidTyping
<1> HIDE DEF r, d, new
<1>6. QED
  BY <1>1, <1>3, <1>4, <1>5, StartAwaited

\* The composer, the chips and the task of the guide.
LEMMA TalkAwaited ==
  ASSUME Attempts, Awaited,
         \/ Creation!Say \/ Creation!Retry \/ Creation!SaveTask \/ Creation!LeaveTask
         \/ \E i \in DOMAIN chat : Creation!Choose(i) \/ Creation!Freeform(i)
         \/ \E f \in Creation!Facets : Creation!EditTask(f)
  PROVE  Awaited'
<1>1. Conversation(chat) /\ DOMAIN page = PageFields /\ Alike(page, page)
  BY DEF Awaited, Attempts, PageTyped, Alike
<1>2. CASE Creation!Say
  BY <1>1, <1>2, SendAwaited DEF Creation!Say
<1>3. CASE Creation!Retry
  BY <1>1, <1>3, UnsentTyping, SendAwaited DEF Creation!Retry
<1>4. CASE Creation!SaveTask
  <2>1. PICK task : Creation!Send(page.turns + 1, [page EXCEPT !.editing = "none", !.spec.task = task], chat)
    BY <1>4 DEF Creation!SaveTask
  <2> DEFINE p == [page EXCEPT !.editing = "none", !.spec.task = task]
  <2>2. Alike(p, page) /\ p.abort = page.abort
    BY <1>1 DEF Alike, PageFields
  <2> HIDE DEF p
  <2>3. QED
    BY <1>1, <2>1, <2>2, SendAwaited DEF p
<1>5. ASSUME NEW i, \/ Creation!Choose(i)
                   \/ Creation!Freeform(i)
      PROVE  Awaited'
  <2> DEFINE p == [page EXCEPT !.stage = IF chat[i].chips = "many" THEN "audience" ELSE @]
  <2>1. Alike(p, page) /\ p.abort = page.abort /\ p.turns = page.turns /\ p.busy = page.busy
    BY <1>1 DEF Alike, PageFields
  <2>2. Conversation(Creation!WithoutChips(i)) /\ TypingIn(Creation!WithoutChips(i)) \subseteq TypingIn(chat)
    BY <1>1, TouchedTyping DEF Creation!WithoutChips
  <2>3. \/ Creation!Send(page.turns + 1, p, Creation!WithoutChips(i))
        \/ chat' = Creation!WithoutChips(i) /\ page' = p /\ UNCHANGED sends
    BY <1>5 DEF Creation!Choose, Creation!Freeform
  <2> HIDE DEF p
  <2>4. QED
    BY <2>1, <2>2, <2>3, SendAwaited, QuietAwaited
<1>6. CASE Creation!LeaveTask \/ \E f \in Creation!Facets : Creation!EditTask(f)
  <2>1. (\E f : page' = [page EXCEPT !.editing = f]) /\ UNCHANGED <<chat, sends>>
    BY <1>6 DEF Creation!LeaveTask, Creation!EditTask
  <2>2. page'.turns = page.turns /\ page'.abort = page.abort /\ page'.busy = page.busy
    BY <1>1, <2>1 DEF PageFields
  <2>3. QED
    BY <1>1, <2>1, <2>2, QuietAwaited
<1>7. QED
  BY <1>2, <1>3, <1>4, <1>5, <1>6

LEMMA SkipAwaited ==
  ASSUME Attempts, Awaited, NEW i, Creation!Skip(i)
  PROVE  Awaited'
<1> DEFINE turn == page.turns + 1
           p    == [page EXCEPT !.turns = turn, !.busy = TRUE]
           q    == Creation!Keyed(p)
           b    == [Creation!Agent(turn) EXCEPT !.says = TRUE]
           c    == Append(Creation!WithoutChips(i), b)
           new  == [Creation!Idle EXCEPT !.st = "create", !.turn = turn, !.key = q.key, !.channels = q.channels, !.skip = TRUE]
<1>1. ~page.busy /\ Creation!Shows(q, c) /\ sends' = [sends EXCEPT ![Creation!Slot] = new]
  BY DEF Creation!Skip
<1>2. \E s \in Creation!Slots : ~Active(s)
  BY <1>1 DEF Awaited
<1>3. DOMAIN p = PageFields /\ p.turns = turn /\ p.busy = TRUE /\ p.abort = page.abort
  BY DEF Attempts, PageTyped, PageFields
<1> HIDE DEF p
<1>4. DOMAIN q = PageFields /\ q.turns = turn /\ q.busy = TRUE /\ q.abort = page.abort
  BY <1>3 DEF Creation!Keyed, PageFields
<1>5. new.st \notin {"idle", "closing"} /\ new.turn = turn
  BY DEF Creation!Idle
<1>6. DOMAIN b = BubbleFields /\ b.by # "you" /\ b.turn = turn
  BY DEF Creation!Agent, BubbleFields
<1>7. Conversation(Creation!WithoutChips(i)) /\ TypingIn(Creation!WithoutChips(i)) \subseteq TypingIn(chat)
  BY TouchedTyping DEF Awaited, Creation!WithoutChips
<1> HIDE DEF q, b, new
<1>8. Conversation(c) /\ TypingIn(c) \subseteq TypingIn(chat) \cup {turn}
  BY <1>6, <1>7, MoreTyping
<1> HIDE DEF c
<1>9. QED
  BY <1>1, <1>2, <1>4, <1>5, <1>8, StartAwaited

\* A turn that is stopped is one that streams, or none.
LEMMA StopAwaited ==
  ASSUME Attempts, Awaited, Creation!Stop
  PROVE  Awaited'
<1>1. PICK s : s = page.abort
  OBVIOUS
<1>2. s \in Creation!Slots
  BY <1>1 DEF Awaited, Creation!Stop
<1> DEFINE p == [page EXCEPT !.abort = 0]
           c == Creation!Cut(chat, sends[s].turn)
<1>3. DOMAIN p = PageFields /\ p.turns = page.turns /\ p.abort = 0
  BY DEF Attempts, PageTyped, PageFields
<1>4. Creation!Ends(s, p, c)
  BY <1>1 DEF Creation!Stop
<1>5. Conversation(c) /\ TypingIn(c) \subseteq TypingIn(chat) \ {sends[s].turn}
  BY CutTyping DEF Awaited
<1> HIDE DEF p, c
<1>6. QED
  BY <1>2, <1>3, <1>4, <1>5, EndAwaited

-----------------------------------------------------------------------------
(* The steps of a turn.                                                    *)

\* The notice of a failure, and what is said, end the typing of the turn.
LEMMA EndingTyping ==
  ASSUME Conversation(chat), NEW turn, NEW chips, NEW d,
         d = Creation!Said(chat, turn, chips) \/ d = Creation!Noticed(chat, turn)
  PROVE  Conversation(d) /\ TypingIn(d) \subseteq TypingIn(chat) \ {turn}
<1>1. CASE d = Creation!Said(chat, turn, chips)
  <2> DEFINE patch == [says |-> TRUE, typing |-> FALSE, chips |-> chips]
  <2>1. DOMAIN patch = {"says", "typing", "chips"} /\ patch.typing = FALSE /\ d = Creation!Patched(chat, turn, patch)
    BY <1>1 DEF Creation!Said
  <2> HIDE DEF patch
  <2>2. QED
    BY <2>1, PatchedTyping
<1>2. CASE d = Creation!Noticed(chat, turn)
  <2> DEFINE patch == [by |-> "system", says |-> TRUE, typing |-> FALSE]
  <2>1. DOMAIN patch = {"by", "says", "typing"} /\ patch.typing = FALSE /\ d = Creation!Patched(chat, turn, patch)
    BY <1>2 DEF Creation!Noticed
  <2> HIDE DEF patch
  <2>2. QED
    BY <2>1, PatchedTyping
<1>3. QED
  BY <1>1, <1>2

\* A turn ends with a line that says so, on a page that may differ in what
\* failed, in what is known and in the guide.
LEMMA OverAwaited ==
  ASSUME Attempts, Awaited, NEW s \in Creation!Slots, NEW chips,
         NEW d \in {Creation!Said(chat, sends[s].turn, chips), Creation!Noticed(chat, sends[s].turn)},
         NEW p, DOMAIN p = PageFields, p.turns = page.turns, p.abort \in {0, page.abort}, Creation!Ends(s, p, d)
  PROVE  Awaited'
<1>1. Conversation(d) /\ TypingIn(d) \subseteq TypingIn(chat) \ {sends[s].turn}
  <2>1. PICK turn : turn = sends[s].turn
    OBVIOUS
  <2>2. PICK e : e = d
    OBVIOUS
  <2>3. e = Creation!Said(chat, turn, chips) \/ e = Creation!Noticed(chat, turn)
    BY <2>1, <2>2
  <2>4. Conversation(chat)
    BY DEF Awaited
  <2>5. Conversation(e) /\ TypingIn(e) \subseteq TypingIn(chat) \ {turn}
    BY <2>3, <2>4, EndingTyping
  <2>6. QED
    BY <2>1, <2>2, <2>5
<1>2. p.abort \in {0} \cup Creation!Slots
  BY DEF Awaited
<1>3. QED
  BY <1>1, <1>2, EndAwaited

LEMMA FailsAwaited ==
  ASSUME Attempts, Awaited, NEW s \in Creation!Slots,
         Creation!CreateLost(s) \/ Creation!Broken(s)
  PROVE  Awaited'
<1>1. DOMAIN page = PageFields
  BY DEF Attempts, PageTyped
<1>2. PICK p \in {page, [page EXCEPT !.failed = sends[s].text], [page EXCEPT !.abort = 0, !.failed = sends[s].text]} :
        Creation!Ends(s, p, Creation!Noticed(chat, sends[s].turn))
  BY DEF Creation!CreateLost, Creation!Fails, Creation!Broken
<1>3. DOMAIN p = PageFields /\ p.turns = page.turns /\ p.abort \in {0, page.abort}
  BY <1>1, <1>2 DEF PageFields
<1>4. QED
  BY <1>2, <1>3, OverAwaited

LEMMA JudgedAwaited ==
  ASSUME Attempts, Awaited, NEW s \in Creation!Slots, Active(s), NEW a, Creation!Judged(s, a)
  PROVE  Awaited'
<1> DEFINE draft == Creation!Distilled(a.found)
           q     == Creation!Question(a.asked, draft)
           p     == [page EXCEPT !.draft = draft]
           k     == Creation!Keyed(p)
           patch == [says |-> TRUE]
<1>1. DOMAIN p = PageFields /\ p.turns = page.turns /\ p.abort = page.abort /\ p.busy = page.busy
  BY DEF Attempts, PageTyped, PageFields
<1>2. CASE /\ Creation!Shows(k, Creation!Patched(chat, sends[s].turn, patch))
           /\ sends' = [sends EXCEPT ![s].st = "create", ![s].key = k.key, ![s].channels = k.channels]
  <2>1. DOMAIN k = PageFields /\ k.turns = p.turns /\ k.abort = p.abort /\ k.busy = p.busy
    <3> HIDE DEF p
    <3>1. QED
      BY <1>1 DEF Creation!Keyed, PageFields
  <2>2. DOMAIN patch = {"says"}
    OBVIOUS
  <2> DEFINE r == [sends[s] EXCEPT !.st = "create", !.key = k.key, !.channels = k.channels]
  <2> HIDE DEF patch, k
  <2>3. page'.turns = page.turns /\ page'.abort = page.abort /\ page'.busy = page.busy
    BY <1>1, <1>2, <2>1, LooksAlike DEF Creation!Shows
  <2>4. Conversation(chat') /\ TypingIn(chat') \subseteq TypingIn(chat)
    BY <1>2, <2>2, PatchedTyping DEF Creation!Shows, Awaited
  <2>5. sends' = [sends EXCEPT ![s] = r] /\ r.st = "create" /\ r.turn = sends[s].turn
    BY <1>2 DEF Attempts, SendsTyped, SendFields
  <2> HIDE DEF r
  <2>6. QED
    BY <2>3, <2>4, <2>5, GoesOnAwaited
<1>3. CASE Creation!Ends(s, [p EXCEPT !.question = q], Creation!Said(chat, sends[s].turn, a.chips))
  <2> DEFINE o == [p EXCEPT !.question = q]
  <2>1. DOMAIN o = PageFields /\ o.turns = page.turns /\ o.abort = page.abort
    <3> HIDE DEF p
    <3>1. QED
      BY <1>1 DEF PageFields
  <2> HIDE DEF o
  <2>2. QED
    BY <1>3, <2>1, OverAwaited DEF o
<1>4. CASE Creation!Ends(s, [p EXCEPT !.failed = sends[s].text], Creation!Noticed(chat, sends[s].turn))
  <2> DEFINE o == [p EXCEPT !.failed = sends[s].text]
  <2>1. DOMAIN o = PageFields /\ o.turns = page.turns /\ o.abort = page.abort
    <3> HIDE DEF p
    <3>1. QED
      BY <1>1 DEF PageFields
  <2> HIDE DEF o
  <2>2. QED
    BY <1>4, <2>1, OverAwaited DEF o
<1>5. QED
  BY <1>2, <1>3, <1>4 DEF Creation!Judged

LEMMA LoadedAwaited ==
  ASSUME Attempts, Awaited, NEW s \in Creation!Slots, Creation!Loaded(s)
  PROVE  Awaited'
<1> DEFINE p == [page EXCEPT !.gate = FALSE, !.rounds = 0, !.question = IF sends[s].skip THEN @ ELSE "none"]
<1>1. DOMAIN p = PageFields /\ p.turns = page.turns /\ p.abort = page.abort
  BY DEF Attempts, PageTyped, PageFields
<1> HIDE DEF p
<1>2. PICK o : /\ o = p \/ \E spec, channels : o = [p EXCEPT !.spec = spec, !.channels = channels]
               /\ Creation!Ends(s, o, Creation!Said(chat, sends[s].turn, "none"))
  BY DEF Creation!Loaded, p
<1>3. DOMAIN o = PageFields /\ o.turns = page.turns /\ o.abort = page.abort
  BY <1>1, <1>2 DEF PageFields
<1>4. QED
  BY <1>2, <1>3, OverAwaited

\* The steps that make a study, or whose events go into a bubble.
LEMMA OnwardAwaited ==
  ASSUME Attempts, Awaited, NEW s \in Creation!Slots,
         Creation!ServeCreate(s) \/ Creation!Created(s) \/ Creation!Delta(s) \/ Creation!SpecPatch(s)
  PROVE  Awaited'
<1>1. DOMAIN page = PageFields /\ DOMAIN sends = Creation!Slots /\ DOMAIN sends[s] = SendFields /\ Conversation(chat)
  BY DEF Attempts, PageTyped, SendsTyped, Awaited
<1>2. CASE Creation!ServeCreate(s) \/ Creation!Created(s)
  <2>1. PICK st \in {"created", "load"} : sends' = [sends EXCEPT ![s].st = st]
    BY <1>2 DEF Creation!ServeCreate, Creation!Created
  <2> DEFINE r == [sends[s] EXCEPT !.st = st]
  <2>2. sends' = [sends EXCEPT ![s] = r] /\ r.st = st /\ r.turn = sends[s].turn
    BY <1>1, <2>1 DEF SendFields
  <2> HIDE DEF r
  <2>3. Active(s) /\ chat' = chat
    BY <1>2 DEF Active, Creation!ServeCreate, Creation!Created, Creation!Shows
  <2>4. page'.turns = page.turns /\ page'.abort = page.abort /\ page'.busy = page.busy
    <3> DEFINE p == [page EXCEPT !.key = 0, !.study = sends[s].key, !.spec.task = page.draft]
    <3>1. DOMAIN p = PageFields /\ p.turns = page.turns /\ p.abort = page.abort /\ p.busy = page.busy
      BY <1>1 DEF PageFields
    <3>2. page' = page \/ page' = Creation!Seen(p, chat)
      BY <1>2 DEF Creation!ServeCreate, Creation!Created, Creation!Shows
    <3> HIDE DEF p
    <3>3. QED
      BY <3>1, <3>2, LooksAlike
  <2>5. QED
    BY <1>1, <2>1, <2>2, <2>3, <2>4, GoesOnAwaited
<1>3. CASE Creation!Delta(s)
  <2>1. chat' = chat \/ chat' = [chat EXCEPT ![Len(chat)].says = TRUE]
    BY <1>3 DEF Creation!Delta, Creation!Grown
  <2>2. Conversation(chat') /\ TypingIn(chat') \subseteq TypingIn(chat)
    BY <1>1, <2>1, TouchedTyping
  <2>3. UNCHANGED <<page, sends>>
    BY <1>3 DEF Creation!Delta
  <2>4. QED
    BY <2>2, <2>3, QuietAwaited
<1>4. CASE Creation!SpecPatch(s)
  <2>1. PICK blocks : page' = [page EXCEPT !.spec = Creation!Merged(@, blocks)]
    BY <1>4 DEF Creation!SpecPatch
  <2>2. page'.turns = page.turns /\ page'.abort = page.abort /\ page'.busy = page.busy
    BY <1>1, <2>1 DEF PageFields
  <2>3. UNCHANGED <<chat, sends>>
    BY <1>4 DEF Creation!SpecPatch
  <2>4. QED
    BY <1>1, <2>2, <2>3, QuietAwaited
<1>5. QED
  BY <1>2, <1>3, <1>4

\* The last event of a stream ends the typing, before the stream ends.
LEMMA LastAwaited ==
  ASSUME Attempts, Awaited, NEW s \in Creation!Slots, Creation!Done(s) \/ Creation!StreamError(s)
  PROVE  Awaited'
<1>1. DOMAIN page = PageFields /\ DOMAIN sends = Creation!Slots /\ DOMAIN sends[s] = SendFields /\ Conversation(chat)
  BY DEF Attempts, PageTyped, SendsTyped, Awaited
<1>2. PICK p, patch :
        /\ p = [page EXCEPT !.failed = sends[s].text] \/ \E stage : p = [page EXCEPT !.stage = stage]
        /\ Creation!Shows(p, Creation!Patched(chat, sends[s].turn, patch))
        /\ DOMAIN patch \subseteq {"by", "says", "typing", "chips"} /\ "typing" \in DOMAIN patch /\ patch.typing = FALSE
  <2>1. CASE Creation!StreamError(s)
    <3> DEFINE patch == [by |-> "system", says |-> TRUE, typing |-> FALSE]
    <3>1. DOMAIN patch = {"by", "says", "typing"} /\ patch.typing = FALSE
      OBVIOUS
    <3>2. Creation!Shows([page EXCEPT !.failed = sends[s].text], Creation!Patched(chat, sends[s].turn, patch))
      BY <2>1 DEF Creation!StreamError, Creation!Noticed
    <3> HIDE DEF patch
    <3>3. QED
      BY <3>1, <3>2
  <2>2. CASE Creation!Done(s)
    <3>1. PICK stage, says, chips :
            Creation!Shows([page EXCEPT !.stage = stage],
                           Creation!Patched(chat, sends[s].turn, [says |-> says, typing |-> FALSE, chips |-> chips]))
      BY <2>2 DEF Creation!Done
    <3> DEFINE patch == [says |-> says, typing |-> FALSE, chips |-> chips]
    <3>2. DOMAIN patch = {"says", "typing", "chips"} /\ patch.typing = FALSE
      OBVIOUS
    <3> HIDE DEF patch
    <3>3. QED
      BY <3>1, <3>2 DEF patch
  <2>3. QED
    BY <2>1, <2>2
<1>3. DOMAIN p = PageFields /\ p.turns = page.turns /\ p.abort = page.abort /\ p.busy = page.busy
  BY <1>1, <1>2 DEF PageFields
<1>4. page'.turns = page.turns /\ page'.abort = page.abort /\ page'.busy = page.busy
  BY <1>2, <1>3, LooksAlike DEF Creation!Shows
<1>5. Conversation(chat') /\ TypingIn(chat') \subseteq TypingIn(chat) /\ sends[s].turn \notin TypingIn(chat')
  BY <1>1, <1>2, PatchedTyping DEF Creation!Shows
<1>6. Active(s) /\ sends' = [sends EXCEPT ![s].st = "closing"]
  BY DEF Active, Creation!Done, Creation!StreamError
<1> DEFINE r == [sends[s] EXCEPT !.st = "closing"]
<1>7. sends' = [sends EXCEPT ![s] = r] /\ r.st = "closing" /\ r.turn = sends[s].turn
  BY <1>1, <1>6 DEF SendFields
<1> HIDE DEF r
<1>8. QED
  BY <1>4, <1>5, <1>6, <1>7, GoesOnAwaited

LEMMA ClosedAwaited ==
  ASSUME Attempts, Awaited, NEW s \in Creation!Slots, Creation!Closed(s)
  PROVE  Awaited'
<1> DEFINE p == [page EXCEPT !.abort = 0]
<1>1. DOMAIN p = PageFields /\ p.turns = page.turns /\ p.abort = 0
  BY DEF Attempts, PageTyped, PageFields
<1>2. Creation!Ends(s, p, chat) /\ sends[s].st = "closing"
  BY DEF Creation!Closed
<1>3. Conversation(chat) /\ TypingIn(chat) \subseteq TypingIn(chat) \ {sends[s].turn}
  BY <1>2 DEF Awaited
<1> HIDE DEF p
<1>4. QED
  BY <1>1, <1>2, <1>3, EndAwaited

LEMMA AnswerAwaited ==
  ASSUME Attempts, Awaited, NEW s \in Creation!Slots, Creation!Answer(s)
  PROVE  Awaited'
<1>1. ASSUME Creation!Assessed(s) \/ Creation!AssessedLocally(s) PROVE Awaited'
  <2>1. Active(s) /\ \E a : Creation!Judged(s, a)
    BY <1>1 DEF Creation!Assessed, Creation!AssessedLocally, Active
  <2>2. QED
    BY <2>1, JudgedAwaited
<1>2. QED
  BY <1>1, FailsAwaited, LoadedAwaited, OnwardAwaited, LastAwaited, ClosedAwaited DEF Creation!Answer

\* What is done beside the conversation puts a notice into it, at most.
LEMMA BesideAwaited ==
  ASSUME Attempts, Awaited, Creation!Beside \/ \E c \in late : Creation!ServeLate(c)
  PROVE  Awaited'
<1>1. DOMAIN page = PageFields /\ Conversation(chat)
  BY DEF Attempts, PageTyped, Awaited
<1>2. /\ UNCHANGED sends
      /\ chat' = chat \/ chat' = Append(chat, Creation!System)
      /\ \E p : /\ \/ p = page \/ \E rail : p = [page EXCEPT !.rail = rail]
                   \/ \E channels : p = [page EXCEPT !.channels = channels]
                /\ page' = p \/ \E c : page' = Creation!Seen(p, c)
  <2>1. CASE \E r \in {"open", "shut"} : Creation!Pin(r)
    BY <2>1 DEF Creation!Pin
  <2>2. CASE \E ch \in Creation!ALL_CHANNELS : Creation!ToggleChannel(ch)
    BY <2>2 DEF Creation!ToggleChannel
  <2>3. CASE \/ \E f \in Fields : Creation!ChangeSetting(f)
             \/ Creation!OpenSettings \/ Creation!SettingsSaved \/ Creation!Retitle
             \/ Creation!ShutPreview \/ Creation!Published \/ \E c \in late : Creation!ServeLate(c)
    BY <2>3 DEF Creation!ChangeSetting, Creation!OpenSettings, Creation!SettingsSaved, Creation!Retitle,
                Creation!ShutPreview, Creation!Published, Creation!ServeLate
  <2>4. CASE Creation!Publish \/ Creation!Export \/ Creation!Simulate \/ Creation!AnotherPersona
    BY <2>4 DEF Creation!Publish, Creation!Export, Creation!Simulate, Creation!AnotherPersona, Creation!Asks
  <2>5. CASE Creation!Answered
    BY <2>5 DEF Creation!Answered, Creation!Shows
  <2>6. CASE Creation!AsideFails
    BY <2>6 DEF Creation!AsideFails, Creation!Shows
  <2>7. QED
    BY <2>1, <2>2, <2>3, <2>4, <2>5, <2>6 DEF Creation!Beside
<1>3. PICK p : /\ DOMAIN p = PageFields /\ p.turns = page.turns /\ p.abort = page.abort /\ p.busy = page.busy
               /\ page' = p \/ \E c : page' = Creation!Seen(p, c)
  BY <1>1, <1>2 DEF PageFields
<1>4. page'.turns = page.turns /\ page'.abort = page.abort /\ page'.busy = page.busy
  BY <1>3, LooksAlike
<1>5. Conversation(chat') /\ TypingIn(chat') \subseteq TypingIn(chat)
  <2>1. PICK b : b = Creation!System
    OBVIOUS
  <2>2. DOMAIN b = BubbleFields /\ b.typing = FALSE /\ chat' \in {chat, Append(chat, b)}
    BY <1>2, <2>1, BubblesAre
  <2>3. QED
    BY <1>1, <2>2, MoreTyping
<1>6. QED
  BY <1>2, <1>4, <1>5, QuietAwaited

-----------------------------------------------------------------------------
LEMMA InitAwaited ==
  ASSUME Init
  PROVE  Awaited
<1>1. chat = <<Creation!System>> /\ page = Creation!NewPage /\ sends = [s \in Creation!Slots |-> Creation!Idle]
  BY DEF Init, Creation!Init
<1>2. PICK b : b = Creation!System /\ DOMAIN b = BubbleFields /\ b.typing = FALSE
  BY BubblesAre
<1>3. chat \in Seq({b}) /\ DOMAIN chat = {1} /\ chat[1] = b
  BY <1>1, <1>2
<1>4. \E S : chat \in Seq(S)
  BY <1>3
<1>5. Conversation(chat) /\ TypingIn(chat) = {}
  BY <1>2, <1>3, <1>4 DEF Conversation, TypingIn
<1>6. page.turns = 0 /\ page.abort = 0
  BY <1>1 DEF Creation!NewPage
<1>7. \A s \in Creation!Slots : sends[s].st = "idle"
  BY <1>1 DEF Creation!Idle
<1>8. 1 \in Creation!Slots
  BY DEF Creation!Slots
<1>9. QED
  BY <1>5, <1>6, <1>7, <1>8 DEF Awaited, Active

LEMMA NextAwaited ==
  ASSUME Attempts, Awaited, [Next]_consoleVars
  PROVE  Awaited'
<1>1. CASE UNCHANGED creationVars
  <2>1. chat' = chat /\ page' = page /\ sends' = sends
    BY <1>1 DEF creationVars
  <2>2. Conversation(chat') /\ TypingIn(chat') \subseteq TypingIn(chat)
    BY <2>1 DEF Awaited
  <2>3. QED
    BY <2>1, <2>2, QuietAwaited
<1>2. CASE Creation!Create
  BY <1>2, TalkAwaited, SkipAwaited, StopAwaited, AnswerAwaited, BesideAwaited DEF Creation!Create
<1>3. UNCHANGED creationVars \/ Creation!Create
  BY DEF Next, consoleVars
<1>4. QED
  BY <1>1, <1>2, <1>3

\* A bubble that types has a turn under way that writes into it.
THEOREM TypingEnds == Spec => []TypingIsAwaited
<1>1. Init => Attempts /\ Awaited
  BY InitAttempts, InitAwaited
<1>2. Attempts /\ Awaited /\ [Next]_consoleVars => Attempts' /\ Awaited'
  BY NextAttempts, NextAwaited
<1>3. Attempts /\ Awaited => TypingIsAwaited
  <2>1. SUFFICES ASSUME Awaited, NEW i \in DOMAIN chat, chat[i].typing
                 PROVE  \E s \in Creation!Slots : sends[s].st # "idle" /\ sends[s].turn = chat[i].turn
    BY DEF TypingIsAwaited
  <2>2. chat[i].turn \in TypingIn(chat)
    BY <2>1 DEF TypingIn
  <2>3. QED
    BY <2>1, <2>2 DEF Awaited, Active
<1>4. QED
  BY <1>1, <1>2, <1>3, PTL DEF Spec
=============================================================================
