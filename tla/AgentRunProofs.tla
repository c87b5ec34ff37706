--------------------------- MODULE AgentRunProofs ---------------------------
(***************************************************************************)
(* Proofs about AgentRun and AgentStream, for any calls, turns and         *)
(* failures.                                                               *)
(*                                                                         *)
(* An outward action happens only under an approval, with any number of    *)
(* servers: a call that a driver has been allowed is approved, an approved *)
(* confirmation is never written again, and the one that Ask writes is of  *)
(* a call that nobody has asked about (DriverOK, Disjoint).                *)
(*                                                                         *)
(* With one server, the status of an ended run says what its last event    *)
(* says, and nothing follows: a driver that is about to write a final      *)
(* status has yielded, or is still to yield, the event that says the same  *)
(* (WordFits), and once a status is written nobody drives the run (EInv).  *)
(*                                                                         *)
(* The panel shows the events in their order: a log only grows, and what   *)
(* has been shown is its beginning up to the cursor (PanelInv).            *)
(*                                                                         *)
(* With one server, the model is told of every effect: an effect belongs   *)
(* to a call that has been announced in the log, a driver adds what it has *)
(* done to the conversation before it asks again, and a conversation that  *)
(* is rebuilt from the log answers every announced call, unless the run is *)
(* given up (KInv, RebuiltKnows).                                          *)
(***************************************************************************)
EXTENDS AgentStream, WellFoundedInduction, TLAPS

Answered3 == {"none", "pending", "approved", "denied"}

\* d has the fields of a driver, whatever is in them.
Fields == {"pc", "turn", "convo", "calls", "allowed", "outcome", "out", "final"}
IsDriver(d) == d = [f \in Fields |-> d[f]]

\* What the batch of a driver says of the confirmations conf.
BatchOK(calls, allowed, outcome, pc, conf) ==
  /\ calls \in Seq(Calls) /\ allowed \in Seq(BOOLEAN)
  /\ IsInjective(calls)
  /\ Len(allowed) <= Len(calls)
  /\ pc = "waiting" => Len(allowed) < Len(calls)
  /\ \A n \in DOMAIN allowed :
       allowed[n] /\ calls[n] \in Outward => conf[calls[n]] = "approved"
  /\ pc = "asking" => \A n \in DOMAIN calls : n > Len(allowed) => conf[calls[n]] = "none"
  /\ pc = "waiting" => \A n \in DOMAIN calls : n > Len(allowed) + 1 => conf[calls[n]] = "none"
  /\ outcome \in Seq(Answers \union {"none"})
  /\ \A n \in DOMAIN outcome :
       outcome[n] = "none" => pc = "executing" /\ n \in DOMAIN allowed /\ allowed[n]
  /\ pc = "executing" => DOMAIN outcome = DOMAIN calls

DriverOK(d, conf) == IsDriver(d) /\ BatchOK(d.calls, d.allowed, d.outcome, d.pc, conf)

\* No two servers have the same call in their batches.
Disjoint ==
  \A s, t \in Servers : s # t =>
    \A m \in DOMAIN drive[s].calls, n \in DOMAIN drive[t].calls :
      drive[s].calls[m] # drive[t].calls[n]

Shape ==
  /\ confirmation \in [Calls -> Answered3] /\ performed \subseteq Calls
  /\ drive = [s \in Servers |-> drive[s]]

IInv ==
  /\ Shape /\ Disjoint
  /\ \A s \in Servers : DriverOK(drive[s], confirmation)
  /\ ActsOnlyIfApproved

-----------------------------------------------------------------------------
LEMMA GoesThere ==
  ASSUME Shape, NEW s \in Servers, NEW d, Goes(s, d)
  PROVE  /\ drive' = [t \in Servers |-> drive'[t]]
         /\ drive'[s] = d
         /\ \A t \in Servers : t # s => drive'[t] = drive[t]
  BY DEF Shape, Goes

\* Decisions already taken are all that a batch depends on.
LEMMA BatchKept ==
  ASSUME NEW calls, NEW allowed, NEW outcome, NEW pc, NEW conf, NEW next,
         BatchOK(calls, allowed, outcome, pc, conf),
         \A n \in DOMAIN calls : conf[calls[n]] \in {"none", "approved"} => next[calls[n]] = conf[calls[n]]
  PROVE  BatchOK(calls, allowed, outcome, pc, next)
<1>1. DOMAIN allowed \subseteq DOMAIN calls
  BY DEF BatchOK
<1>2. QED
  BY <1>1 DEF BatchOK

\* A batch that is empty says nothing.
LEMMA EmptyBatch ==
  ASSUME NEW pc, pc # "waiting", NEW conf
  PROVE  BatchOK(<<>>, <<>>, <<>>, pc, conf)
  BY DEF BatchOK, IsInjective

LEMMA IdleOK == IsDriver(Idle)
  BY DEF IsDriver, Fields, Idle

\* A driver that is between two answers of the model, whatever it was before.
LEMMA BetweenAnswers ==
  ASSUME NEW d, IsDriver(d), d.calls = <<>>, d.allowed = <<>>, d.outcome = <<>>,
         d.pc # "waiting", NEW conf
  PROVE  DriverOK(d, conf)
  BY EmptyBatch DEF DriverOK

\* A step of one driver that leaves the confirmations alone.
LEMMA DriverMoves ==
  ASSUME IInv, NEW s \in Servers, NEW d, Goes(s, d), DriverOK(d, confirmation),
         UNCHANGED confirmation, performed' \subseteq Calls,
         d.calls = <<>> \/ d.calls = drive[s].calls,
         \A c \in performed' \intersect Outward : c \in performed \/ confirmation[c] = "approved"
  PROVE  IInv'
<1>1. /\ drive' = [t \in Servers |-> drive'[t]]
      /\ drive'[s] = d
      /\ \A t \in Servers : t # s => drive'[t] = drive[t]
  BY GoesThere DEF IInv
<1>2. Shape'
  BY <1>1 DEF IInv, Shape
<1>3. Disjoint'
  BY <1>1 DEF IInv, Disjoint
<1>4. \A t \in Servers : DriverOK(drive'[t], confirmation')
  BY <1>1 DEF IInv
<1>5. ActsOnlyIfApproved'
  BY DEF IInv, ActsOnlyIfApproved
<1>6. QED
  BY <1>2, <1>3, <1>4, <1>5 DEF IInv

-----------------------------------------------------------------------------
LEMMA InitHolds == Init => IInv
<1> SUFFICES ASSUME Init PROVE IInv
  OBVIOUS
<1>1. PICK s \in Servers : drive = [t \in Servers |-> IF t = s THEN Thinking(<<>>) ELSE Idle]
  BY DEF Init
<1> DEFINE first == Thinking(<<>>)
<1>2. \A conf : DriverOK(Idle, conf)
  <2>1. Idle.calls = <<>> /\ Idle.allowed = <<>> /\ Idle.outcome = <<>> /\ Idle.pc # "waiting"
    BY DEF Idle
  <2>2. QED
    BY <2>1, IdleOK, BetweenAnswers
<1>3. \A conf : DriverOK(first, conf)
  <2>1. /\ first.calls = <<>> /\ first.allowed = <<>> /\ first.outcome = <<>>
        /\ first.pc # "waiting"
    BY DEF Idle, Thinking
  <2>2. IsDriver(first)
    BY IdleOK DEF Thinking, IsDriver, Fields
  <2>3. QED
    BY <2>1, <2>2, BetweenAnswers
<1>4. \A t \in Servers : DriverOK(drive[t], confirmation)
  BY <1>1, <1>2, <1>3
<1>5. \A t \in Servers : drive[t].calls = <<>>
  BY <1>1 DEF Idle, Thinking
<1>6. Shape
  BY <1>1 DEF Init, Shape, Answered3
<1>7. Disjoint
  BY <1>5 DEF Disjoint
<1>8. ActsOnlyIfApproved
  BY DEF Init, ActsOnlyIfApproved
<1>9. QED
  BY <1>4, <1>6, <1>7, <1>8 DEF IInv

-----------------------------------------------------------------------------
\* One lemma for each action.
LEMMA EmitKeeps ==
  ASSUME IInv, NEW s \in Servers, Emit(s)
  PROVE  IInv'
<1> DEFINE d == drive[s]
           e == [d EXCEPT !.out = Tail(@)]
<1>1. DriverOK(d, confirmation)
  BY DEF IInv
<1>2. Goes(s, e) /\ UNCHANGED <<confirmation, performed>>
  BY DEF Emit
<1>3. IsDriver(e) /\ e.calls = d.calls /\ e.allowed = d.allowed /\ e.outcome = d.outcome /\ e.pc = d.pc
  BY <1>1 DEF DriverOK, IsDriver, Fields
<1>4. DriverOK(e, confirmation)
  BY <1>1, <1>3 DEF DriverOK
<1>5. QED
  BY <1>2, <1>3, <1>4, DriverMoves DEF IInv, Shape

\* A driver that waits for nothing, asks for nothing and runs nothing keeps
\* its batch.
LEMMA QuietOK ==
  ASSUME NEW d, NEW e, NEW conf, DriverOK(d, conf), IsDriver(e),
         e.calls = d.calls, e.allowed = d.allowed, e.outcome = d.outcome,
         d.pc # "executing", e.pc \notin {"asking", "waiting", "executing"}
  PROVE  DriverOK(e, conf)
  BY DEF DriverOK, BatchOK

\* The calls of a new batch: nobody else has them and nobody has decided them.
LEMMA BatchIsFresh ==
  ASSUME NEW calls \in Batches
  PROVE  /\ calls \in Seq(Calls) /\ IsInjective(calls)
         /\ \A n \in DOMAIN calls :
              /\ confirmation[calls[n]] = "none"
              /\ \A t \in Servers : calls[n] \notin Range(drive[t].calls)
<1>1. PICK k \in 1..MaxBatch : calls \in [1..k -> Fresh]
  BY DEF Batches
<1>2. IsInjective(calls)
  BY DEF Batches
<1>3. Fresh \subseteq Calls
  BY DEF Fresh
<1>4. k \in Nat
  BY <1>1, AgentAssumption
<1>5. calls \in Seq(Calls)
  BY <1>1, <1>3, <1>4
<1>6. \A n \in DOMAIN calls : calls[n] \in Fresh
  BY <1>1
<1>7. QED
  BY <1>2, <1>5, <1>6 DEF Fresh

LEMMA ThinkKeeps ==
  ASSUME IInv, NEW s \in Servers, Think(s)
  PROVE  IInv'
<1> DEFINE d == drive[s]
<1>1. DriverOK(d, confirmation) /\ IsDriver(d) /\ d.pc = "thinking"
  BY DEF IInv, DriverOK, Think, At
<1>2. UNCHANGED <<confirmation, performed>>
  BY DEF Think, run
<1>3. CASE Goes(s, [d EXCEPT !.pc = "ending", !.out = Note("error"), !.final = "failed"])
  <2> DEFINE e == [d EXCEPT !.pc = "ending", !.out = Note("error"), !.final = "failed"]
  <2>1. IsDriver(e) /\ e.calls = d.calls /\ e.allowed = d.allowed /\ e.outcome = d.outcome /\ e.pc = "ending"
    BY <1>1 DEF IsDriver, Fields
  <2>2. DriverOK(e, confirmation)
    BY <1>1, <2>1, QuietOK
  <2>3. QED
    BY <1>2, <1>3, <2>1, <2>2, DriverMoves DEF IInv, Shape
<1>4. ASSUME NEW text \in BOOLEAN,
             Goes(s, [d EXCEPT !.pc = "ending", !.out = Said(text) \o Note("done")])
      PROVE  IInv'
  <2> DEFINE e == [d EXCEPT !.pc = "ending", !.out = Said(text) \o Note("done")]
  <2>1. IsDriver(e) /\ e.calls = d.calls /\ e.allowed = d.allowed /\ e.outcome = d.outcome /\ e.pc = "ending"
    BY <1>1 DEF IsDriver, Fields
  <2>2. DriverOK(e, confirmation)
    BY <1>1, <2>1, QuietOK
  <2>3. QED
    BY <1>2, <1>4, <2>1, <2>2, DriverMoves DEF IInv, Shape
<1>5. ASSUME NEW text \in BOOLEAN, NEW calls \in Batches,
             Goes(s, [d EXCEPT !.pc = "asking", !.out = Said(text), !.calls = calls,
                               !.allowed = <<>>])
      PROVE  IInv'
  <2> DEFINE e == [d EXCEPT !.pc = "asking", !.out = Said(text), !.calls = calls,
                            !.allowed = <<>>]
  <2>1. IsDriver(e) /\ e.calls = calls /\ e.allowed = <<>> /\ e.outcome = d.outcome /\ e.pc = "asking"
    BY <1>1 DEF IsDriver, Fields
  <2>2. BatchOK(calls, <<>>, d.outcome, "asking", confirmation)
    BY <1>1, BatchIsFresh DEF DriverOK, BatchOK
  <2>3. DriverOK(e, confirmation)
    BY <2>1, <2>2 DEF DriverOK
  <2>4. /\ drive' = [t \in Servers |-> drive'[t]]
        /\ drive'[s] = e
        /\ \A t \in Servers : t # s => drive'[t] = drive[t]
    BY <1>5, GoesThere DEF IInv
  <2>5. Shape'
    BY <1>2, <2>4 DEF IInv, Shape
  <2>6. \A t \in Servers : \A n \in DOMAIN calls, m \in DOMAIN drive[t].calls :
          calls[n] # drive[t].calls[m]
    BY BatchIsFresh DEF Range
  <2>7. Disjoint'
    <3> HIDE DEF e
    <3>1. SUFFICES ASSUME NEW a \in Servers, NEW b \in Servers, a # b,
                          NEW m \in DOMAIN drive'[a].calls, NEW n \in DOMAIN drive'[b].calls
                   PROVE  drive'[a].calls[m] # drive'[b].calls[n]
      BY DEF Disjoint
    <3>2. CASE a = s
      BY <2>1, <2>4, <2>6, <3>1, <3>2
    <3>3. CASE b = s
      BY <2>1, <2>4, <2>6, <3>1, <3>3
    <3>4. CASE a # s /\ b # s
      BY <2>4, <3>1, <3>4 DEF IInv, Disjoint
    <3>5. QED
      BY <3>2, <3>3, <3>4
  <2>8. \A t \in Servers : DriverOK(drive'[t], confirmation')
    BY <1>2, <2>3, <2>4 DEF IInv
  <2>9. ActsOnlyIfApproved'
    BY <1>2 DEF IInv, ActsOnlyIfApproved
  <2>10. QED
    BY <2>5, <2>7, <2>8, <2>9 DEF IInv
<1>6. QED
  BY <1>3, <1>4, <1>5 DEF Think

LEMMA DecideKeeps ==
  ASSUME IInv, NEW s \in Servers, Decide(s)
  PROVE  IInv'
<1> DEFINE d == drive[s]
           call == d.calls[Len(d.allowed) + 1]
<1>1. DriverOK(d, confirmation) /\ IsDriver(d) /\ d.pc = "waiting"
  BY DEF IInv, DriverOK, Decide, At
<1>2. UNCHANGED <<confirmation, performed>>
  BY DEF Decide, run
<1>3. PICK approved \in BOOLEAN :
        /\ approved => confirmation[call] = "approved"
        /\ Goes(s, [d EXCEPT !.pc = "asking", !.allowed = Append(@, approved),
                 !.out = <<Event("confirmation_result", call)>> \o
                         (IF approved THEN <<Event("tool_call", call)>> ELSE <<>>)])
  BY DEF Decide
<1> DEFINE out == <<Event("confirmation_result", call)>> \o
                  (IF approved THEN <<Event("tool_call", call)>> ELSE <<>>)
           e == [d EXCEPT !.pc = "asking", !.allowed = Append(@, approved), !.out = out]
<1>4. /\ IsDriver(e) /\ e.calls = d.calls /\ e.allowed = Append(d.allowed, approved)
      /\ e.outcome = d.outcome /\ e.pc = "asking"
  BY <1>1 DEF IsDriver, Fields
<1>5. BatchOK(d.calls, Append(d.allowed, approved), d.outcome, "asking", confirmation)
  BY <1>1, <1>3 DEF DriverOK, BatchOK
<1>6. DriverOK(e, confirmation)
  BY <1>4, <1>5 DEF DriverOK
<1>7. Goes(s, e)
  BY <1>3
<1>8. QED
  BY <1>2, <1>4, <1>6, <1>7, DriverMoves DEF IInv, Shape

LEMMA GatherKeeps ==
  ASSUME IInv, NEW s \in Servers, Gather(s)
  PROVE  IInv'
<1> DEFINE d == drive[s]
           outcome == [n \in DOMAIN d.calls |-> IF d.allowed[n] THEN "none" ELSE "tool_error"]
           e == [d EXCEPT !.pc = "executing", !.outcome = outcome]
<1>1. DriverOK(d, confirmation) /\ IsDriver(d) /\ Len(d.allowed) = Len(d.calls)
  BY DEF IInv, DriverOK, Gather
<1>2. Goes(s, e) /\ UNCHANGED <<confirmation, performed>>
  BY DEF Gather, run
<1>3. /\ IsDriver(e) /\ e.calls = d.calls /\ e.allowed = d.allowed
      /\ e.outcome = outcome /\ e.pc = "executing"
  BY <1>1 DEF IsDriver, Fields
<1>4. d.calls \in Seq(Calls) /\ d.allowed \in Seq(BOOLEAN)
  BY <1>1 DEF DriverOK, BatchOK
<1>5. outcome \in Seq(Answers \union {"none"})
  <2>1. DOMAIN d.calls = 1..Len(d.calls) /\ Len(d.calls) \in Nat
    BY <1>4
  <2>2. \A n \in DOMAIN d.calls : outcome[n] \in Answers \union {"none"}
    BY DEF Answers
  <2>3. outcome \in [1..Len(d.calls) -> Answers \union {"none"}]
    BY <2>1, <2>2
  <2> HIDE DEF outcome
  <2>4. QED
    BY <2>1, <2>3
<1>6. \A n \in DOMAIN outcome : outcome[n] = "none" => n \in DOMAIN d.allowed /\ d.allowed[n]
  BY <1>1, <1>4
<1>10. DOMAIN outcome = DOMAIN d.calls
  OBVIOUS
<1> HIDE DEF outcome
<1>7. BatchOK(d.calls, d.allowed, outcome, "executing", confirmation)
  BY <1>1, <1>5, <1>6, <1>10 DEF DriverOK, BatchOK
<1>8. DriverOK(e, confirmation)
  BY <1>3, <1>7 DEF DriverOK
<1>9. QED
  BY <1>2, <1>3, <1>8, DriverMoves DEF IInv, Shape

LEMMA ExecuteKeeps ==
  ASSUME IInv, NEW s \in Servers, Execute(s)
  PROVE  IInv'
<1> DEFINE d == drive[s]
<1>1. DriverOK(d, confirmation) /\ IsDriver(d) /\ d.pc = "executing"
  BY DEF IInv, DriverOK, Execute, At
<1>2. PICK n \in DOMAIN d.calls, answer \in Answers, acts \in BOOLEAN :
        /\ d.outcome[n] = "none"
        /\ performed' = IF acts THEN performed \union {d.calls[n]} ELSE performed
        /\ Goes(s, [d EXCEPT !.outcome[n] = answer])
  BY DEF Execute
<1>3. UNCHANGED confirmation
  BY DEF Execute
<1>4. d.calls \in Seq(Calls) /\ d.calls[n] \in Calls
  BY <1>1 DEF DriverOK, BatchOK
<1> DEFINE outcome == [d.outcome EXCEPT ![n] = answer]
           e == [d EXCEPT !.outcome[n] = answer]
<1>5. /\ IsDriver(e) /\ e.calls = d.calls /\ e.allowed = d.allowed
      /\ e.outcome = outcome /\ e.pc = "executing"
  BY <1>1 DEF IsDriver, Fields
<1>6. answer \in Answers \union {"none"} /\ answer # "none"
  BY DEF Answers
<1>7. BatchOK(d.calls, d.allowed, outcome, "executing", confirmation)
  <2>1. d.outcome \in Seq(Answers \union {"none"})
    BY <1>1 DEF DriverOK, BatchOK
  <2>2. outcome \in Seq(Answers \union {"none"}) /\ DOMAIN outcome = DOMAIN d.outcome
    <3>1. /\ d.outcome \in [1..Len(d.outcome) -> Answers \union {"none"}]
          /\ Len(d.outcome) \in Nat
      BY <2>1
    <3>2. outcome \in [1..Len(d.outcome) -> Answers \union {"none"}]
      BY <3>1, <1>6
    <3> HIDE DEF outcome
    <3>3. QED
      BY <3>1, <3>2
  <2>3. \A m \in DOMAIN outcome : outcome[m] = "none" => d.outcome[m] = "none"
    BY <2>1, <1>6
  <2> HIDE DEF outcome
  <2>4. QED
    BY <1>1, <2>2, <2>3 DEF DriverOK, BatchOK
<1>8. DriverOK(e, confirmation)
  BY <1>5, <1>7 DEF DriverOK
<1>9. performed' \subseteq Calls
  BY <1>2, <1>4 DEF IInv, Shape
<1>10. n \in DOMAIN d.outcome => confirmation[d.calls[n]] = "approved" \/ d.calls[n] \notin Outward
  BY <1>1, <1>2 DEF DriverOK, BatchOK
<1>11. n \in DOMAIN d.outcome
  BY <1>1 DEF DriverOK, BatchOK
<1>12. \A c \in performed' \intersect Outward : c \in performed \/ confirmation[c] = "approved"
  BY <1>2, <1>10, <1>11
<1>13. QED
  BY <1>2, <1>3, <1>5, <1>8, <1>9, <1>12, DriverMoves

LEMMA CollectKeeps ==
  ASSUME IInv, NEW s \in Servers, Collect(s)
  PROVE  IInv'
<1> DEFINE d == drive[s]
           pc == IF d.turn + 1 < MaxTurns THEN "thinking" ELSE "closing"
           out == [n \in DOMAIN d.calls |-> Event(d.outcome[n], d.calls[n])]
           convo == d.convo \o <<Uses(Range(d.calls)), Results(Range(d.calls))>>
           e == [d EXCEPT !.turn = @ + 1, !.pc = pc, !.out = out, !.convo = convo,
                          !.calls = <<>>, !.allowed = <<>>, !.outcome = <<>>]
<1>1. IsDriver(d)
  BY DEF IInv, DriverOK
<1>2. Goes(s, e) /\ UNCHANGED <<confirmation, performed>>
  BY DEF Collect, run
<1>3. IsDriver(e) /\ e.calls = <<>> /\ e.allowed = <<>> /\ e.outcome = <<>> /\ e.pc = pc
  <2> HIDE DEF pc, out, convo
  <2>1. QED
    BY <1>1 DEF IsDriver, Fields
<1>4. DriverOK(e, confirmation)
  <2>1. pc # "waiting"
    OBVIOUS
  <2>2. QED
    BY <1>3, <2>1, BetweenAnswers
<1>5. QED
  BY <1>2, <1>3, <1>4, DriverMoves DEF IInv, Shape

\* A driver that starts anew: Idle with another place, history or last word.
LEMMA AnewKeeps ==
  ASSUME IInv, NEW s \in Servers, NEW e, Goes(s, e), IsDriver(e),
         e.calls = <<>>, e.allowed = <<>>, e.outcome = <<>>, e.pc # "waiting",
         UNCHANGED confirmation, performed' \subseteq Calls,
         \A c \in performed' \intersect Outward : c \in performed \/ confirmation[c] = "approved"
  PROVE  IInv'
  BY BetweenAnswers, DriverMoves

LEMMA CloseKeeps ==
  ASSUME IInv, NEW s \in Servers, Close(s)
  PROVE  IInv'
<1> DEFINE d == drive[s]
           e == [d EXCEPT !.pc = "ending", !.out = Note("text") \o Note("done")]
           f == [d EXCEPT !.pc = "ending", !.out = Note("incomplete"), !.final = "incomplete"]
<1>1. DriverOK(d, confirmation) /\ IsDriver(d) /\ d.pc = "closing"
  BY DEF IInv, DriverOK, Close, At
<1>2. (Goes(s, e) \/ Goes(s, f)) /\ UNCHANGED <<confirmation, performed>>
  BY DEF Close, run
<1>3. IsDriver(e) /\ e.calls = d.calls /\ e.allowed = d.allowed /\ e.outcome = d.outcome /\ e.pc = "ending"
  BY <1>1 DEF IsDriver, Fields
<1>4. IsDriver(f) /\ f.calls = d.calls /\ f.allowed = d.allowed /\ f.outcome = d.outcome /\ f.pc = "ending"
  BY <1>1 DEF IsDriver, Fields
<1>5. DriverOK(e, confirmation) /\ DriverOK(f, confirmation)
  BY <1>1, <1>3, <1>4, QuietOK
<1>6. QED
  BY <1>2, <1>3, <1>4, <1>5, DriverMoves DEF IInv, Shape

LEMMA IdleKeeps ==
  ASSUME IInv, NEW s \in Servers, Goes(s, Idle), UNCHANGED <<confirmation, performed>>
  PROVE  IInv'
<1>1. Idle.calls = <<>> /\ Idle.allowed = <<>> /\ Idle.outcome = <<>> /\ Idle.pc # "waiting"
  BY DEF Idle
<1>2. QED
  BY <1>1, IdleOK, AnewKeeps DEF IInv, Shape

LEMMA StartKeeps ==
  ASSUME IInv, NEW s \in Servers, Start(s)
  PROVE  IInv'
<1> DEFINE e == [Idle EXCEPT !.pc = "reading"]
<1>1. (Goes(s, e) \/ Goes(s, Idle)) /\ UNCHANGED <<confirmation, performed>>
  BY DEF Start, run
<1>2. IsDriver(e)
  BY IdleOK DEF IsDriver, Fields
<1>3. e.calls = <<>> /\ e.allowed = <<>> /\ e.outcome = <<>> /\ e.pc = "reading"
  BY DEF Idle
<1>4. QED
  BY <1>1, <1>2, <1>3, IdleKeeps, AnewKeeps DEF IInv, Shape

LEMMA RecoverKeeps ==
  ASSUME IInv, NEW s \in Servers, Recover(s)
  PROVE  IInv'
<1> DEFINE convo == Rebuilt(log).convo
           e == [Idle EXCEPT !.pc = "stopping", !.out = Note("incomplete"), !.final = "incomplete"]
           f == Thinking(convo)
<1>1. (Goes(s, e) \/ Goes(s, f)) /\ UNCHANGED <<confirmation, performed>>
  BY DEF Recover, run
<1> HIDE DEF convo
<1>2. IsDriver(e) /\ IsDriver(f)
  BY IdleOK DEF IsDriver, Fields, Thinking
<1>3. e.calls = <<>> /\ e.allowed = <<>> /\ e.outcome = <<>> /\ e.pc = "stopping"
  BY DEF Idle
<1>4. f.calls = <<>> /\ f.allowed = <<>> /\ f.outcome = <<>> /\ f.pc = "thinking"
  BY DEF Idle, Thinking
<1>5. QED
  BY <1>1, <1>2, <1>3, <1>4, AnewKeeps DEF IInv, Shape

LEMMA FailKeeps ==
  ASSUME IInv, NEW s \in Servers, Fail(s)
  PROVE  IInv'
<1> DEFINE d == drive[s]
           out == IF d.pc = "failing" THEN <<>> ELSE Note("error")
           e == [Idle EXCEPT !.pc = "failing", !.final = "failed", !.out = out]
           running == {d.calls[n] : n \in {m \in DOMAIN d.outcome : d.outcome[m] = "none"}}
<1>1. Goes(s, e) /\ UNCHANGED confirmation
  BY DEF Fail
<1>2. PICK acted \in SUBSET running : performed' = performed \union acted
  BY DEF Fail
<1>3. DriverOK(d, confirmation)
  BY DEF IInv
<1>4. \A c \in running : c \in Calls /\ (c \in Outward => confirmation[c] = "approved")
  BY <1>3 DEF DriverOK, BatchOK
<1> HIDE DEF out, running
<1>5. IsDriver(e)
  BY IdleOK DEF IsDriver, Fields
<1>6. e.calls = <<>> /\ e.allowed = <<>> /\ e.outcome = <<>> /\ e.pc = "failing"
  BY DEF Idle
<1>7. performed' \subseteq Calls
  BY <1>2, <1>4 DEF IInv, Shape
<1>8. \A c \in performed' \intersect Outward : c \in performed \/ confirmation[c] = "approved"
  BY <1>2, <1>4
<1>9. QED
  BY <1>1, <1>5, <1>6, <1>7, <1>8, AnewKeeps

LEMMA AskKeeps ==
  ASSUME IInv, NEW s \in Servers, Ask(s)
  PROVE  IInv'
<1> DEFINE d == drive[s]
           call == d.calls[Len(d.allowed) + 1]
<1>1. DriverOK(d, confirmation) /\ IsDriver(d)
  BY DEF IInv, DriverOK
<1>2. d.pc = "asking" /\ Len(d.allowed) < Len(d.calls) /\ UNCHANGED performed
  BY DEF Ask, At
<1>3. /\ d.calls \in Seq(Calls) /\ d.allowed \in Seq(BOOLEAN) /\ IsInjective(d.calls)
      /\ Len(d.allowed) + 1 \in DOMAIN d.calls
  BY <1>1, <1>2 DEF DriverOK, BatchOK
<1>4. call \in Calls /\ confirmation[call] = "none"
  BY <1>1, <1>2, <1>3 DEF DriverOK, BatchOK
<1>5. CASE call \notin Outward
  <2> DEFINE e == [d EXCEPT !.allowed = Append(@, TRUE), !.out = <<Event("tool_call", call)>>]
  <2>1. Goes(s, e) /\ UNCHANGED confirmation
    BY <1>5 DEF Ask
  <2>2. /\ IsDriver(e) /\ e.calls = d.calls /\ e.allowed = Append(d.allowed, TRUE)
        /\ e.outcome = d.outcome /\ e.pc = "asking"
    BY <1>1, <1>2 DEF IsDriver, Fields
  <2>3. BatchOK(d.calls, Append(d.allowed, TRUE), d.outcome, "asking", confirmation)
    BY <1>1, <1>2, <1>5 DEF DriverOK, BatchOK
  <2>4. DriverOK(e, confirmation)
    BY <2>2, <2>3 DEF DriverOK
  <2>5. QED
    BY <1>2, <2>1, <2>2, <2>4, DriverMoves DEF IInv, Shape
<1>6. CASE call \in Outward
  <2> DEFINE e == [d EXCEPT !.pc = "waiting", !.out = <<Event("confirm_request", call)>>]
  <2>1. Goes(s, e) /\ confirmation' = [confirmation EXCEPT ![call] = "pending"]
    BY <1>6 DEF Ask
  <2>2. /\ IsDriver(e) /\ e.calls = d.calls /\ e.allowed = d.allowed
        /\ e.outcome = d.outcome /\ e.pc = "waiting"
    BY <1>1 DEF IsDriver, Fields
  <2>3. \A c \in Calls : c # call => confirmation'[c] = confirmation[c]
    BY <2>1 DEF IInv, Shape
  <2>4. \A n \in DOMAIN d.calls : n # Len(d.allowed) + 1 => d.calls[n] # call /\ d.calls[n] \in Calls
    BY <1>3 DEF IsInjective
  <2>5. BatchOK(d.calls, d.allowed, d.outcome, "waiting", confirmation')
    BY <1>1, <1>2, <1>3, <2>3, <2>4 DEF DriverOK, BatchOK
  <2>6. DriverOK(e, confirmation')
    BY <2>2, <2>5 DEF DriverOK
  <2>7. /\ drive' = [t \in Servers |-> drive'[t]]
        /\ drive'[s] = e
        /\ \A t \in Servers : t # s => drive'[t] = drive[t]
    BY <2>1, GoesThere DEF IInv
  <2>8. \A t \in Servers : DriverOK(drive'[t], confirmation')
    <3>1. SUFFICES ASSUME NEW t \in Servers, t # s
                   PROVE  DriverOK(drive[t], confirmation')
      BY <2>6, <2>7
    <3>2. DriverOK(drive[t], confirmation)
      BY DEF IInv
    <3>3. \A n \in DOMAIN drive[t].calls : drive[t].calls[n] # call /\ drive[t].calls[n] \in Calls
      BY <1>3, <3>1, <3>2 DEF IInv, Disjoint, DriverOK, BatchOK
    <3>4. \A n \in DOMAIN drive[t].calls : confirmation'[drive[t].calls[n]] = confirmation[drive[t].calls[n]]
      BY <2>3, <3>3
    <3>5. QED
      BY <3>2, <3>4, BatchKept DEF DriverOK
  <2>9. Disjoint'
    <3>1. \A t \in Servers : drive'[t].calls = drive[t].calls
      BY <2>2, <2>7
    <3>2. QED
      BY <3>1 DEF IInv, Disjoint
  <2>10. Shape'
    BY <1>2, <1>4, <2>1, <2>7 DEF IInv, Shape, Answered3
  <2>11. ActsOnlyIfApproved'
    BY <1>2, <1>4, <2>3 DEF IInv, ActsOnlyIfApproved, Shape
  <2>12. QED
    BY <2>8, <2>9, <2>10, <2>11 DEF IInv
<1>7. QED
  BY <1>5, <1>6

LEMMA ResolveKeeps ==
  ASSUME IInv, NEW call \in Calls, NEW decision \in {"approved", "denied"},
         Resolve(call, decision)
  PROVE  IInv'
<1>1. /\ confirmation[call] = "pending" /\ UNCHANGED <<drive, performed>>
      /\ confirmation' = [confirmation EXCEPT ![call] = decision]
  BY DEF Resolve
<1>2. \A c \in Calls : confirmation[c] \in {"none", "approved"} => confirmation'[c] = confirmation[c]
  BY <1>1 DEF IInv, Shape
<1>3. \A t \in Servers : DriverOK(drive'[t], confirmation')
  <2> SUFFICES ASSUME NEW t \in Servers PROVE DriverOK(drive[t], confirmation')
    BY <1>1
  <2>1. DriverOK(drive[t], confirmation)
    BY DEF IInv
  <2>2. \A n \in DOMAIN drive[t].calls : drive[t].calls[n] \in Calls
    BY <2>1 DEF DriverOK, BatchOK
  <2>3. QED
    BY <1>2, <2>1, <2>2, BatchKept DEF DriverOK
<1>4. Shape' /\ Disjoint'
  BY <1>1 DEF IInv, Shape, Disjoint, Answered3
<1>5. ActsOnlyIfApproved'
  BY <1>1, <1>2 DEF IInv, ActsOnlyIfApproved, Shape
<1>6. QED
  BY <1>3, <1>4, <1>5 DEF IInv

LEMMA NextHolds == IInv /\ [Next]_vars => IInv'
<1> SUFFICES ASSUME IInv, [Next]_vars PROVE IInv'
  OBVIOUS
<1>1. CASE UNCHANGED vars
  BY <1>1 DEF vars, run, IInv, Shape, Disjoint, ActsOnlyIfApproved
<1>2. ASSUME NEW s \in Servers, Step(s) PROVE IInv'
  <2>1. CASE Finish(s)
    BY <2>1, IdleKeeps DEF Finish
  <2>2. QED
    BY <1>2, <2>1, EmitKeeps, ThinkKeeps, AskKeeps, DecideKeeps, GatherKeeps, ExecuteKeeps,
       CollectKeeps, CloseKeeps, StartKeeps, RecoverKeeps DEF Step
<1>3. ASSUME NEW s \in Servers, Crash(s) PROVE IInv'
  BY <1>3, IdleKeeps DEF Crash, run
<1>4. QED
  BY <1>1, <1>2, <1>3, FailKeeps, ResolveKeeps DEF Next

\* An outward-facing call acts only under a confirmation that the user has
\* approved and that stays approved, whatever stops or fails and however many
\* servers drive the run.
THEOREM OnlyIfApproved == Spec => []ActsOnlyIfApproved
<1>1. IInv => ActsOnlyIfApproved
  BY DEF IInv
<1>2. QED
  BY <1>1, InitHolds, NextHolds, PTL DEF Spec

-----------------------------------------------------------------------------
(* The end of a run that one server drives.                                *)

\* "A run has one driver" (storage/agent_runs.py:222).
OneServer == \A s, t \in Servers : s = t

\* The last of the events already appended and those still to be yielded.
EndsWith(kind, out, events) ==
  IF out = <<>> THEN events # <<>> /\ Last(events) = Event(kind, NoCall)
  ELSE Last(out) = Event(kind, NoCall)

WordFits(d, events) ==
  /\ d.out \in Seq(Events)
  /\ d.pc \in Places
  /\ d.pc \in {"idle", "reading"} => d.out = <<>>
  /\ d.pc \in {"thinking", "asking", "waiting", "executing", "closing"} => d.final = "completed"
  /\ d.pc = "failing" => d.final = "failed"
  /\ d.pc \in {"ending", "stopping"} =>
       /\ d.final = "completed" => EndsWith("done", d.out, events)
       /\ d.final = "incomplete" => EndsWith("incomplete", d.out, events)

EInv ==
  /\ IInv
  /\ log \in Seq(Events)
  /\ \A s \in Servers : WordFits(drive[s], log)
  /\ status # "running" => \A s \in Servers : drive[s].pc = "idle"
  /\ StatusMatchesLog

-----------------------------------------------------------------------------
LEMMA Typed ==
  /\ \A kind \in Kinds : Note(kind) \in Seq(Events) /\ Note(kind) # <<>>
                        /\ Last(Note(kind)) = Event(kind, NoCall)
  /\ \A kind \in Kinds, call \in Calls : Event(kind, call) \in Events
  /\ \A text \in BOOLEAN : Said(text) \in Seq(Events)
<1>1. \A kind \in Kinds, call \in Calls \union {NoCall} : Event(kind, call) \in Events
  BY DEF Event, Events
<1>2. ASSUME NEW kind \in Kinds
      PROVE  /\ Note(kind) \in Seq(Events) /\ Note(kind) # <<>>
             /\ Last(Note(kind)) = Event(kind, NoCall)
  BY <1>1 DEF Note, Last
<1>3. "text" \in Kinds
  BY DEF Kinds
<1>4. \A text \in BOOLEAN : Said(text) \in Seq(Events)
  BY <1>2, <1>3 DEF Said
<1>5. QED
  BY <1>1, <1>2, <1>4

\* The last event of a run is the last word of its driver.
LEMMA LastWord ==
  ASSUME NEW said \in Seq(Events), NEW kind \in Kinds, NEW events
  PROVE  /\ said \o Note(kind) \in Seq(Events)
         /\ EndsWith(kind, said \o Note(kind), events)
<1> DEFINE word == Event(kind, NoCall)
           whole == said \o <<word>>
<1>1. word \in Events
  BY DEF Event, Events
<1> HIDE DEF word
<1>2. whole \in Seq(Events) /\ Len(whole) = Len(said) + 1 /\ whole[Len(said) + 1] = word
  BY <1>1
<1>3. whole # <<>>
  BY <1>2
<1> HIDE DEF whole
<1>4. EndsWith(kind, whole, events)
  BY <1>2, <1>3 DEF EndsWith, Last, word
<1>5. QED
  BY <1>2, <1>4 DEF whole, word, Note

LEMMA TailGone ==
  ASSUME NEW S, NEW q \in Seq(S), q # <<>>, Tail(q) = <<>>
  PROVE  Len(q) = 1 /\ Head(q) = Last(q)
<1>1. Len(q) \in Nat /\ Len(q) # 0 /\ Len(Tail(q)) = Len(q) - 1
  OBVIOUS
<1>2. Len(Tail(q)) = Len(<<>>)
  BY Zenon
<1>3. Len(<<>>) = 0
  OBVIOUS
<1>4. Len(q) = 1
  BY <1>1, <1>2, <1>3
<1>5. QED
  BY <1>4 DEF Last

\* A driver of a running run moves on, and the run goes on running.
LEMMA GoesOn ==
  ASSUME OneServer, EInv, IInv', NEW s \in Servers, NEW e, Goes(s, e), status = "running",
         UNCHANGED status, log' \in Seq(Events), WordFits(e, log')
  PROVE  EInv'
<1>1. drive'[s] = e
  BY GoesThere DEF EInv, IInv
<1>2. \A t \in Servers : WordFits(drive'[t], log')
  BY <1>1 DEF OneServer
<1>3. QED
  BY <1>2 DEF EInv, StatusMatchesLog

\* Whatever is not idle belongs to a run that is running.
LEMMA Driving ==
  ASSUME EInv, NEW s \in Servers, drive[s].pc # "idle" \/ drive[s].out # <<>>
  PROVE  status = "running"
  BY DEF EInv, WordFits

\* The record of a driver that changes its place, its queue and its last word.
LEMMA Fields3 ==
  ASSUME NEW d, IsDriver(d), NEW pc, NEW out, NEW final
  PROVE  /\ [d EXCEPT !.pc = pc, !.out = out].pc = pc
         /\ [d EXCEPT !.pc = pc, !.out = out].out = out
         /\ [d EXCEPT !.pc = pc, !.out = out].final = d.final
         /\ [d EXCEPT !.pc = pc, !.out = out, !.final = final].pc = pc
         /\ [d EXCEPT !.pc = pc, !.out = out, !.final = final].out = out
         /\ [d EXCEPT !.pc = pc, !.out = out, !.final = final].final = final
  BY DEF IsDriver, Fields

LEMMA NoEvents == <<>> \in Seq(Events)
  OBVIOUS

\* A driver at work, with any events to yield.
LEMMA WorkFits ==
  ASSUME NEW e, e.pc \in {"thinking", "asking", "waiting", "executing", "closing"},
         e.out \in Seq(Events), e.final = "completed", NEW events
  PROVE  WordFits(e, events)
  BY DEF WordFits, Places

LEMMA InitEnds == Init => EInv
<1> SUFFICES ASSUME Init PROVE EInv
  OBVIOUS
<1> USE DEF Places
<1>1. PICK s \in Servers : drive = [t \in Servers |-> IF t = s THEN Thinking(<<>>) ELSE Idle]
  BY DEF Init
<1>2. WordFits(Idle, log)
  BY DEF WordFits, Idle
<1>3. WordFits(Thinking(<<>>), log)
  BY DEF WordFits, Idle, Thinking
<1>4. \A t \in Servers : WordFits(drive[t], log)
  BY <1>1, <1>2, <1>3
<1>5. QED
  BY <1>4, InitHolds DEF Init, EInv, StatusMatchesLog

LEMMA EmitEnds ==
  ASSUME OneServer, EInv, IInv', NEW s \in Servers, Emit(s)
  PROVE  EInv'
<1> DEFINE d == drive[s]
           e == [d EXCEPT !.out = Tail(@)]
<1>1. /\ Goes(s, e) /\ d.out # <<>> /\ UNCHANGED status
      /\ log' = Append(log, Head(d.out))
  BY DEF Emit
<1>2. d.out \in Seq(Events) /\ log \in Seq(Events) /\ WordFits(d, log) /\ IsDriver(d)
  BY DEF EInv, WordFits, IInv, DriverOK
<1>3. e.out = Tail(d.out) /\ e.pc = d.pc /\ e.final = d.final
  BY <1>2 DEF IsDriver, Fields
<1>4. log' \in Seq(Events) /\ Tail(d.out) \in Seq(Events)
  BY <1>1, <1>2
<1>5. ASSUME NEW kind, EndsWith(kind, d.out, log)
      PROVE  EndsWith(kind, Tail(d.out), log')
  <2>1. Last(d.out) = Event(kind, NoCall)
    BY <1>1, <1>5 DEF EndsWith
  <2>2. CASE Tail(d.out) = <<>>
    <3>1. Len(d.out) = 1 /\ Head(d.out) = Last(d.out)
      BY <1>1, <1>2, <2>2, TailGone
    <3>2. log' # <<>> /\ Last(log') = Head(d.out)
      BY <1>1, <1>2, <1>4 DEF Last
    <3>3. QED
      BY <2>1, <2>2, <3>1, <3>2 DEF EndsWith
  <2>3. CASE Tail(d.out) # <<>>
    <3>1. Last(Tail(d.out)) = Last(d.out)
      BY <1>1, <1>2, <2>3 DEF Last
    <3>2. QED
      BY <2>1, <2>3, <3>1 DEF EndsWith
  <2>4. QED
    BY <2>2, <2>3
<1>6. WordFits(e, log')
  BY <1>1, <1>2, <1>3, <1>4, <1>5 DEF WordFits
<1>7. QED
  BY <1>1, <1>4, <1>6, GoesOn, Driving

LEMMA ThinkEnds ==
  ASSUME OneServer, EInv, IInv', NEW s \in Servers, Think(s)
  PROVE  EInv'
<1> DEFINE d == drive[s]
<1>1. /\ d.pc = "thinking" /\ d.out = <<>> /\ UNCHANGED <<status, log>>
      /\ IsDriver(d) /\ d.final = "completed" /\ log' \in Seq(Events)
  BY DEF Think, At, run, EInv, WordFits, IInv, DriverOK
<1>2. {"text", "done", "error"} \subseteq Kinds
  BY DEF Kinds
<1>3. CASE Goes(s, [d EXCEPT !.pc = "ending", !.out = Note("error"), !.final = "failed"])
  <2> DEFINE e == [d EXCEPT !.pc = "ending", !.out = Note("error"), !.final = "failed"]
  <2>1. e.pc = "ending" /\ e.out = Note("error") /\ e.final = "failed"
    BY <1>1, Fields3
  <2>2. WordFits(e, log')
    BY <1>2, <2>1, Typed DEF WordFits, Places
  <2>3. QED
    BY <1>1, <1>3, <2>2, GoesOn, Driving
<1>4. ASSUME NEW text \in BOOLEAN,
             Goes(s, [d EXCEPT !.pc = "ending", !.out = Said(text) \o Note("done")])
      PROVE  EInv'
  <2> DEFINE out == Said(text) \o Note("done")
             e == [d EXCEPT !.pc = "ending", !.out = out]
  <2>1. out \in Seq(Events) /\ EndsWith("done", out, log')
    BY <1>2, Typed, LastWord
  <2> HIDE DEF out
  <2>2. e.pc = "ending" /\ e.out = out /\ e.final = "completed"
    BY <1>1, Fields3
  <2>3. WordFits(e, log')
    BY <2>1, <2>2 DEF WordFits, Places
  <2>4. Goes(s, e)
    BY <1>4 DEF out
  <2>5. QED
    BY <1>1, <2>3, <2>4, GoesOn, Driving
<1>5. ASSUME NEW text \in BOOLEAN, NEW calls \in Batches,
             Goes(s, [d EXCEPT !.pc = "asking", !.out = Said(text), !.calls = calls,
                               !.allowed = <<>>])
      PROVE  EInv'
  <2> DEFINE e == [d EXCEPT !.pc = "asking", !.out = Said(text), !.calls = calls,
                            !.allowed = <<>>]
  <2>1. e.pc = "asking" /\ e.out = Said(text) /\ e.final = "completed"
    BY <1>1 DEF IsDriver, Fields
  <2>2. WordFits(e, log')
    <3> HIDE DEF e
    <3>1. QED
      BY <2>1, Typed, WorkFits
  <2>3. QED
    BY <1>1, <1>5, <2>2, GoesOn, Driving
<1>6. QED
  BY <1>3, <1>4, <1>5 DEF Think

LEMMA AskEnds ==
  ASSUME OneServer, EInv, IInv', NEW s \in Servers, Ask(s)
  PROVE  EInv'
<1> DEFINE d == drive[s]
           call == d.calls[Len(d.allowed) + 1]
           e == [d EXCEPT !.allowed = Append(@, TRUE), !.out = <<Event("tool_call", call)>>]
           f == [d EXCEPT !.pc = "waiting", !.out = <<Event("confirm_request", call)>>]
<1>1. /\ d.pc = "asking" /\ Len(d.allowed) < Len(d.calls) /\ UNCHANGED <<status, log>>
      /\ IsDriver(d) /\ d.final = "completed" /\ log' \in Seq(Events)
  BY DEF Ask, At, EInv, WordFits, IInv, DriverOK
<1>2. call \in Calls
  BY <1>1 DEF EInv, IInv, DriverOK, BatchOK
<1>3. {"tool_call", "confirm_request"} \subseteq Kinds
  BY DEF Kinds
<1>4. /\ <<Event("tool_call", call)>> \in Seq(Events)
      /\ <<Event("confirm_request", call)>> \in Seq(Events)
  BY <1>2, <1>3, Typed
<1> HIDE DEF call
<1>5. e.pc = "asking" /\ e.out = <<Event("tool_call", call)>> /\ e.final = "completed"
  BY <1>1 DEF IsDriver, Fields
<1>6. f.pc = "waiting" /\ f.out = <<Event("confirm_request", call)>> /\ f.final = "completed"
  BY <1>1, Fields3
<1>7. WordFits(e, log') /\ WordFits(f, log')
  <2> HIDE DEF e, f
  <2>1. e.out \in Seq(Events) /\ f.out \in Seq(Events)
    BY <1>4, <1>5, <1>6, Zenon
  <2>2. QED
    BY <1>5, <1>6, <2>1, WorkFits
<1>8. Goes(s, e) \/ Goes(s, f)
  BY DEF Ask, call
<1>9. QED
  BY <1>1, <1>7, <1>8, GoesOn, Driving

LEMMA DecideEnds ==
  ASSUME OneServer, EInv, IInv', NEW s \in Servers, Decide(s)
  PROVE  EInv'
<1> DEFINE d == drive[s]
           call == d.calls[Len(d.allowed) + 1]
           Out(approved) == <<Event("confirmation_result", call)>> \o
                            (IF approved THEN <<Event("tool_call", call)>> ELSE <<>>)
<1>1. /\ d.pc = "waiting" /\ UNCHANGED <<status, log>>
      /\ IsDriver(d) /\ d.final = "completed" /\ log' \in Seq(Events)
  BY DEF Decide, At, run, EInv, WordFits, IInv, DriverOK
<1>2. call \in Calls
  BY <1>1 DEF EInv, IInv, DriverOK, BatchOK
<1>3. {"tool_call", "confirmation_result"} \subseteq Kinds
  BY DEF Kinds
<1>4. ASSUME NEW approved \in BOOLEAN PROVE Out(approved) \in Seq(Events)
  BY <1>2, <1>3, Typed
<1>5. PICK approved \in BOOLEAN :
        Goes(s, [d EXCEPT !.pc = "asking", !.allowed = Append(@, approved), !.out = Out(approved)])
  BY DEF Decide
<1> DEFINE out == Out(approved)
           e == [d EXCEPT !.pc = "asking", !.allowed = Append(@, approved), !.out = out]
<1>6. out \in Seq(Events)
  BY <1>4
<1>7. Goes(s, e)
  BY <1>5
<1> HIDE DEF out, Out
<1>8. e.pc = "asking" /\ e.out = out /\ e.final = "completed"
  BY <1>1 DEF IsDriver, Fields
<1>9. WordFits(e, log')
  <2> HIDE DEF e
  <2>1. QED
    BY <1>6, <1>8, WorkFits
<1>10. QED
  BY <1>1, <1>7, <1>9, GoesOn, Driving

LEMMA GatherEnds ==
  ASSUME OneServer, EInv, IInv', NEW s \in Servers, Gather(s)
  PROVE  EInv'
<1> DEFINE d == drive[s]
           outcome == [n \in DOMAIN d.calls |-> IF d.allowed[n] THEN "none" ELSE "tool_error"]
           e == [d EXCEPT !.pc = "executing", !.outcome = outcome]
<1>1. /\ d.pc = "asking" /\ d.out = <<>> /\ UNCHANGED <<status, log>>
      /\ IsDriver(d) /\ d.final = "completed" /\ log' \in Seq(Events)
  BY DEF Gather, At, run, EInv, WordFits, IInv, DriverOK
<1>2. Goes(s, e)
  BY DEF Gather
<1> HIDE DEF outcome
<1>3. e.pc = "executing" /\ e.out = <<>> /\ e.final = "completed"
  BY <1>1 DEF IsDriver, Fields
<1>4. WordFits(e, log')
  <2> HIDE DEF e
  <2>1. e.out \in Seq(Events)
    BY <1>3, NoEvents, Zenon
  <2>2. e.final = "completed" /\ e.pc \in {"thinking", "executing"}
    BY <1>3
  <2>3. QED
    BY <2>1, <2>2, WorkFits
<1>5. QED
  BY <1>1, <1>2, <1>4, GoesOn, Driving

LEMMA ExecuteEnds ==
  ASSUME OneServer, EInv, IInv', NEW s \in Servers, Execute(s)
  PROVE  EInv'
<1> DEFINE d == drive[s]
<1>1. /\ d.pc = "executing" /\ d.out = <<>> /\ UNCHANGED <<status, log>>
      /\ IsDriver(d) /\ d.final = "completed" /\ log' \in Seq(Events)
  BY DEF Execute, At, EInv, WordFits, IInv, DriverOK
<1>2. PICK n \in DOMAIN d.calls, answer \in Answers : Goes(s, [d EXCEPT !.outcome[n] = answer])
  BY DEF Execute
<1> DEFINE e == [d EXCEPT !.outcome[n] = answer]
<1>3. e.pc = "executing" /\ e.out = <<>> /\ e.final = "completed"
  BY <1>1 DEF IsDriver, Fields
<1>4. WordFits(e, log')
  <2> HIDE DEF e
  <2>1. e.out \in Seq(Events)
    BY <1>3, NoEvents, Zenon
  <2>2. e.final = "completed" /\ e.pc \in {"thinking", "executing"}
    BY <1>3
  <2>3. QED
    BY <2>1, <2>2, WorkFits
<1>5. QED
  BY <1>1, <1>2, <1>4, GoesOn, Driving

LEMMA CollectEnds ==
  ASSUME OneServer, EInv, IInv', NEW s \in Servers, Collect(s)
  PROVE  EInv'
<1> DEFINE d == drive[s]
           pc == IF d.turn + 1 < MaxTurns THEN "thinking" ELSE "closing"
           out == [n \in DOMAIN d.calls |-> Event(d.outcome[n], d.calls[n])]
           convo == d.convo \o <<Uses(Range(d.calls)), Results(Range(d.calls))>>
           e == [d EXCEPT !.turn = @ + 1, !.pc = pc, !.out = out, !.convo = convo,
                          !.calls = <<>>, !.allowed = <<>>, !.outcome = <<>>]
<1>1. /\ d.pc = "executing" /\ UNCHANGED <<status, log>> /\ "none" \notin Range(d.outcome)
      /\ IsDriver(d) /\ d.final = "completed" /\ log' \in Seq(Events)
  BY DEF Collect, At, run, EInv, WordFits, IInv, DriverOK
<1>2. Goes(s, e)
  BY DEF Collect
<1>3. /\ d.calls \in Seq(Calls) /\ d.outcome \in Seq(Answers \union {"none"})
      /\ DOMAIN d.outcome = DOMAIN d.calls
  BY <1>1 DEF EInv, IInv, DriverOK, BatchOK
<1>4. \A n \in DOMAIN d.calls : d.outcome[n] \in Answers /\ d.calls[n] \in Calls
  BY <1>1, <1>3 DEF Range
<1>5. Answers \subseteq Kinds
  BY DEF Answers, Kinds
<1>6. \A n \in DOMAIN d.calls : out[n] \in Events
  BY <1>4, <1>5, Typed
<1>7. out \in Seq(Events)
  <2>1. DOMAIN d.calls = 1..Len(d.calls) /\ Len(d.calls) \in Nat
    BY <1>3
  <2>2. out \in [1..Len(d.calls) -> Events]
    BY <1>6, <2>1
  <2> HIDE DEF out
  <2>3. QED
    BY <2>1, <2>2
<1> HIDE DEF out, convo, pc
<1>8. e.pc = pc /\ e.out = out /\ e.final = "completed"
  BY <1>1 DEF IsDriver, Fields
<1>9. pc \in {"thinking", "closing"}
  BY DEF pc
<1>10. WordFits(e, log')
  <2> HIDE DEF e
  <2>1. QED
    BY <1>7, <1>8, <1>9, WorkFits
<1>11. QED
  BY <1>1, <1>2, <1>10, GoesOn, Driving

LEMMA CloseEnds ==
  ASSUME OneServer, EInv, IInv', NEW s \in Servers, Close(s)
  PROVE  EInv'
<1> DEFINE d == drive[s]
           out == Note("text") \o Note("done")
           e == [d EXCEPT !.pc = "ending", !.out = out]
           f == [d EXCEPT !.pc = "ending", !.out = Note("incomplete"), !.final = "incomplete"]
<1>1. /\ d.pc = "closing" /\ UNCHANGED <<status, log>> /\ (Goes(s, e) \/ Goes(s, f))
      /\ IsDriver(d) /\ d.final = "completed" /\ log' \in Seq(Events)
  BY DEF Close, At, run, EInv, WordFits, IInv, DriverOK
<1>2. {"text", "done", "incomplete"} \subseteq Kinds
  BY DEF Kinds
<1>3. out \in Seq(Events) /\ EndsWith("done", out, log')
  BY <1>2, Typed, LastWord
<1> HIDE DEF out
<1>4. e.pc = "ending" /\ e.out = out /\ e.final = "completed"
  BY <1>1, Fields3
<1>5. f.pc = "ending" /\ f.out = Note("incomplete") /\ f.final = "incomplete"
  BY <1>1, Fields3
<1>6. WordFits(e, log')
  BY <1>3, <1>4 DEF WordFits, Places
<1>7. WordFits(f, log')
  BY <1>2, <1>5, Typed DEF WordFits, Places, EndsWith
<1>8. QED
  BY <1>1, <1>6, <1>7, GoesOn, Driving

\* The driver leaves the run, which may have ended before or end with it.
LEMMA LeaveEnds ==
  ASSUME OneServer, EInv, IInv', NEW s \in Servers, Goes(s, Idle), UNCHANGED log,
         status' = status \/ (drive[s].pc \in {"ending", "failing", "stopping"} /\ drive[s].out = <<>>
                              /\ status' = drive[s].final)
  PROVE  EInv'
<1>1. \A t \in Servers : drive'[t] = Idle
  BY GoesThere DEF EInv, IInv, OneServer
<1>2. WordFits(Idle, log') /\ Idle.pc = "idle"
  BY DEF WordFits, Idle, Places
<1>3. WordFits(drive[s], log)
  BY DEF EInv
<1>4. StatusMatchesLog'
  BY <1>3 DEF EInv, StatusMatchesLog, WordFits, EndsWith
<1>5. QED
  BY <1>1, <1>2, <1>4 DEF EInv

LEMMA FinishEnds ==
  ASSUME OneServer, EInv, IInv', NEW s \in Servers, Finish(s)
  PROVE  EInv'
  BY LeaveEnds DEF Finish, At

LEMMA StartEnds ==
  ASSUME OneServer, EInv, IInv', NEW s \in Servers, Start(s)
  PROVE  EInv'
<1> DEFINE e == [Idle EXCEPT !.pc = "reading"]
<1>1. UNCHANGED <<status, log>> /\ log' \in Seq(Events)
  BY DEF Start, run, EInv
<1>2. CASE status = "running"
  <2>1. Goes(s, e)
    BY <1>2 DEF Start
  <2>2. e.pc = "reading" /\ e.out = <<>>
    BY DEF Idle
  <2>3. WordFits(e, log')
    <3> HIDE DEF e
    <3>1. QED
      BY <2>2 DEF WordFits, Places
  <2>4. QED
    BY <1>1, <1>2, <2>1, <2>3, GoesOn
<1>3. CASE status # "running"
  BY <1>1, <1>3, LeaveEnds DEF Start
<1>4. QED
  BY <1>2, <1>3

LEMMA RecoverEnds ==
  ASSUME OneServer, EInv, IInv', NEW s \in Servers, Recover(s)
  PROVE  EInv'
<1> DEFINE convo == Rebuilt(log).convo
           e == [Idle EXCEPT !.pc = "stopping", !.out = Note("incomplete"), !.final = "incomplete"]
           f == Thinking(convo)
<1>1. /\ UNCHANGED <<status, log>> /\ log' \in Seq(Events) /\ status = "running"
      /\ (Goes(s, e) \/ Goes(s, f))
  BY Driving DEF Recover, At, run, EInv
<1> HIDE DEF convo
<1>2. "incomplete" \in Kinds
  BY DEF Kinds
<1>3. e.pc = "stopping" /\ e.out = Note("incomplete") /\ e.final = "incomplete"
  BY DEF Idle
<1>4. f.pc = "thinking" /\ f.out = <<>> /\ f.final = "completed"
  BY DEF Idle, Thinking
<1>5. WordFits(e, log')
  BY <1>2, <1>3, Typed DEF WordFits, Places, EndsWith
<1>6. WordFits(f, log')
  <2> HIDE DEF f
  <2>1. f.out \in Seq(Events)
    BY <1>4, NoEvents, Zenon
  <2>2. f.final = "completed" /\ f.pc \in {"thinking", "executing"}
    BY <1>4
  <2>3. QED
    BY <2>1, <2>2, WorkFits
<1>7. QED
  BY <1>1, <1>5, <1>6, GoesOn

LEMMA FailEnds ==
  ASSUME OneServer, EInv, IInv', NEW s \in Servers, Fail(s)
  PROVE  EInv'
<1> DEFINE d == drive[s]
           out == IF d.pc = "failing" THEN <<>> ELSE Note("error")
           e == [Idle EXCEPT !.pc = "failing", !.final = "failed", !.out = out]
<1>1. /\ Goes(s, e) /\ UNCHANGED status /\ d.pc # "idle"
      /\ (d.out # <<>> /\ log' = Append(log, Head(d.out))) \/ UNCHANGED log
  BY DEF Fail
<1>2. d.out \in Seq(Events) /\ log \in Seq(Events)
  BY DEF EInv, WordFits
<1>3. log' \in Seq(Events)
  BY <1>1, <1>2
<1>4. out \in Seq(Events)
  BY Typed DEF Kinds
<1> HIDE DEF out
<1>5. e.pc = "failing" /\ e.out = out /\ e.final = "failed"
  BY DEF Idle
<1>6. WordFits(e, log')
  BY <1>4, <1>5 DEF WordFits, Places
<1>7. QED
  BY <1>1, <1>3, <1>6, GoesOn, Driving

LEMMA NextEnds == OneServer /\ EInv /\ [Next]_vars => EInv'
<1> SUFFICES ASSUME OneServer, EInv, [Next]_vars PROVE EInv'
  OBVIOUS
<1>1. IInv'
  BY NextHolds DEF EInv
<1>2. CASE UNCHANGED vars
  BY <1>1, <1>2 DEF vars, run, EInv, StatusMatchesLog
<1>3. ASSUME NEW s \in Servers, Step(s) PROVE EInv'
  BY <1>1, <1>3, EmitEnds, ThinkEnds, AskEnds, DecideEnds, GatherEnds, ExecuteEnds,
     CollectEnds, CloseEnds, FinishEnds, StartEnds, RecoverEnds DEF Step
<1>4. ASSUME NEW s \in Servers, Crash(s) PROVE EInv'
  BY <1>1, <1>4, LeaveEnds DEF Crash, run
<1>5. ASSUME NEW call \in Calls, NEW decision \in {"approved", "denied"}, Resolve(call, decision)
      PROVE  EInv'
  BY <1>1, <1>5 DEF Resolve, EInv, StatusMatchesLog
<1>6. QED
  BY <1>1, <1>2, <1>3, <1>4, <1>5, FailEnds DEF Next

-----------------------------------------------------------------------------
\* The status of an ended run says what its last event says.
THEOREM StatusMatches == ASSUME OneServer PROVE Spec => []StatusMatchesLog
<1>1. EInv => StatusMatchesLog
  BY DEF EInv
<1>2. EInv /\ [Next]_vars => EInv'
  BY NextEnds
<1>3. QED
  BY <1>1, <1>2, InitEnds, PTL DEF Spec

\* A run that has ended stays ended: no event and no other status follows,
\* whatever restarts.
THEOREM EndedStays == ASSUME OneServer PROVE Spec => EndedStaysEnded
<1>1. EInv /\ [Next]_vars => [status # "running" => UNCHANGED <<status, log>>]_vars
  <2> SUFFICES ASSUME EInv, [Next]_vars, status # "running"
               PROVE  UNCHANGED <<status, log>>
    OBVIOUS
  <2>1. \A s \in Servers : drive[s].pc = "idle" /\ drive[s].out = <<>>
    BY DEF EInv, WordFits
  <2>2. \A s \in Servers : Step(s) => UNCHANGED <<status, log>>
    BY <2>1 DEF Step, Emit, Think, Ask, Decide, Gather, Execute, Collect, Close, Finish, Start,
               Recover, At, run
  <2>3. \A s \in Servers : ~Fail(s) /\ (Crash(s) => UNCHANGED <<status, log>>)
    BY <2>1 DEF Fail, Crash, run
  <2>4. QED
    BY <2>2, <2>3 DEF Next, Resolve, vars, run
<1>2. EInv /\ [Next]_vars => EInv'
  BY NextEnds
<1>3. QED
  BY <1>1, <1>2, InitEnds, PTL DEF Spec, EndedStaysEnded

-----------------------------------------------------------------------------
(* The panel that watches a run, with any number of servers.               *)

LogIsSeq == \E S : log \in Seq(S)

\* What the panel has shown is the beginning of the log up to its cursor.
PanelInv ==
  /\ LogIsSeq
  /\ panel = [f \in {"at", "cursor", "shown", "saved"} |-> panel[f]]
  /\ panel.cursor \in 0 .. Len(log)
  /\ ShownInOrder

\* The log of a run only grows, whatever stops or fails.
LEMMA LogGrows ==
  ASSUME LogIsSeq, Next \/ UNCHANGED log
  PROVE  LogIsSeq' /\ Len(log) \in Nat /\ Len(log') \in Nat /\ Len(log) <= Len(log')
<1>1. PICK S : log \in Seq(S)
  BY DEF LogIsSeq
<1>2. ASSUME NEW e, log' = Append(log, e)
      PROVE  LogIsSeq' /\ Len(log') = Len(log) + 1
  <2>1. log \in Seq(S \union {e})
    BY <1>1
  <2>2. log' \in Seq(S \union {e}) /\ Len(log') = Len(log) + 1
    BY <1>2, <2>1
  <2>3. QED
    BY <2>2 DEF LogIsSeq
<1>3. CASE UNCHANGED log
  BY <1>1, <1>3 DEF LogIsSeq
<1>4. ASSUME NEW s \in Servers, Step(s) \/ Fail(s) \/ Crash(s)
      PROVE  UNCHANGED log \/ \E e : log' = Append(log, e)
  BY <1>4 DEF Step, Emit, Think, Ask, Decide, Gather, Execute, Collect, Close, Finish, Start,
     Recover, Fail, Crash, run
<1>5. ASSUME NEW call \in Calls, NEW decision, Resolve(call, decision) PROVE UNCHANGED log
  BY <1>5 DEF Resolve
<1>6. UNCHANGED log \/ \E e : log' = Append(log, e)
  BY <1>4, <1>5 DEF Next
<1>7. QED
  BY <1>1, <1>2, <1>3, <1>6

\* Counting on from c by k continues the counting from 1 to c.
LEMMA CountOn ==
  ASSUME NEW c \in Nat, NEW k \in Nat,
         NEW old, old = [n \in 1 .. c |-> n], NEW new, new = [n \in 1 .. k |-> c + n]
  PROVE  old \o new = [n \in 1 .. c + k |-> n]
<1>1. old \in Seq(Nat) /\ new \in Seq(Nat) /\ Len(old) = c /\ Len(new) = k
  OBVIOUS
<1>2. \A n \in 1 .. c : old[n] = n
  OBVIOUS
<1>3. \A n \in 1 .. k : new[n] = c + n
  OBVIOUS
<1>4. old \o new \in Seq(Nat) /\ Len(old \o new) = c + k
  BY <1>1
<1>5. ASSUME NEW n \in 1 .. c + k PROVE (old \o new)[n] = n
  <2>1. CASE n <= c
    BY <1>1, <1>2, <2>1
  <2>2. CASE n > c
    <3>1. n - c \in 1 .. k
      BY <2>2
    <3>2. (old \o new)[n] = new[n - c]
      BY <1>1, <2>2
    <3>3. new[n - c] = c + (n - c)
      BY <1>3, <3>1
    <3>4. QED
      BY <3>2, <3>3
  <2>3. QED
    BY <2>1, <2>2
<1>6. QED
  BY <1>4, <1>5

\* The events after the cursor, however many of them come, continue what is shown.
LEMMA ShownContinues ==
  ASSUME PanelInv, NEW k \in 0 .. Unread
  PROVE  /\ Shown(k) = [f \in {"at", "cursor", "shown", "saved"} |-> Shown(k)[f]]
         /\ Shown(k).cursor \in 0 .. Len(log)
         /\ Shown(k).shown = [n \in 1 .. Shown(k).cursor |-> n]
<1>1. Len(log) \in Nat /\ panel.cursor \in 0 .. Len(log) /\ k \in 0 .. Len(log) - panel.cursor
  BY DEF PanelInv, LogIsSeq, Unread
<1>2. panel.shown = [n \in 1 .. panel.cursor |-> n]
  BY DEF PanelInv, ShownInOrder
<1>3. /\ Shown(k) = [f \in {"at", "cursor", "shown", "saved"} |-> Shown(k)[f]]
      /\ Shown(k).cursor = panel.cursor + k
      /\ Shown(k).shown = panel.shown \o [n \in 1 .. k |-> panel.cursor + n]
  BY DEF Shown, PanelInv
<1>4. panel.cursor \in Nat /\ k \in Nat /\ panel.cursor + k \in 0 .. Len(log)
  BY <1>1
<1>5. panel.shown \o [n \in 1 .. k |-> panel.cursor + n] = [n \in 1 .. panel.cursor + k |-> n]
  BY <1>2, <1>4, CountOn
<1>6. QED
  BY <1>3, <1>4, <1>5

LEMMA PanelStarts == WatchedInit => PanelInv
<1> SUFFICES ASSUME WatchedInit PROVE PanelInv
  OBVIOUS
<1>1. log = <<>> /\ panel = [at |-> "watching", cursor |-> 0, shown |-> <<>>, saved |-> TRUE]
  BY DEF WatchedInit, Init, Opened
<1>2. log \in Seq({}) /\ Len(log) = 0
  BY <1>1
<1>3. <<>> = [n \in 1 .. 0 |-> n]
  OBVIOUS
<1>4. QED
  BY <1>1, <1>2, <1>3 DEF PanelInv, LogIsSeq, ShownInOrder

LEMMA PanelHolds == PanelInv /\ [WatchedNext]_all => PanelInv'
<1> SUFFICES ASSUME PanelInv, [WatchedNext]_all PROVE PanelInv'
  OBVIOUS
<1> DEFINE Panels(p) == /\ p = [f \in {"at", "cursor", "shown", "saved"} |-> p[f]]
                        /\ p.cursor \in 0 .. Len(log)
                        /\ p.shown = [n \in 1 .. p.cursor |-> n]
<1>1. Panels(panel)
  BY DEF PanelInv, ShownInOrder
<1>2. Next \/ UNCHANGED log
  BY DEF WatchedNext, all, Watch, Read, Check, AskStatus, Drop, Reload, vars, run
<1>3. LogIsSeq' /\ Len(log) \in Nat /\ Len(log') \in Nat /\ Len(log) <= Len(log')
  BY <1>2, LogGrows DEF PanelInv
<1>4. ASSUME Panels(panel') PROVE PanelInv'
  BY <1>3, <1>4 DEF PanelInv, ShownInOrder
<1>5. ASSUME NEW p, Panels(p), NEW at, NEW saved
      PROVE  Panels([p EXCEPT !.at = at]) /\ Panels([p EXCEPT !.at = at, !.saved = saved])
  BY <1>5
<1>6. Panels(Opened)
  <2>1. <<>> = [n \in 1 .. 0 |-> n]
    OBVIOUS
  <2>2. QED
    BY <1>3, <2>1 DEF Opened
<1>7. Unread \in Nat /\ \A k \in 0 .. Unread : Panels(Shown(k))
  <2>1. Unread \in Nat
    BY <1>3 DEF PanelInv, Unread
  <2>2. QED
    BY <2>1, ShownContinues
<1> HIDE DEF Panels
<1>8. CASE Read
  <2>1. Unread \in 0 .. Unread
    BY <1>7
  <2>2. QED
    BY <1>4, <1>5, <1>7, <1>8, <2>1 DEF Read
<1>9. CASE Check
  BY <1>1, <1>4, <1>5, <1>9 DEF Check
<1>10. CASE AskStatus
  BY <1>1, <1>4, <1>5, <1>10 DEF AskStatus
<1>11. CASE Drop
  <2>1. PICK k \in 0 .. (IF panel.at = "watching" THEN Unread ELSE 0) :
          panel' = [Shown(k) EXCEPT !.at = "watching"]
    BY <1>11 DEF Drop
  <2>2. k \in 0 .. Unread
    BY <1>7
  <2>3. QED
    BY <1>4, <1>5, <1>7, <2>1, <2>2
<1>12. CASE Reload
  BY <1>4, <1>6, <1>12 DEF Reload
<1>13. CASE Next /\ panel' = (IF up' \subseteq up /\ up' # up THEN Cut ELSE panel)
  BY <1>1, <1>4, <1>5, <1>13 DEF Cut
<1>14. CASE UNCHANGED all
  BY <1>1, <1>4, <1>14 DEF all
<1>15. QED
  BY <1>8, <1>9, <1>10, <1>11, <1>12, <1>13, <1>14 DEF WatchedNext, Watch

\* The panel shows the run's events in their order, none missing and none twice,
\* however often its connection is lost, the page is loaded again or a server
\* stops.
THEOREM PanelInOrder == WatchedSpec => []ShownInOrder
<1>1. PanelInv => ShownInOrder
  BY DEF PanelInv
<1>2. QED
  BY <1>1, PanelStarts, PanelHolds, PTL DEF WatchedSpec

-----------------------------------------------------------------------------
(***************************************************************************)
(* What the model is told.  _rebuild_conversation is a fold over the       *)
(* events of the run; what holds of it is shown by induction over their    *)
(* number, in the form of least elements (WFMin).                          *)
(***************************************************************************)
LEMMA Induction ==
  ASSUME NEW T, T \subseteq Nat, 0 \in T, \A n \in T : n + 1 \in T
  PROVE  T = Nat
<1>1. PICK R : R = OpToRel(<, Nat)
  OBVIOUS
<1>2. \A x, y \in Nat : x < y => <<x, y>> \in R
  BY <1>1 DEF OpToRel
<1>3. IsWellFoundedOn(R, Nat)
  BY <1>1, NatLessThanWellFounded
<1>4. ASSUME Nat \ T # {} PROVE FALSE
  <2>1. PICK x \in Nat \ T : \A y \in Nat \ T : <<y, x>> \notin R
    BY <1>3, <1>4, WFMin
  <2>2. x # 0 /\ x - 1 \in Nat /\ x - 1 < x
    OBVIOUS
  <2>3. x - 1 \in T
    BY <1>2, <2>1, <2>2
  <2>4. QED
    BY <2>1, <2>2, <2>3
<1>5. QED
  BY <1>4

\* The scan as a function of how many events it has seen.
ScanTo(f, events, n) == IF n = 0 THEN {Scan} ELSE {Replayed(r, events[n]) : r \in f[n - 1]}
IsScan(f, events, k) == f = [n \in 0 .. k |-> ScanTo(f, events, n)]
Scanned(events)      == CHOOSE f : IsScan(f, events, Len(events))

LEMMA ScanExists ==
  ASSUME NEW events, NEW k \in Nat
  PROVE  \E f : IsScan(f, events, k)
<1>1. PICK T : T = {n \in Nat : \E f : IsScan(f, events, n)}
  OBVIOUS
<1>2. 0 \in T
  <2>1. PICK f : f = [n \in 0 .. 0 |-> {Scan}]
    OBVIOUS
  <2>2. IsScan(f, events, 0)
    BY <2>1 DEF IsScan, ScanTo
  <2>3. QED
    BY <1>1, <2>2
<1>3. ASSUME NEW n \in T PROVE n + 1 \in T
  <2>1. n \in Nat /\ \E f : IsScan(f, events, n)
    BY <1>1
  <2>2. PICK f : IsScan(f, events, n)
    BY <2>1
  <2>3. PICK g : g = [m \in 0 .. n + 1 |-> IF m = n + 1 THEN ScanTo(f, events, m) ELSE f[m]]
    OBVIOUS
  <2>4. \A m \in 0 .. n : g[m] = f[m]
    BY <2>1, <2>3
  <2>5. \A m \in 0 .. n : f[m] = ScanTo(f, events, m)
    BY <2>2 DEF IsScan
  <2>6. \A m \in 0 .. n + 1 : ScanTo(g, events, m) = ScanTo(f, events, m)
    <3>1. ASSUME NEW m \in 0 .. n + 1, m # 0 PROVE g[m - 1] = f[m - 1]
      BY <2>1, <2>4, <3>1
    <3>2. QED
      BY <3>1 DEF ScanTo
  <2>7. \A m \in 0 .. n + 1 : g[m] = ScanTo(g, events, m)
    <3>1. ASSUME NEW m \in 0 .. n + 1 PROVE g[m] = ScanTo(f, events, m)
      <4>1. CASE m = n + 1
        BY <2>3, <4>1
      <4>2. CASE m # n + 1
        BY <2>1, <2>3, <2>5, <4>2
      <4>3. QED
        BY <4>1, <4>2
    <3>2. QED
      BY <2>6, <3>1
  <2>8. g = [m \in 0 .. n + 1 |-> ScanTo(g, events, m)]
    BY <2>3, <2>7
  <2>9. QED
    BY <1>1, <2>1, <2>8 DEF IsScan
<1>4. T = Nat
  BY <1>1, <1>2, <1>3, Induction
<1>5. QED
  BY <1>1, <1>4

LEMMA RebuiltIs ==
  ASSUME NEW events
  PROVE  Rebuilt(events) = CHOOSE r \in {FlushResults(FlushUses(q)) : q \in Scanned(events)[Len(events)]} : TRUE
  BY DEF Rebuilt, Scanned, IsScan, ScanTo

\* A reading of a run's events: its parts, and that it knows the calls of the
\* first n, those that are answered as such.
Named    == Calls \union {NoCall}
Messages == [role : {"assistant", "user"}, calls : SUBSET Named]
Reading(r) ==
  /\ DOMAIN r = {"convo", "said", "uses", "results", "pending"}
  /\ r.convo \in Seq(Messages)
  /\ r.uses \subseteq Named /\ r.results \subseteq Named
Told(r) == Answered(r.convo) \union r.results
Knows(r, events, n) ==
  /\ Reading(r)
  /\ \A m \in 1 .. n : events[m].kind = "tool_call" => events[m].call \in Told(r) \union r.pending

LEMMA AnsweredAppend ==
  ASSUME NEW convo \in Seq(Messages), NEW message \in Messages
  PROVE  /\ Append(convo, message) \in Seq(Messages)
         /\ Answered(Append(convo, message)) =
              Answered(convo) \union (IF message.role = "user" THEN message.calls ELSE {})
<1>1. PICK next : next = Append(convo, message)
  OBVIOUS
<1>2. /\ next \in Seq(Messages) /\ Len(convo) \in Nat
      /\ DOMAIN convo = 1 .. Len(convo) /\ DOMAIN next = 1 .. Len(convo) + 1
      /\ \A n \in 1 .. Len(convo) : next[n] = convo[n]
      /\ next[Len(convo) + 1] = message
  BY <1>1
<1>3. ASSUME NEW c \in Answered(next)
      PROVE  c \in Answered(convo) \/ (message.role = "user" /\ c \in message.calls)
  BY <1>2 DEF Answered
<1>4. ASSUME NEW c \in Answered(convo) PROVE c \in Answered(next)
  BY <1>2 DEF Answered
<1>5. message.role = "user" => message.calls \subseteq Answered(next)
  BY <1>2 DEF Answered
<1>6. QED
  BY <1>1, <1>2, <1>3, <1>4, <1>5

LEMMA FlushUsesKeeps ==
  ASSUME NEW r, Reading(r)
  PROVE  /\ Reading(FlushUses(r)) /\ Told(r) \subseteq Told(FlushUses(r))
         /\ FlushUses(r).results = r.results /\ FlushUses(r).pending = r.pending
<1>1. CASE r.said \/ r.uses # {}
  <2>1. PICK message, next : message = Uses(r.uses) /\ next = Append(r.convo, message)
    OBVIOUS
  <2>2. message \in Messages
    BY <2>1 DEF Uses, Messages, Reading
  <2>3. next \in Seq(Messages) /\ Answered(r.convo) \subseteq Answered(next)
    BY <2>1, <2>2, AnsweredAppend DEF Reading
  <2>4. PICK q : q = [r EXCEPT !.convo = next, !.said = FALSE, !.uses = {}]
    OBVIOUS
  <2>5. FlushUses(r) = q
    BY <1>1, <2>1, <2>4 DEF FlushUses
  <2>6. /\ DOMAIN q = DOMAIN r /\ q.convo = next /\ q.uses = {}
        /\ q.results = r.results /\ q.pending = r.pending
    BY <2>4 DEF Reading
  <2>7. QED
    BY <2>3, <2>5, <2>6 DEF Reading, Told
<1>2. CASE ~(r.said \/ r.uses # {})
  BY <1>2 DEF FlushUses
<1>3. QED
  BY <1>1, <1>2

LEMMA FlushResultsKeeps ==
  ASSUME NEW r, Reading(r)
  PROVE  /\ Reading(FlushResults(r)) /\ Told(r) \subseteq Told(FlushResults(r))
         /\ FlushResults(r).results = {} /\ FlushResults(r).pending = r.pending
<1>1. CASE r.results # {}
  <2>1. PICK message, next : message = Results(r.results) /\ next = Append(r.convo, message)
    OBVIOUS
  <2>2. message \in Messages /\ message.role = "user" /\ message.calls = r.results
    BY <2>1 DEF Results, Messages, Reading
  <2>3. next \in Seq(Messages) /\ Answered(next) = Answered(r.convo) \union r.results
    BY <2>1, <2>2, AnsweredAppend DEF Reading
  <2>4. PICK q : q = [r EXCEPT !.convo = next, !.results = {}]
    OBVIOUS
  <2>5. FlushResults(r) = q
    BY <1>1, <2>1, <2>4 DEF FlushResults
  <2>6. /\ DOMAIN q = DOMAIN r /\ q.convo = next /\ q.uses = r.uses
        /\ q.results = {} /\ q.pending = r.pending
    BY <2>4 DEF Reading
  <2>7. QED
    BY <2>3, <2>5, <2>6 DEF Reading, Told
<1>2. CASE ~(r.results # {})
  BY <1>2 DEF FlushResults
<1>3. QED
  BY <1>1, <1>2

\* What has been read stays known when one more event is read.
LEMMA ReplayedKnows ==
  ASSUME NEW r, Reading(r), NEW event \in Events
  PROVE  /\ Reading(Replayed(r, event))
         /\ Told(r) \union r.pending \subseteq Told(Replayed(r, event)) \union Replayed(r, event).pending
         /\ event.kind = "tool_call" => event.call \in Replayed(r, event).pending
<1>1. CASE event.kind = "text"
  <2>1. PICK q : q = FlushUses(FlushResults(r))
    OBVIOUS
  <2>2. Reading(q) /\ Told(r) \subseteq Told(q) /\ q.pending = r.pending
    BY <2>1, FlushUsesKeeps, FlushResultsKeeps
  <2>3. PICK p : p = [q EXCEPT !.said = TRUE]
    OBVIOUS
  <2>4. Replayed(r, event) = p
    BY <1>1, <2>1, <2>3 DEF Replayed, Answers
  <2>5. DOMAIN p = DOMAIN q /\ p.convo = q.convo /\ p.uses = q.uses /\ p.results = q.results /\ p.pending = q.pending
    BY <2>2, <2>3 DEF Reading
  <2>6. QED
    BY <1>1, <2>2, <2>4, <2>5 DEF Reading, Told
<1>2. CASE event.kind = "tool_call"
  <2>1. PICK p : p = [r EXCEPT !.pending = @ \union {event.call}, !.uses = @ \union {event.call}]
    OBVIOUS
  <2>2. Replayed(r, event) = p
    BY <1>2, <2>1 DEF Replayed, Answers
  <2>3. /\ DOMAIN p = DOMAIN r /\ p.convo = r.convo /\ p.results = r.results
        /\ p.uses = r.uses \union {event.call} /\ p.pending = r.pending \union {event.call}
    BY <2>1 DEF Reading
  <2>4. QED
    BY <1>2, <2>2, <2>3 DEF Reading, Told, Events, Named
<1>3. CASE event.kind \in Answers
  <2>1. PICK q : q = FlushUses(r)
    OBVIOUS
  <2>2. Reading(q) /\ Told(r) \subseteq Told(q) /\ q.pending = r.pending
    BY <2>1, FlushUsesKeeps
  <2>3. PICK p : p = [q EXCEPT !.pending = @ \ {event.call}, !.results = @ \union {event.call}]
    OBVIOUS
  <2>4. Replayed(r, event) = p
    BY <1>3, <2>1, <2>3 DEF Replayed, Answers
  <2>5. /\ DOMAIN p = DOMAIN q /\ p.convo = q.convo /\ p.uses = q.uses
        /\ p.results = q.results \union {event.call} /\ p.pending = q.pending \ {event.call}
    BY <2>2, <2>3 DEF Reading
  <2>6. QED
    BY <1>3, <2>2, <2>4, <2>5 DEF Reading, Told, Answers, Events, Named
<1>4. CASE event.kind \notin {"text", "tool_call"} \union Answers
  BY <1>4 DEF Replayed
<1>5. QED
  BY <1>1, <1>2, <1>3, <1>4

LEMMA ScanKnows ==
  ASSUME NEW events \in Seq(Events)
  PROVE  \E r : Scanned(events)[Len(events)] = {r} /\ Knows(r, events, Len(events))
<1>1. PICK k, f : k = Len(events) /\ f = Scanned(events)
  OBVIOUS
<1>2. k \in Nat /\ DOMAIN events = 1 .. k /\ \A n \in 1 .. k : events[n] \in Events
  BY <1>1
<1>3. IsScan(f, events, k)
  BY <1>1, <1>2, ScanExists DEF Scanned
<1>4. \A n \in 0 .. k : f[n] = ScanTo(f, events, n)
  BY <1>3 DEF IsScan
<1>5. PICK T : T = {n \in Nat : n <= k => \E r : f[n] = {r} /\ Knows(r, events, n)}
  OBVIOUS
<1>6. 0 \in T
  <2>1. f[0] = ScanTo(f, events, 0)
    BY <1>2, <1>4
  <2>2. f[0] = {Scan}
    BY <2>1 DEF ScanTo
  <2>3. Knows(Scan, events, 0)
    BY DEF Knows, Reading, Scan
  <2>4. QED
    BY <1>5, <2>2, <2>3
<1>7. ASSUME NEW n \in T PROVE n + 1 \in T
  <2> SUFFICES ASSUME n + 1 <= k
               PROVE  \E r : f[n + 1] = {r} /\ Knows(r, events, n + 1)
    BY <1>5
  <2>1. n \in Nat /\ \E r : f[n] = {r} /\ Knows(r, events, n)
    BY <1>2, <1>5
  <2>2. PICK r : f[n] = {r} /\ Knows(r, events, n)
    BY <2>1
  <2>3. PICK m, event : m = n + 1 /\ event = events[m]
    OBVIOUS
  <2>4. m \in 1 .. k /\ m \in 0 .. k /\ m # 0 /\ m - 1 = n /\ \A i \in 1 .. m : i = m \/ i \in 1 .. n
    BY <1>2, <2>1, <2>3
  <2>5. PICK q : q = Replayed(r, event)
    OBVIOUS
  <2>6. f[m] = {q}
    BY <1>4, <2>2, <2>3, <2>4, <2>5 DEF ScanTo
  <2>7. event \in Events
    BY <1>2, <2>3, <2>4
  <2>8. /\ Reading(q) /\ Told(r) \union r.pending \subseteq Told(q) \union q.pending
        /\ event.kind = "tool_call" => event.call \in q.pending
    BY <2>2, <2>5, <2>7, ReplayedKnows DEF Knows
  <2>9. Knows(q, events, m)
    BY <2>2, <2>3, <2>4, <2>8 DEF Knows
  <2>10. QED
    BY <2>3, <2>6, <2>9
<1>8. T = Nat
  BY <1>5, <1>6, <1>7, Induction
<1>9. QED
  BY <1>1, <1>2, <1>5, <1>8

\* The conversation that is rebuilt answers every call that the events name,
\* unless the run is uncertain.
LEMMA RebuiltKnows ==
  ASSUME NEW events \in Seq(Events)
  PROVE  /\ Rebuilt(events).convo \in Seq(Messages)
         /\ ~Uncertain(events) => \A n \in DOMAIN events :
              events[n].kind = "tool_call" => events[n].call \in Answered(Rebuilt(events).convo)
<1>1. PICK q : Scanned(events)[Len(events)] = {q} /\ Knows(q, events, Len(events))
  BY ScanKnows
<1>2. PICK r : r = FlushResults(FlushUses(q))
  OBVIOUS
<1>3. Rebuilt(events) = r
  BY <1>1, <1>2, RebuiltIs
<1>4. Reading(r) /\ Told(q) \subseteq Told(r) /\ r.results = {} /\ r.pending = q.pending
  BY <1>1, <1>2, FlushUsesKeeps, FlushResultsKeeps DEF Knows
<1>5. DOMAIN events = 1 .. Len(events)
  OBVIOUS
<1>6. QED
  BY <1>1, <1>3, <1>4, <1>5 DEF Knows, Told, Reading, Uncertain

-----------------------------------------------------------------------------
(* The invariant: an effect belongs to a call whose announcement is in the *)
(* log, and the driver that has it done tells the model.                   *)
Held(q, event) == \E n \in DOMAIN q : q[n] = event

Informed(d, events, done) ==
  /\ d.pc \in {"thinking", "asking", "waiting", "closing"} => done \subseteq Answered(d.convo)
  /\ d.pc = "executing" => d.out = <<>> /\ done \subseteq Answered(d.convo) \union Range(d.calls)
  /\ d.convo \in Seq(Messages)
  /\ \A n \in DOMAIN d.allowed : d.allowed[n] =>
       Held(events, Event("tool_call", d.calls[n])) \/ Held(d.out, Event("tool_call", d.calls[n]))

KInv ==
  /\ EInv
  /\ \A c \in performed : Held(log, Event("tool_call", c))
  /\ \A s \in Servers : Informed(drive[s], log, performed)

LEMMA GoesInformed ==
  ASSUME OneServer, KInv, EInv', NEW s \in Servers, NEW e, Goes(s, e),
         Informed(e, log', performed'), \A c \in performed' : Held(log', Event("tool_call", c))
  PROVE  KInv'
<1>1. drive'[s] = e
  BY GoesThere DEF KInv, EInv, IInv
<1>2. \A t \in Servers : Informed(drive'[t], log', performed')
  BY <1>1 DEF OneServer
<1>3. QED
  BY <1>2 DEF KInv

\* Whatever a step that announces and does nothing finds is there after it.
LEMMA SameInformed ==
  ASSUME OneServer, KInv, EInv', NEW s \in Servers, NEW e, Goes(s, e), UNCHANGED <<log, performed>>,
         Informed(e, log, performed)
  PROVE  KInv'
<1>1. Informed(e, log', performed') /\ \A c \in performed' : Held(log', Event("tool_call", c))
  BY DEF KInv
<1>2. QED
  BY <1>1, GoesInformed

LEMMA NothingHeld == \A event : ~Held(<<>>, event)
<1>1. DOMAIN <<>> = {}
  OBVIOUS
<1>2. QED
  BY <1>1 DEF Held

LEMMA AnewInformed ==
  ASSUME NEW e, e.pc \notin {"thinking", "asking", "waiting", "closing", "executing"},
         e.convo = <<>>, e.allowed = <<>>, NEW events, NEW done
  PROVE  Informed(e, events, done)
  BY DEF Informed

\* An event that is appended is in the log, with those before it.
LEMMA HeldOn ==
  ASSUME NEW events \in Seq(Events), NEW event \in Events
  PROVE  /\ Held(Append(events, event), event)
         /\ \A other : Held(events, other) => Held(Append(events, event), other)
<1>1. PICK next : next = Append(events, event)
  OBVIOUS
<1>2. /\ Len(events) \in Nat /\ DOMAIN events = 1 .. Len(events) /\ DOMAIN next = 1 .. Len(events) + 1
      /\ \A n \in 1 .. Len(events) : next[n] = events[n]
      /\ next[Len(events) + 1] = event
  BY <1>1
<1>3. QED
  BY <1>1, <1>2 DEF Held

\* A driver keeps its conversation and its batch, and its queue was empty.
LEMMA QuietInformed ==
  ASSUME NEW d, NEW e, NEW events, NEW done, Informed(d, events, done), d.out = <<>>,
         e.convo = d.convo, e.calls = d.calls, e.allowed = d.allowed,
         \/ e.pc \notin {"thinking", "asking", "waiting", "closing", "executing"}
         \/ /\ d.pc \in {"thinking", "asking", "waiting", "closing"}
            /\ e.pc \in {"thinking", "asking", "waiting", "closing"} \/ (e.pc = "executing" /\ e.out = <<>>)
  PROVE  Informed(e, events, done)
  BY NothingHeld DEF Informed

LEMMA InitInformed == Init => KInv
<1> SUFFICES ASSUME Init PROVE KInv
  OBVIOUS
<1>1. PICK s \in Servers : drive = [t \in Servers |-> IF t = s THEN Thinking(<<>>) ELSE Idle]
  BY DEF Init
<1>2. PICK d, e : d = Thinking(<<>>) /\ e = Idle
  OBVIOUS
<1>3. d.pc = "thinking" /\ d.convo = <<>> /\ d.allowed = <<>>
  BY <1>2 DEF Thinking, Idle
<1>4. e.pc = "idle" /\ e.convo = <<>> /\ e.allowed = <<>>
  BY <1>2 DEF Idle
<1>5. performed = {}
  BY DEF Init
<1>6. Informed(d, log, performed) /\ Informed(e, log, performed)
  BY <1>3, <1>4, <1>5 DEF Informed
<1>7. \A t \in Servers : Informed(drive[t], log, performed)
  BY <1>1, <1>2, <1>6
<1>8. QED
  BY <1>5, <1>7, InitEnds DEF KInv

LEMMA EmitInformed ==
  ASSUME OneServer, KInv, EInv', NEW s \in Servers, Emit(s)
  PROVE  KInv'
<1>1. PICK d, event, rest : d = drive[s] /\ event = Head(d.out) /\ rest = Tail(d.out)
  OBVIOUS
<1>2. PICK e : e = [d EXCEPT !.out = rest]
  OBVIOUS
<1>3. Goes(s, e) /\ d.out # <<>> /\ log' = Append(log, event) /\ UNCHANGED performed
  BY <1>1, <1>2 DEF Emit
<1>4. d.out \in Seq(Events) /\ log \in Seq(Events) /\ IsDriver(d) /\ Informed(d, log, performed)
  BY <1>1 DEF KInv, EInv, WordFits, IInv, DriverOK
<1>5. /\ event \in Events /\ rest \in Seq(Events)
      /\ Len(d.out) \in Nat /\ Len(rest) = Len(d.out) - 1
      /\ DOMAIN d.out = 1 .. Len(d.out) /\ DOMAIN rest = 1 .. Len(rest)
      /\ \A n \in 1 .. Len(rest) : rest[n] = d.out[n + 1]
      /\ event = d.out[1]
  BY <1>1, <1>3, <1>4
<1>6. ASSUME NEW other, Held(d.out, other) PROVE other = event \/ Held(rest, other)
  <2>1. PICK n \in 1 .. Len(d.out) : d.out[n] = other
    BY <1>5, <1>6 DEF Held
  <2>2. CASE n = 1
    BY <1>5, <2>1, <2>2
  <2>3. CASE n # 1
    <3>1. n - 1 \in 1 .. Len(rest) /\ n - 1 + 1 = n
      BY <1>5, <2>1, <2>3
    <3>2. rest[n - 1] = other
      BY <1>5, <2>1, <3>1
    <3>3. QED
      BY <1>5, <3>1, <3>2 DEF Held
  <2>4. QED
    BY <2>2, <2>3
<1>7. Held(log', event) /\ \A other : Held(log, other) => Held(log', other)
  BY <1>3, <1>4, <1>5, HeldOn
<1>8. /\ e.out = rest /\ e.pc = d.pc /\ e.convo = d.convo /\ e.calls = d.calls /\ e.allowed = d.allowed
  BY <1>2, <1>4 DEF IsDriver, Fields
<1>9. Informed(e, log', performed')
  BY <1>3, <1>4, <1>6, <1>7, <1>8 DEF Informed
<1>10. \A c \in performed' : Held(log', Event("tool_call", c))
  BY <1>3, <1>7 DEF KInv
<1>11. QED
  BY <1>3, <1>9, <1>10, GoesInformed

\* The model answers, and the driver closes: the conversation stays what it is.
LEMMA ThinkInformed ==
  ASSUME OneServer, KInv, EInv', NEW s \in Servers, Think(s) \/ Close(s)
  PROVE  KInv'
<1>1. PICK d : d = drive[s]
  OBVIOUS
<1>2. /\ d.pc \in {"thinking", "closing"} /\ d.out = <<>> /\ UNCHANGED <<log, performed>>
      /\ IsDriver(d) /\ Informed(d, log, performed)
  BY <1>1 DEF Think, Close, At, run, KInv, EInv, IInv, DriverOK
<1>3. ASSUME NEW out, NEW final, Goes(s, [d EXCEPT !.pc = "ending", !.out = out, !.final = final])
      PROVE  KInv'
  <2>1. PICK e : e = [d EXCEPT !.pc = "ending", !.out = out, !.final = final]
    OBVIOUS
  <2>2. e.pc = "ending" /\ e.convo = d.convo /\ e.calls = d.calls /\ e.allowed = d.allowed
    BY <1>2, <2>1 DEF IsDriver, Fields
  <2>3. Informed(e, log, performed)
    BY <1>2, <2>2, QuietInformed
  <2>4. QED
    BY <1>2, <1>3, <2>1, <2>3, SameInformed
<1>4. ASSUME NEW out, Goes(s, [d EXCEPT !.pc = "ending", !.out = out])
      PROVE  KInv'
  <2>1. PICK e : e = [d EXCEPT !.pc = "ending", !.out = out]
    OBVIOUS
  <2>2. e.pc = "ending" /\ e.convo = d.convo /\ e.calls = d.calls /\ e.allowed = d.allowed
    BY <1>2, <2>1 DEF IsDriver, Fields
  <2>3. Informed(e, log, performed)
    BY <1>2, <2>2, QuietInformed
  <2>4. QED
    BY <1>2, <1>4, <2>1, <2>3, SameInformed
<1>5. ASSUME NEW out, NEW calls, d.pc = "thinking",
             Goes(s, [d EXCEPT !.pc = "asking", !.out = out, !.calls = calls, !.allowed = <<>>])
      PROVE  KInv'
  <2>1. PICK e : e = [d EXCEPT !.pc = "asking", !.out = out, !.calls = calls, !.allowed = <<>>]
    OBVIOUS
  <2>2. e.pc = "asking" /\ e.convo = d.convo /\ e.allowed = <<>>
    BY <1>2, <2>1 DEF IsDriver, Fields
  <2>3. Informed(e, log, performed)
    BY <1>2, <1>5, <2>2 DEF Informed
  <2>4. QED
    BY <1>2, <1>5, <2>1, <2>3, SameInformed
<1>6. CASE Think(s)
  BY <1>1, <1>3, <1>4, <1>5, <1>6 DEF Think, At
<1>7. CASE Close(s)
  BY <1>1, <1>3, <1>4, <1>7 DEF Close
<1>8. QED
  BY <1>6, <1>7

\* One decision more: what is allowed is about to be announced.
LEMMA AllowedInformed ==
  ASSUME NEW d, NEW e, NEW events, NEW done, NEW approved \in BOOLEAN,
         Informed(d, events, done), d.out = <<>>,
         d.pc \in {"asking", "waiting"}, e.pc = "asking",
         d.allowed \in Seq(BOOLEAN), e.allowed = Append(d.allowed, approved),
         e.convo = d.convo, e.calls = d.calls,
         approved => Held(e.out, Event("tool_call", d.calls[Len(d.allowed) + 1]))
  PROVE  Informed(e, events, done)
<1>1. PICK k : k = Len(d.allowed) + 1
  OBVIOUS
<1>2. /\ DOMAIN e.allowed = 1 .. k /\ e.allowed[k] = approved
      /\ \A n \in 1 .. k : n = k \/ (n \in DOMAIN d.allowed /\ e.allowed[n] = d.allowed[n])
  BY <1>1
<1>3. ASSUME NEW n \in DOMAIN e.allowed, e.allowed[n]
      PROVE  Held(events, Event("tool_call", e.calls[n])) \/ Held(e.out, Event("tool_call", e.calls[n]))
  <2>1. CASE n = k
    BY <1>1, <1>2, <1>3, <2>1
  <2>2. CASE n # k
    <3>1. n \in DOMAIN d.allowed /\ d.allowed[n]
      BY <1>2, <1>3, <2>2
    <3>2. QED
      BY <3>1, NothingHeld DEF Informed
  <2>3. QED
    BY <2>1, <2>2
<1>4. QED
  BY <1>3 DEF Informed

LEMMA AskInformed ==
  ASSUME OneServer, KInv, EInv', NEW s \in Servers, Ask(s)
  PROVE  KInv'
<1>1. PICK d, call : d = drive[s] /\ call = d.calls[Len(d.allowed) + 1]
  OBVIOUS
<1>2. /\ d.pc = "asking" /\ d.out = <<>> /\ UNCHANGED <<log, performed>>
      /\ IsDriver(d) /\ Informed(d, log, performed) /\ d.allowed \in Seq(BOOLEAN)
  BY <1>1 DEF Ask, At, KInv, EInv, IInv, DriverOK, BatchOK
<1>3. PICK out : out = <<Event("tool_call", call)>>
  OBVIOUS
<1>4. Held(out, Event("tool_call", call))
  BY <1>3 DEF Held
<1>5. PICK e : e = [d EXCEPT !.allowed = Append(@, TRUE), !.out = out]
  OBVIOUS
<1>6. PICK f : f = [d EXCEPT !.pc = "waiting", !.out = <<Event("confirm_request", call)>>]
  OBVIOUS
<1>7. Goes(s, e) \/ Goes(s, f)
  BY <1>1, <1>3, <1>5, <1>6 DEF Ask
<1>8. CASE Goes(s, e)
  <2>1. /\ e.pc = "asking" /\ e.out = out /\ e.convo = d.convo /\ e.calls = d.calls
        /\ e.allowed = Append(d.allowed, TRUE)
    BY <1>2, <1>5 DEF IsDriver, Fields
  <2>2. Informed(e, log, performed)
    BY <1>1, <1>2, <1>4, <2>1, AllowedInformed
  <2>3. QED
    BY <1>2, <1>8, <2>2, SameInformed
<1>9. CASE Goes(s, f)
  <2>1. f.pc = "waiting" /\ f.convo = d.convo /\ f.calls = d.calls /\ f.allowed = d.allowed
    BY <1>2, <1>6 DEF IsDriver, Fields
  <2>2. Informed(f, log, performed)
    BY <1>2, <2>1, QuietInformed
  <2>3. QED
    BY <1>2, <1>9, <2>2, SameInformed
<1>10. QED
  BY <1>7, <1>8, <1>9

LEMMA DecideInformed ==
  ASSUME OneServer, KInv, EInv', NEW s \in Servers, Decide(s)
  PROVE  KInv'
<1>1. PICK d, call : d = drive[s] /\ call = d.calls[Len(d.allowed) + 1]
  OBVIOUS
<1>2. /\ d.pc = "waiting" /\ d.out = <<>> /\ UNCHANGED <<log, performed>>
      /\ IsDriver(d) /\ Informed(d, log, performed) /\ d.allowed \in Seq(BOOLEAN)
  BY <1>1 DEF Decide, At, run, KInv, EInv, IInv, DriverOK, BatchOK
<1>3. PICK approved \in BOOLEAN :
        Goes(s, [d EXCEPT !.pc = "asking", !.allowed = Append(@, approved),
                 !.out = <<Event("confirmation_result", call)>> \o
                         (IF approved THEN <<Event("tool_call", call)>> ELSE <<>>)])
  BY <1>1 DEF Decide
<1>4. PICK out : out = <<Event("confirmation_result", call)>> \o
                       (IF approved THEN <<Event("tool_call", call)>> ELSE <<>>)
  OBVIOUS
<1>5. PICK e : e = [d EXCEPT !.pc = "asking", !.allowed = Append(@, approved), !.out = out]
  OBVIOUS
<1>6. Goes(s, e)
  BY <1>3, <1>4, <1>5
<1>7. approved => Held(out, Event("tool_call", call))
  <2> SUFFICES ASSUME approved PROVE Held(out, Event("tool_call", call))
    OBVIOUS
  <2>1. PICK told, announced : told = Event("confirmation_result", call) /\ announced = Event("tool_call", call)
    OBVIOUS
  <2>2. out = <<told>> \o <<announced>>
    BY <1>4, <2>1
  <2>3. DOMAIN out = 1 .. 2 /\ out[2] = announced
    BY <2>2
  <2>4. QED
    BY <2>1, <2>3 DEF Held
<1>8. /\ e.pc = "asking" /\ e.out = out /\ e.convo = d.convo /\ e.calls = d.calls
      /\ e.allowed = Append(d.allowed, approved)
  BY <1>2, <1>5 DEF IsDriver, Fields
<1>9. Informed(e, log, performed)
  BY <1>1, <1>2, <1>7, <1>8, AllowedInformed
<1>10. QED
  BY <1>2, <1>6, <1>9, SameInformed

LEMMA GatherInformed ==
  ASSUME OneServer, KInv, EInv', NEW s \in Servers, Gather(s)
  PROVE  KInv'
<1>1. PICK d, outcome : /\ d = drive[s]
                        /\ outcome = [n \in DOMAIN d.calls |-> IF d.allowed[n] THEN "none" ELSE "tool_error"]
  OBVIOUS
<1>2. /\ d.pc = "asking" /\ d.out = <<>> /\ UNCHANGED <<log, performed>>
      /\ IsDriver(d) /\ Informed(d, log, performed)
  BY <1>1 DEF Gather, At, run, KInv, EInv, IInv, DriverOK
<1>3. PICK e : e = [d EXCEPT !.pc = "executing", !.outcome = outcome]
  OBVIOUS
<1>4. Goes(s, e)
  BY <1>1, <1>3 DEF Gather
<1>5. e.pc = "executing" /\ e.out = d.out /\ e.convo = d.convo /\ e.calls = d.calls /\ e.allowed = d.allowed
  BY <1>2, <1>3 DEF IsDriver, Fields
<1>6. Informed(e, log, performed)
  BY <1>2, <1>5, QuietInformed
<1>7. QED
  BY <1>2, <1>4, <1>6, SameInformed

\* A call that runs has been announced.
LEMMA RunningIsLogged ==
  ASSUME KInv, NEW s \in Servers, NEW n \in DOMAIN drive[s].outcome, drive[s].outcome[n] = "none"
  PROVE  /\ drive[s].pc = "executing" /\ n \in DOMAIN drive[s].calls
         /\ Held(log, Event("tool_call", drive[s].calls[n]))
<1>1. PICK d : d = drive[s]
  OBVIOUS
<1>2. /\ BatchOK(d.calls, d.allowed, d.outcome, d.pc, confirmation)
      /\ Informed(d, log, performed)
  BY <1>1 DEF KInv, EInv, IInv, DriverOK
<1>3. d.pc = "executing" /\ n \in DOMAIN d.allowed /\ d.allowed[n] /\ DOMAIN d.outcome = DOMAIN d.calls
  BY <1>1, <1>2 DEF BatchOK
<1>4. d.out = <<>>
  BY <1>2, <1>3 DEF Informed
<1>5. QED
  BY <1>1, <1>2, <1>3, <1>4, NothingHeld DEF Informed

LEMMA ExecuteInformed ==
  ASSUME OneServer, KInv, EInv', NEW s \in Servers, Execute(s)
  PROVE  KInv'
<1>1. PICK d : d = drive[s]
  OBVIOUS
<1>2. /\ d.pc = "executing" /\ d.out = <<>> /\ UNCHANGED log
      /\ IsDriver(d) /\ Informed(d, log, performed) /\ DOMAIN d.outcome = DOMAIN d.calls
  BY <1>1 DEF Execute, At, KInv, EInv, IInv, DriverOK, BatchOK
<1>3. PICK n \in DOMAIN d.calls, answer \in Answers :
        /\ d.outcome[n] = "none"
        /\ performed' \subseteq performed \union {d.calls[n]}
        /\ Goes(s, [d EXCEPT !.outcome[n] = answer])
  BY <1>1 DEF Execute
<1>4. PICK e : e = [d EXCEPT !.outcome[n] = answer]
  OBVIOUS
<1>5. e.pc = d.pc /\ e.out = d.out /\ e.convo = d.convo /\ e.calls = d.calls /\ e.allowed = d.allowed
  BY <1>2, <1>4 DEF IsDriver, Fields
<1>6. Held(log, Event("tool_call", d.calls[n]))
  BY <1>1, <1>2, <1>3, RunningIsLogged
<1>7. d.calls[n] \in Range(d.calls)
  BY DEF Range
<1>8. Informed(e, log', performed')
  BY <1>2, <1>3, <1>5, <1>7 DEF Informed
<1>9. \A c \in performed' : Held(log', Event("tool_call", c))
  BY <1>2, <1>3, <1>6 DEF KInv
<1>10. QED
  BY <1>3, <1>4, <1>8, <1>9, GoesInformed

LEMMA CollectInformed ==
  ASSUME OneServer, KInv, EInv', NEW s \in Servers, Collect(s)
  PROVE  KInv'
<1>1. PICK d, calls, asked, told :
        d = drive[s] /\ calls = Range(d.calls) /\ asked = Uses(calls) /\ told = Results(calls)
  OBVIOUS
<1>2. /\ d.pc = "executing" /\ UNCHANGED <<log, performed>>
      /\ IsDriver(d) /\ Informed(d, log, performed) /\ d.calls \in Seq(Calls)
  BY <1>1 DEF Collect, At, run, KInv, EInv, IInv, DriverOK, BatchOK
<1>3. d.convo \in Seq(Messages) /\ performed \subseteq Answered(d.convo) \union calls
  BY <1>1, <1>2 DEF Informed
<1>4. asked \in Messages /\ told \in Messages /\ told.role = "user" /\ told.calls = calls
  BY <1>1, <1>2 DEF Range, Uses, Results, Messages, Named
<1>5. PICK mid, convo : mid = Append(d.convo, asked) /\ convo = Append(mid, told)
  OBVIOUS
<1>6. d.convo \o <<asked, told>> = convo
  BY <1>3, <1>4, <1>5
<1>7. convo \in Seq(Messages) /\ performed \subseteq Answered(convo)
  <2>1. mid \in Seq(Messages) /\ Answered(d.convo) \subseteq Answered(mid)
    BY <1>3, <1>4, <1>5, AnsweredAppend
  <2>2. convo \in Seq(Messages) /\ Answered(convo) = Answered(mid) \union calls
    BY <1>4, <1>5, <2>1, AnsweredAppend
  <2>3. QED
    BY <1>3, <2>1, <2>2
<1>8. PICK pc, out, turn :
        /\ pc # "executing"
        /\ Goes(s, [d EXCEPT !.turn = turn, !.pc = pc, !.out = out, !.convo = convo,
                             !.calls = <<>>, !.allowed = <<>>, !.outcome = <<>>])
  <2>1. PICK pc : pc = IF d.turn + 1 < MaxTurns THEN "thinking" ELSE "closing"
    OBVIOUS
  <2>2. PICK out : out = [n \in DOMAIN d.calls |-> Event(d.outcome[n], d.calls[n])]
    OBVIOUS
  <2>3. Goes(s, [d EXCEPT !.turn = @ + 1, !.pc = pc, !.out = out, !.convo = convo,
                          !.calls = <<>>, !.allowed = <<>>, !.outcome = <<>>])
    BY <1>1, <1>6, <2>1, <2>2 DEF Collect
  <2>4. pc # "executing"
    BY <2>1
  <2>5. QED
    BY <2>3, <2>4
<1>9. PICK e : e = [d EXCEPT !.turn = turn, !.pc = pc, !.out = out, !.convo = convo,
                             !.calls = <<>>, !.allowed = <<>>, !.outcome = <<>>]
  OBVIOUS
<1>10. e.convo = convo /\ e.allowed = <<>> /\ e.pc = pc
  BY <1>2, <1>9 DEF IsDriver, Fields
<1>11. Informed(e, log, performed)
  BY <1>7, <1>8, <1>10 DEF Informed
<1>12. QED
  BY <1>2, <1>8, <1>9, <1>11, SameInformed

\* The driver is gone, or is only about to read the events.
LEMMA RestInformed ==
  ASSUME OneServer, KInv, EInv', NEW s \in Servers, Finish(s) \/ Crash(s) \/ Start(s)
  PROVE  KInv'
<1>1. PICK e : Goes(s, e) /\ (e = Idle \/ e = [Idle EXCEPT !.pc = "reading"])
  BY DEF Finish, Crash, Start
<1>2. UNCHANGED <<log, performed>>
  BY DEF Finish, Crash, Start, run
<1>3. e.pc \in {"idle", "reading"} /\ e.convo = <<>> /\ e.allowed = <<>>
  BY <1>1 DEF Idle
<1>4. QED
  BY <1>1, <1>2, <1>3, AnewInformed, SameInformed

LEMMA RecoverInformed ==
  ASSUME OneServer, KInv, EInv', NEW s \in Servers, Recover(s)
  PROVE  KInv'
<1>1. UNCHANGED <<log, performed>> /\ log \in Seq(Events)
  BY DEF Recover, run, KInv, EInv
<1>2. CASE Uncertain(log)
  <2>1. PICK e : e = [Idle EXCEPT !.pc = "stopping", !.out = Note("incomplete"), !.final = "incomplete"]
    OBVIOUS
  <2>2. Goes(s, e)
    BY <1>2, <2>1 DEF Recover
  <2>3. e.pc = "stopping" /\ e.convo = <<>> /\ e.allowed = <<>>
    BY <2>1 DEF Idle
  <2>4. QED
    BY <1>1, <2>2, <2>3, AnewInformed, SameInformed
<1>3. CASE ~Uncertain(log)
  <2>1. PICK convo : convo = Rebuilt(log).convo
    OBVIOUS
  <2>2. PICK e : e = Thinking(convo)
    OBVIOUS
  <2>3. Goes(s, e)
    BY <1>3, <2>1, <2>2 DEF Recover
  <2>4. e.pc = "thinking" /\ e.convo = convo /\ e.allowed = <<>>
    BY <2>2 DEF Thinking, Idle
  <2>5. /\ convo \in Seq(Messages)
        /\ \A n \in DOMAIN log : log[n].kind = "tool_call" => log[n].call \in Answered(convo)
    BY <1>1, <1>3, <2>1, RebuiltKnows
  <2>6. performed \subseteq Answered(convo)
    <3> SUFFICES ASSUME NEW c \in performed PROVE c \in Answered(convo)
      OBVIOUS
    <3>1. PICK n \in DOMAIN log : log[n] = Event("tool_call", c)
      BY DEF KInv, Held
    <3>2. log[n].kind = "tool_call" /\ log[n].call = c
      BY <3>1 DEF Event
    <3>3. QED
      BY <2>5, <3>2
  <2>7. Informed(e, log, performed)
    BY <2>4, <2>5, <2>6 DEF Informed
  <2>8. QED
    BY <1>1, <2>3, <2>7, SameInformed
<1>4. QED
  BY <1>2, <1>3

LEMMA FailInformed ==
  ASSUME OneServer, KInv, EInv', NEW s \in Servers, Fail(s)
  PROVE  KInv'
<1>1. PICK d, out : d = drive[s] /\ out = IF d.pc = "failing" THEN <<>> ELSE Note("error")
  OBVIOUS
<1>2. PICK e : e = [Idle EXCEPT !.pc = "failing", !.final = "failed", !.out = out]
  OBVIOUS
<1>3. /\ Goes(s, e)
      /\ (d.out # <<>> /\ log' = Append(log, Head(d.out))) \/ UNCHANGED log
      /\ \A c \in performed' : c \in performed \/ \E n \in DOMAIN d.outcome : d.outcome[n] = "none" /\ c = d.calls[n]
  BY <1>1, <1>2 DEF Fail
<1>4. \A c \in performed' : Held(log, Event("tool_call", c))
  BY <1>1, <1>3, RunningIsLogged DEF KInv
<1>5. d.out \in Seq(Events) /\ log \in Seq(Events)
  BY <1>1 DEF KInv, EInv, WordFits
<1>6. d.out # <<>> => Head(d.out) \in Events
  BY <1>5
<1>7. \A event : Held(log, event) => Held(log', event)
  BY <1>3, <1>5, <1>6, HeldOn
<1>8. e.pc = "failing" /\ e.convo = <<>> /\ e.allowed = <<>>
  BY <1>2 DEF Idle
<1>9. QED
  BY <1>3, <1>4, <1>7, <1>8, AnewInformed, GoesInformed

LEMMA NextInformed == OneServer /\ KInv /\ [Next]_vars => KInv'
<1> SUFFICES ASSUME OneServer, KInv, [Next]_vars PROVE KInv'
  OBVIOUS
<1>1. EInv'
  BY NextEnds DEF KInv
<1>2. CASE UNCHANGED vars
  BY <1>1, <1>2 DEF vars, run, KInv
<1>3. ASSUME NEW s \in Servers, Step(s) PROVE KInv'
  BY <1>1, <1>3, EmitInformed, ThinkInformed, AskInformed, DecideInformed, GatherInformed,
     ExecuteInformed, CollectInformed, RestInformed, RecoverInformed DEF Step
<1>4. ASSUME NEW call \in Calls, NEW decision \in {"approved", "denied"}, Resolve(call, decision)
      PROVE  KInv'
  BY <1>1, <1>4 DEF Resolve, KInv
<1>5. QED
  BY <1>1, <1>2, <1>3, <1>4, RestInformed, FailInformed DEF Next

\* Whenever the model is asked what to do next, by a first driver or by one
\* that recovered the run, it is told of every side effect the run has had.
THEOREM EffectsKnown == ASSUME OneServer PROVE Spec => []ModelKnowsEffects
<1>1. KInv => ModelKnowsEffects
  BY DEF KInv, Informed, ModelKnowsEffects
<1>2. KInv /\ [Next]_vars => KInv'
  BY NextInformed
<1>3. QED
  BY <1>1, <1>2, InitInformed, PTL DEF Spec
=============================================================================
