------------------------ MODULE ResearchConsoleProofs ------------------------
(***************************************************************************)
(* Proofs about the pages of a researcher, for all studies, documents and  *)
(* bounds.                                                                 *)
(*                                                                         *)
(* The evaluation that a study page shows never goes back: only a reload   *)
(* takes it away, which the page offers before it has shown anything.  A   *)
(* page that shows a live study keeps polling.  A notice that still offers *)
(* to undo would bring back only what is marked.  The outputs of a trial   *)
(* are recorded as a run once, unless the answer that said so was lost.    *)
(* The cards of the drawer show what a run has done, as far as it has been *)
(* taken in.                                                               *)
(* The notes of a report are numbered as a reader meets them: the index    *)
(* holds each citation once, in the order of its first use (Indexes), so   *)
(* that a finding meets the next numbers or those already met (InTurn).    *)
(***************************************************************************)
EXTENDS ResearchConsole, SequenceTheorems, FiniteSetTheorems, WellFoundedInduction, TLAPS

CallFields == {"st", "seen", "version", "current"}

\* What the page of a study relies on when it shows an evaluation.
CallsTyped ==
  /\ DOMAIN calls = Operator!Names
  /\ \A n \in Operator!Names :
       /\ DOMAIN calls[n] = CallFields
       /\ calls[n].version \in Nat
       /\ calls[n].st = "detail read" => calls[n].seen \in Operator!Statuses

BenchTyped ==
  /\ {"form", "cites", "write"} = DOMAIN bench
  /\ DOMAIN bench.write = DOMAIN Operator!Resting
  /\ bench.write.version \in Nat

\* Before the study has been read there is nothing to show.
Unread ==
  study.detail = "none" =>
    shown = 0 /\ \A n \in Operator!Names : calls[n].st \notin {"eval", "eval read"}

Forward ==
  /\ \E S : docs \in Seq(S)
  /\ shown \in Nat /\ campaign \in Operator!Statuses
  /\ "detail" \in DOMAIN study
  /\ CallsTyped /\ BenchTyped /\ Unread

-----------------------------------------------------------------------------
LEMMA NoCallIs ==
  /\ DOMAIN Operator!NoCall = CallFields /\ Operator!NoCall.version = 0 /\ Operator!NoCall.st = "idle"
  /\ \A s : /\ DOMAIN Operator!Asked(s) = CallFields
            /\ Operator!Asked(s).version \in Nat /\ Operator!Asked(s).st = s
  BY DEF Operator!NoCall, Operator!Asked, CallFields

LEMMA RestingIs == Operator!Resting.version = 0 /\ Operator!NewBench.write = Operator!Resting /\ DOMAIN Operator!NewBench = {"form", "cites", "write"}
  BY DEF Operator!Resting, Operator!NewBench

\* What is shown is the newer of two versions.
LEMMA ShownAfterIs ==
  ASSUME shown \in Nat, NEW v \in Nat
  PROVE  Operator!ShownAfter(v) \in Nat /\ Operator!ShownAfter(v) >= shown
  BY DEF Operator!ShownAfter

\* The program is a sequence of workspaces, and stays one.
LEMMA AppendIs ==
  ASSUME \E S : docs \in Seq(S), NEW w
  PROVE  (\E S : Append(docs, w) \in Seq(S)) /\ Operator!Version \in Nat
<1>1. PICK S : docs \in Seq(S)
  OBVIOUS
<1>2. docs \in Seq(S \cup {w})
  BY <1>1
<1>3. Append(docs, w) \in Seq(S \cup {w}) /\ Operator!Version \in Nat
  BY <1>2 DEF Operator!Version
<1>4. QED
  BY <1>3

-----------------------------------------------------------------------------
(* The workbench.                                                          *)

LEMMA FormsForward ==
  ASSUME Forward, UNCHANGED <<campaign, planned, study, calls>>,
         (\E f \in Operator!Forms : Operator!Fill(f)) \/ (\E a \in 0 .. MaxTyped : Operator!Cite(a)) \/ Operator!Press
  PROVE  Forward' /\ UNCHANGED shown
<1>1. UNCHANGED <<docs, shown>>
  BY DEF Operator!Fill, Operator!Cite, Operator!Press, Operator!Submit, Operator!AttachEvidence,
         Operator!AcceptEvidence, Operator!RejectEvidence, Operator!BindVersions, Operator!RecordTrial,
         Operator!RecordCalibration, Operator!Recompute
<1>2. CASE (\E f \in Operator!Forms : Operator!Fill(f)) \/ (\E a \in 0 .. MaxTyped : Operator!Cite(a))
  <2>1. BenchTyped'
    BY <1>2 DEF Forward, BenchTyped, Operator!Fill, Operator!Cite
  <2>2. QED
    BY <1>1, <2>1 DEF Forward, CallsTyped, Unread
<1>3. CASE Operator!Press
  <2>1. PICK form, what : Operator!Submit(form, what)
    BY <1>3 DEF Operator!Press, Operator!AttachEvidence,
         Operator!AcceptEvidence, Operator!RejectEvidence, Operator!BindVersions, Operator!RecordTrial,
         Operator!RecordCalibration, Operator!Recompute
  <2>2. BenchTyped'
    BY <2>1, RestingIs DEF Forward, BenchTyped, Operator!Submit, Operator!Resting
  <2>3. QED
    BY <1>1, <2>2 DEF Forward, CallsTyped, Unread
<1>4. QED
  BY <1>2, <1>3

\* What becomes of a write: it is answered, read again, or over.
Answered(v) == [bench EXCEPT !.write.st = "answered", !.write.answer = "ok", !.write.version = v]
Refused     == [bench EXCEPT !.write.st = "answered", !.write.answer = "refused"]
Rereading   == [bench EXCEPT !.write.st = "reading"]

LEMMA BenchAnswered ==
  ASSUME BenchTyped, NEW v \in Nat, bench' = Answered(v)
  PROVE  BenchTyped'
<1>1. bench' = [bench EXCEPT !.write = [bench.write EXCEPT !.st = "answered", !.answer = "ok", !.version = v]]
  BY DEF BenchTyped, Answered
<1>2. bench'.write = [bench.write EXCEPT !.st = "answered", !.answer = "ok", !.version = v]
  BY <1>1 DEF BenchTyped
<1>3. DOMAIN bench' = DOMAIN bench
  BY <1>1
<1>4. bench'.write.version = v /\ DOMAIN bench'.write = DOMAIN bench.write
  BY <1>2 DEF BenchTyped, Operator!Resting
<1>5. QED
  BY <1>3, <1>4 DEF BenchTyped

LEMMA BenchRefused ==
  ASSUME BenchTyped, bench' = Refused \/ bench' = Rereading
  PROVE  BenchTyped'
<1>1. CASE bench' = Refused
  <2>1. bench'.write = [bench.write EXCEPT !.st = "answered", !.answer = "refused"] /\ DOMAIN bench' = DOMAIN bench
    BY <1>1 DEF BenchTyped, Refused
  <2>2. bench'.write.version = bench.write.version /\ DOMAIN bench'.write = DOMAIN bench.write
    BY <2>1 DEF BenchTyped, Operator!Resting
  <2>3. QED
    BY <2>1, <2>2 DEF BenchTyped
<1>2. CASE bench' = Rereading
  BY <1>2 DEF BenchTyped, Rereading, Operator!Resting
<1>3. QED
  BY <1>1, <1>2

LEMMA BenchOver ==
  ASSUME BenchTyped, NEW f, NEW c,
         bench' = [bench EXCEPT !.write = Operator!Resting, !.form = f, !.cites = c]
  PROVE  BenchTyped'
  BY RestingIs DEF BenchTyped

LEMMA WritesForward ==
  ASSUME Forward, study.detail # "none", UNCHANGED <<campaign, planned, study, calls>>,
         Operator!WriteGoesOn
  PROVE  Forward' /\ shown' >= shown
<1>1. /\ Operator!Version \in Nat /\ shown \in Nat /\ shown >= shown
      /\ \A v \in Nat : Operator!ShownAfter(v) \in Nat /\ Operator!ShownAfter(v) >= shown
  BY AppendIs, ShownAfterIs DEF Forward
<1>2. SUFFICES /\ \E S : docs' \in Seq(S)
               /\ shown' \in Nat /\ shown' >= shown
               /\ BenchTyped'
  BY DEF Forward, CallsTyped, Unread
<1>3. CASE Operator!ServeWrite
  <2>1. (docs' = docs \/ \E w : docs' = Append(docs, w)) /\ UNCHANGED shown
    BY <1>3 DEF Operator!ServeWrite
  <2>2. \E S : docs' \in Seq(S)
    BY <2>1, AppendIs DEF Forward
  <2>3. BenchTyped /\ Operator!Version + 1 \in Nat
    BY <1>1 DEF Forward
  <2>4. ASSUME bench' = Answered(Operator!Version + 1) \/ bench' = Answered(Operator!Version)
        PROVE  BenchTyped'
    <3>1. PICK v \in Nat : bench' = Answered(v)
      BY <1>1, <2>3, <2>4
    <3>2. QED
      BY <2>3, <3>1, BenchAnswered
  <2>5. ASSUME bench' = Refused \/ bench' = Rereading
        PROVE  BenchTyped'
    BY <2>3, <2>5, BenchRefused
  <2>6. BenchTyped'
    BY <1>3, <2>4, <2>5 DEF Operator!ServeWrite, Answered, Refused, Rereading
  <2>7. QED
    BY <1>1, <2>1, <2>2, <2>6
<1>4. CASE Operator!WriteAnswered
  <2>1. UNCHANGED docs /\ (shown' = shown \/ shown' = Operator!ShownAfter(bench.write.version))
    BY <1>4 DEF Operator!WriteAnswered
  <2>2. BenchTyped'
    <3>1. CASE bench' = [bench EXCEPT !.write = Operator!Resting, !.form = Operator!Cleared(bench.write.form),
                                      !.cites = IF bench.write.form = "evidence" THEN @ \cup {bench.write.what} ELSE @]
      <4> DEFINE f == Operator!Cleared(bench.write.form)
                 c == IF bench.write.form = "evidence" THEN bench.cites \cup {bench.write.what} ELSE bench.cites
      <4>1. bench' = [bench EXCEPT !.write = Operator!Resting, !.form = f, !.cites = c]
        BY <3>1 DEF Forward, BenchTyped
      <4> HIDE DEF f, c
      <4>2. QED
        BY <4>1, BenchOver DEF Forward
    <3>2. CASE bench' = Rereading
      BY <3>2, BenchRefused DEF Forward
    <3>3. QED
      BY <1>4, <3>1, <3>2 DEF Operator!WriteAnswered, Rereading
  <2>3. QED
    BY <1>1, <2>1, <2>2 DEF Forward, BenchTyped
<1>5. CASE Operator!ServeReread
  <2>1. BenchTyped' /\ UNCHANGED <<docs, shown>>
    BY <1>1, <1>5 DEF Forward, BenchTyped, Operator!ServeReread, Operator!Resting
  <2>2. QED
    BY <1>1, <2>1 DEF Forward
<1>6. CASE Operator!RereadAnswered
  <2>1. UNCHANGED docs /\ (shown' = shown \/ shown' = Operator!ShownAfter(bench.write.version))
    BY <1>6 DEF Operator!RereadAnswered
  <2>2. BenchTyped'
    BY <1>6, RestingIs DEF Forward, BenchTyped, Operator!RereadAnswered
  <2>3. QED
    BY <1>1, <2>1, <2>2 DEF Forward, BenchTyped
<1>7. QED
  BY <1>3, <1>4, <1>5, <1>6 DEF Operator!WriteGoesOn

LEMMA MeanwhileForward ==
  ASSUME Forward, Operator!Meanwhile, UNCHANGED <<campaign, planned, study, calls>>
  PROVE  Forward' /\ UNCHANGED shown
<1>1. \E S : docs' \in Seq(S)
  BY AppendIs DEF Forward, Operator!Meanwhile
<1>2. UNCHANGED <<shown, bench>>
  BY DEF Operator!Meanwhile
<1>3. QED
  BY <1>1, <1>2 DEF Forward, CallsTyped, BenchTyped, Unread

-----------------------------------------------------------------------------
(* The calls of the page.                                                  *)

\* Steps that only make a call go on, or end.
LEMMA CallForward ==
  ASSUME Forward, UNCHANGED <<docs, shown, bench>>,
         campaign' \in Operator!Statuses, "detail" \in DOMAIN study', study'.detail = study.detail,
         DOMAIN calls' = Operator!Names,
         \A n \in Operator!Names :
           \/ calls'[n] = calls[n]
           \/ /\ DOMAIN calls'[n] = CallFields /\ calls'[n].version \in Nat
              /\ calls'[n].st = "detail read" => calls'[n].seen \in Operator!Statuses
              /\ study.detail = "none" => calls'[n].st \notin {"eval", "eval read"}
  PROVE  Forward'
<1>1. CallsTyped'
  BY DEF Forward, CallsTyped
<1>2. BenchTyped' /\ Unread'
  BY DEF Forward, BenchTyped, Unread
<1>3. QED
  BY <1>1, <1>2 DEF Forward

\* A call that is over, or asked anew.
LEMMA OverForward ==
  ASSUME Forward, UNCHANGED <<docs, shown, bench>>,
         campaign' \in Operator!Statuses, "detail" \in DOMAIN study', study'.detail = study.detail,
         NEW n \in Operator!Names, NEW r, calls' = [calls EXCEPT ![n] = r],
         DOMAIN r = CallFields, r.version \in Nat, r.st # "detail read", r.st \notin {"eval", "eval read"}
  PROVE  Forward'
<1>1. DOMAIN calls = Operator!Names
  BY DEF Forward, CallsTyped
<1>2. DOMAIN calls' = Operator!Names /\ calls'[n] = r /\ \A m \in Operator!Names \ {n} : calls'[m] = calls[m]
  BY <1>1
<1>3. \A m \in Operator!Names :
        \/ calls'[m] = calls[m]
        \/ /\ DOMAIN calls'[m] = CallFields /\ calls'[m].version \in Nat
           /\ calls'[m].st = "detail read" => calls'[m].seen \in Operator!Statuses
           /\ study.detail = "none" => calls'[m].st \notin {"eval", "eval read"}
  <2>1. /\ DOMAIN calls'[n] = CallFields /\ calls'[n].version \in Nat
        /\ calls'[n].st # "detail read" /\ calls'[n].st \notin {"eval", "eval read"}
    BY <1>2, Zenon
  <2>2. QED
    BY <1>2, <2>1, Zenon
<1>4. QED
  BY <1>2, <1>3, CallForward

LEMMA RestForward ==
  ASSUME Forward, UNCHANGED <<docs, shown, bench>>,
         campaign' \in Operator!Statuses, "detail" \in DOMAIN study', study'.detail = study.detail,
         NEW n \in Operator!Names, calls' = Operator!Over(n)
  PROVE  Forward' /\ UNCHANGED shown
<1>1. /\ DOMAIN Operator!NoCall = CallFields /\ Operator!NoCall.version \in Nat
      /\ Operator!NoCall.st # "detail read" /\ Operator!NoCall.st \notin {"eval", "eval read"}
  BY NoCallIs
<1>2. calls' = [calls EXCEPT ![n] = Operator!NoCall]
  BY DEF Operator!Over
<1>3. QED
  BY <1>1, <1>2, OverForward

LEMMA AskedForward ==
  ASSUME Forward, UNCHANGED <<docs, shown, bench>>,
         campaign' \in Operator!Statuses, "detail" \in DOMAIN study', study'.detail = study.detail,
         NEW n \in Operator!Names, NEW s, s \notin {"detail read", "eval", "eval read"},
         calls' = [calls EXCEPT ![n] = Operator!Asked(s)]
  PROVE  Forward' /\ UNCHANGED shown
<1> DEFINE r == Operator!Asked(s)
<1>1. DOMAIN r = CallFields /\ r.version \in Nat /\ r.st = s
  BY NoCallIs, Zenon
<1>2. r.st # "detail read" /\ r.st \notin {"eval", "eval read"}
  BY <1>1, Zenon
<1>3. QED
  BY <1>1, <1>2, OverForward

LEMMA AskingForward ==
  ASSUME Forward, NEW n \in Operator!Names, Operator!ServeDetail(n) \/ Operator!ServeEval(n)
  PROVE  Forward' /\ UNCHANGED shown
<1>1. /\ DOMAIN calls = Operator!Names /\ DOMAIN calls[n] = CallFields /\ calls[n].version \in Nat
      /\ Operator!Version \in Nat /\ campaign \in Operator!Statuses
  BY AppendIs DEF Forward, CallsTyped
<1>2. CASE Operator!ServeDetail(n)
  <2>1. calls' = [calls EXCEPT ![n].st = "detail read", ![n].seen = campaign] /\ UNCHANGED <<campaign, study, docs, shown, bench>>
    BY <1>2 DEF Operator!ServeDetail, Operator!benchVars
  <2>2. /\ DOMAIN calls' = Operator!Names
        /\ \A m \in Operator!Names \ {n} : calls'[m] = calls[m]
        /\ DOMAIN calls'[n] = CallFields /\ calls'[n].version = calls[n].version
        /\ calls'[n].st = "detail read" /\ calls'[n].seen = campaign
    BY <1>1, <2>1 DEF CallFields
  <2>3. QED
    BY <1>1, <2>1, <2>2, CallForward DEF Forward
<1>3. CASE Operator!ServeEval(n)
  <2>1. /\ calls' = [calls EXCEPT ![n].st = "eval read", ![n].version = Operator!Version]
        /\ calls[n].st = "eval" /\ UNCHANGED <<campaign, study, docs, shown, bench>>
    BY <1>3 DEF Operator!ServeEval, Operator!benchVars
  <2>2. /\ DOMAIN calls' = Operator!Names
        /\ \A m \in Operator!Names \ {n} : calls'[m] = calls[m]
        /\ DOMAIN calls'[n] = CallFields /\ calls'[n].version = Operator!Version /\ calls'[n].st = "eval read"
    BY <1>1, <2>1 DEF CallFields
  <2>3. study.detail # "none"
    BY <2>1 DEF Forward, Unread
  <2>4. QED
    BY <1>1, <2>1, <2>2, <2>3, CallForward DEF Forward
<1>4. QED
  BY <1>2, <1>3

LEMMA DetailedIs ==
  ASSUME "detail" \in DOMAIN study, NEW s
  PROVE  DOMAIN Operator!Detailed(s) = DOMAIN study /\ Operator!Detailed(s).detail = s
  BY DEF Operator!Detailed

\* A read of the details shows them, and no older evaluation.
LEMMA DetailForward ==
  ASSUME Forward, NEW n \in Operator!Names, Operator!DetailRead(n)
  PROVE  Forward' /\ UNCHANGED shown
<1> DEFINE s == calls[n].seen
<1>1. /\ DOMAIN calls = Operator!Names /\ \A m \in Operator!Names : DOMAIN calls[m] = CallFields /\ calls[m].version \in Nat
      /\ s \in Operator!Statuses /\ calls[n].st = "detail read" /\ "detail" \in DOMAIN study
      /\ \A m \in Operator!Names : calls[m].st = "detail read" => calls[m].seen \in Operator!Statuses
  BY DEF Forward, CallsTyped, Operator!DetailRead
<1>2. UNCHANGED <<campaign, planned, docs, shown, bench>>
  BY DEF Operator!DetailRead
<1>3. BenchTyped' /\ (\E S : docs' \in Seq(S)) /\ shown' \in Nat /\ campaign' \in Operator!Statuses
  BY <1>2 DEF Forward, BenchTyped
<1>4. s # "none"
  BY <1>1 DEF Operator!Statuses
<1>5. ASSUME study'.detail = s, "detail" \in DOMAIN study',
             NEW next, calls' = Operator!CallsOnDetail(s, n, next),
             DOMAIN next = CallFields, next.version \in Nat, next.st # "detail read"
      PROVE  Forward'
  <2>1. ASSUME NEW m \in Operator!Names
        PROVE  /\ DOMAIN calls'[m] = CallFields /\ calls'[m].version \in Nat
               /\ calls'[m].st = "detail read" => calls'[m].seen \in Operator!Statuses
    <3>1. \/ calls'[m] = next \/ calls'[m] = [next EXCEPT !.current = FALSE]
          \/ calls'[m] = Operator!Asked("eval")
          \/ calls'[m] = calls[m] \/ calls'[m] = [calls[m] EXCEPT !.current = FALSE]
      BY <1>5, <2>1 DEF Operator!CallsOnDetail
    <3>2. CASE calls'[m] = next \/ calls'[m] = [next EXCEPT !.current = FALSE]
      BY <1>5, <3>2 DEF CallFields
    <3>3. CASE calls'[m] = calls[m] \/ calls'[m] = [calls[m] EXCEPT !.current = FALSE]
      <4> DEFINE c == calls[m]
      <4>1. DOMAIN c = CallFields /\ c.version \in Nat /\ (c.st = "detail read" => c.seen \in Operator!Statuses)
        BY <1>1, <2>1
      <4>2. calls'[m] = c \/ calls'[m] = [c EXCEPT !.current = FALSE]
        BY <3>3
      <4> HIDE DEF c
      <4>3. QED
        BY <4>1, <4>2 DEF CallFields
    <3>4. CASE calls'[m] = Operator!Asked("eval")
      BY <3>4 DEF Operator!Asked, Operator!NoCall, CallFields
    <3>5. QED
      BY <3>1, <3>2, <3>3, <3>4
  <2>2. DOMAIN calls' = Operator!Names
    BY <1>5 DEF Operator!CallsOnDetail
  <2>3. CallsTyped' /\ Unread'
    BY <1>4, <1>5, <2>1, <2>2 DEF CallsTyped, Unread
  <2>4. QED
    BY <1>3, <1>5, <2>3 DEF Forward
<1>6. CASE /\ n \notin Operator!Polls \/ ~planned
           /\ study' = [Operator!Detailed(s) EXCEPT !.busy = Operator!Released(n),
                          !.timer = @ \/ (n \in Operator!Polls /\ calls[n].current /\ s = "live")]
           /\ calls' = Operator!CallsOnDetail(s, n, Operator!NoCall)
  <2>1. study'.detail = s /\ "detail" \in DOMAIN study'
    BY <1>1, <1>6, DetailedIs
  <2>2. DOMAIN Operator!NoCall = CallFields /\ Operator!NoCall.version \in Nat /\ Operator!NoCall.st # "detail read"
    BY NoCallIs
  <2>3. QED
    BY <1>2, <1>5, <1>6, <2>1, <2>2
<1>7. CASE /\ n \in Operator!Polls /\ planned
           /\ study' = [Operator!Detailed(s) EXCEPT !.evalLoading = TRUE]
           /\ calls' = Operator!CallsOnDetail(s, n, [calls[n] EXCEPT !.st = "eval"])
  <2>1. study'.detail = s /\ "detail" \in DOMAIN study'
    BY <1>1, <1>7, DetailedIs
  <2> DEFINE next == [calls[n] EXCEPT !.st = "eval"]
  <2>2. DOMAIN next = CallFields /\ next.version \in Nat /\ next.st # "detail read"
    BY <1>1 DEF CallFields
  <2>3. calls' = Operator!CallsOnDetail(s, n, next)
    BY <1>7
  <2> HIDE DEF next
  <2>4. QED
    BY <1>2, <1>5, <2>1, <2>2, <2>3
<1>8. CASE /\ calls' = Operator!Over(n)
           /\ study' = [study EXCEPT !.failed = @ \/ n = "load", !.busy = Operator!Released(n),
                                     !.timer = Operator!Rescheduled(n, FALSE)]
  <2>1. study'.detail = study.detail /\ "detail" \in DOMAIN study'
    BY <1>1, <1>8
  <2>2. QED
    BY <1>2, <1>3, <1>8, <2>1, RestForward
<1>9. QED
  BY <1>2, <1>6, <1>7, <1>8 DEF Operator!DetailRead

\* An evaluation that is read is shown if it is newer.
LEMMA EvalForward ==
  ASSUME Forward, NEW n \in Operator!Names, Operator!EvalRead(n)
  PROVE  Forward' /\ shown' >= shown
<1>1. /\ shown \in Nat /\ calls[n].version \in Nat /\ calls[n].st = "eval read" /\ study.detail # "none"
      /\ calls' = Operator!Over(n) /\ UNCHANGED <<campaign, planned, docs, bench>>
  BY DEF Forward, CallsTyped, Unread, Operator!EvalRead
<1>2. shown' \in Nat /\ shown' >= shown
  <2>1. shown' = shown \/ shown' = Operator!ShownAfter(calls[n].version)
    BY DEF Operator!EvalRead
  <2> DEFINE v == calls[n].version
  <2>2. v \in Nat /\ (shown' = shown \/ shown' = Operator!ShownAfter(v))
    BY <1>1, <2>1
  <2> HIDE DEF v
  <2>3. shown \in Nat /\ shown >= shown
    BY DEF Forward
  <2>4. Operator!ShownAfter(v) \in Nat /\ Operator!ShownAfter(v) >= shown
    BY <2>2, <2>3, ShownAfterIs
  <2>5. QED
    BY <2>2, <2>3, <2>4, Zenon
<1>3. study'.detail = study.detail /\ "detail" \in DOMAIN study'
  BY DEF Operator!EvalRead, Forward
<1>4. DOMAIN calls' = Operator!Names /\ \A m \in Operator!Names : calls'[m] = calls[m] \/ calls'[m] = Operator!NoCall
  BY <1>1 DEF Forward, CallsTyped, Operator!Over
<1>5. CallsTyped'
  <2>1. ASSUME NEW m \in Operator!Names
        PROVE  /\ DOMAIN calls'[m] = CallFields /\ calls'[m].version \in Nat
               /\ calls'[m].st = "detail read" => calls'[m].seen \in Operator!Statuses
    <3>1. CASE calls'[m] = calls[m]
      BY <3>1 DEF Forward, CallsTyped
    <3>2. CASE calls'[m] = Operator!NoCall
      BY <3>2, NoCallIs
    <3>3. QED
      BY <1>4, <3>1, <3>2
  <2>2. QED
    BY <1>4, <2>1 DEF CallsTyped
<1>6. BenchTyped' /\ Unread'
  BY <1>1, <1>3 DEF Forward, BenchTyped, Unread
<1>7. QED
  BY <1>1, <1>2, <1>3, <1>5, <1>6 DEF Forward

-----------------------------------------------------------------------------
(* A page that opens.                                                      *)

OpenedTyped(c, s, b) ==
  /\ DOMAIN c = Operator!Names
  /\ \A n \in Operator!Names : /\ DOMAIN c[n] = CallFields /\ c[n].version \in Nat
                              /\ c[n].st \notin {"detail read", "eval", "eval read"}
  /\ "detail" \in DOMAIN s
  /\ {"form", "cites", "write"} = DOMAIN b /\ DOMAIN b.write = DOMAIN Operator!Resting /\ b.write.version \in Nat

LEMMA OpenedIs == OpenedTyped(Operator!Opening, Operator!Loading, Operator!NewBench)
<1>1. ASSUME NEW n \in Operator!Names
      PROVE  /\ DOMAIN Operator!Opening[n] = CallFields /\ Operator!Opening[n].version \in Nat
             /\ Operator!Opening[n].st \notin {"detail read", "eval", "eval read"}
  <2>1. CASE Operator!Opening[n] = Operator!Asked("detail")
    BY <2>1 DEF Operator!Asked, Operator!NoCall, CallFields
  <2>2. CASE Operator!Opening[n] = Operator!NoCall
    BY <2>2 DEF Operator!NoCall, CallFields
  <2>3. QED
    BY <2>1, <2>2 DEF Operator!Opening
<1>2. DOMAIN Operator!Opening = Operator!Names /\ "detail" \in DOMAIN Operator!Loading
  BY DEF Operator!Opening, Operator!Loading
<1>3. /\ {"form", "cites", "write"} = DOMAIN Operator!NewBench /\ Operator!NewBench.write.version \in Nat
      /\ DOMAIN Operator!NewBench.write = DOMAIN Operator!Resting
  <2>1. Operator!Resting.version \in Nat
    BY RestingIs
  <2>2. QED
    BY <2>1, RestingIs, Zenon
<1>4. QED
  BY <1>1, <1>2, <1>3, Zenon DEF OpenedTyped

-----------------------------------------------------------------------------
(* The buttons and the timer.                                              *)

\* Publishing, closing and exporting, up to the reads that follow them.
LEMMA CommandsForward ==
  ASSUME Forward,
         \/ Operator!Publish \/ Operator!Export \/ Operator!Close \/ Operator!Exported
         \/ \E n \in Operator!Names : Operator!ServeCommand(n) \/ Operator!Commanded(n) \/ Operator!CommandFails(n)
  PROVE  Forward' /\ UNCHANGED shown
<1>1. campaign \in Operator!Statuses /\ "detail" \in DOMAIN study /\ DOMAIN calls = Operator!Names
  BY DEF Forward, CallsTyped
<1>2. ASSUME NEW n \in Operator!Names, NEW flag, Operator!Command(n, flag)
      PROVE  Forward' /\ UNCHANGED shown
  <2>1. UNCHANGED <<docs, shown, bench, campaign>> /\ calls' = [calls EXCEPT ![n] = Operator!Asked("command")]
    BY <1>2 DEF Operator!Command, Operator!benchVars
  <2>2. study'.detail = study.detail /\ "detail" \in DOMAIN study'
    BY <1>1, <1>2 DEF Operator!Command
  <2>3. QED
    BY <1>1, <2>1, <2>2, AskedForward
<1>3. CASE Operator!Publish \/ Operator!Export \/ Operator!Close
  <2>1. PICK n \in Operator!Names, flag \in {"publishing", "closing", "exporting"} : Operator!Command(n, flag)
    BY <1>3 DEF Operator!Publish, Operator!Export, Operator!Close, Operator!Names
  <2>2. QED
    BY <1>2, <2>1
<1>4. ASSUME NEW n \in Operator!Names, NEW ok, Operator!Ends(n, ok), UNCHANGED <<docs, shown, bench, campaign>>
      PROVE  Forward' /\ UNCHANGED shown
  <2>1. calls' = Operator!Over(n) /\ study'.detail = study.detail /\ "detail" \in DOMAIN study'
    BY <1>1, <1>4 DEF Operator!Ends
  <2>2. QED
    BY <1>1, <1>4, <2>1, RestForward
<1>5. CASE Operator!Exported
  BY <1>4, <1>5 DEF Operator!Exported, Operator!benchVars, Operator!Names
<1>6. ASSUME NEW n \in Operator!Names, Operator!CommandFails(n)
      PROVE  Forward' /\ UNCHANGED shown
  BY <1>4, <1>6 DEF Operator!CommandFails
<1>7. ASSUME NEW n \in Operator!Names, Operator!ServeCommand(n)
      PROVE  Forward' /\ UNCHANGED shown
  <2>1. /\ UNCHANGED <<docs, shown, bench, study>> /\ calls' = [calls EXCEPT ![n].st = "commanded"]
        /\ campaign' \in Operator!Statuses
    BY <1>7 DEF Operator!ServeCommand, Operator!benchVars, Operator!Statuses
  <2>2. DOMAIN calls[n] = CallFields /\ calls[n].version \in Nat
    BY DEF Forward, CallsTyped
  <2> DEFINE r == [calls[n] EXCEPT !.st = "commanded"]
  <2>3. DOMAIN r = CallFields /\ r.version \in Nat /\ r.st # "detail read" /\ r.st \notin {"eval", "eval read"}
    BY <2>2 DEF CallFields
  <2>4. calls' = [calls EXCEPT ![n] = r]
    BY <1>1, <2>1
  <2> HIDE DEF r
  <2>5. QED
    BY <1>1, <2>1, <2>3, <2>4, OverForward
<1>8. ASSUME NEW n \in Operator!Names, Operator!Commanded(n)
      PROVE  Forward' /\ UNCHANGED shown
  <2>1. UNCHANGED <<docs, shown, bench, campaign>> /\ calls' = [calls EXCEPT ![n] = Operator!Asked("detail")]
    BY <1>8 DEF Operator!Commanded, Operator!benchVars
  <2>2. study'.detail = study.detail /\ "detail" \in DOMAIN study'
    BY <1>1, <1>8 DEF Operator!Commanded
  <2>3. QED
    BY <1>1, <2>1, <2>2, AskedForward
<1>9. QED
  BY <1>3, <1>5, <1>6, <1>7, <1>8

\* A poll, and the retry of an evaluation that could not be read.
LEMMA AgainForward ==
  ASSUME Forward, Operator!Retry \/ \E n \in Operator!Names : Operator!PollDue(n)
  PROVE  Forward' /\ UNCHANGED shown
<1>1. /\ campaign \in Operator!Statuses /\ "detail" \in DOMAIN study /\ DOMAIN calls = Operator!Names
      /\ \A n \in Operator!Names : DOMAIN calls[n] = CallFields
  BY DEF Forward, CallsTyped
<1>2. ASSUME NEW n \in Operator!Names, Operator!PollDue(n)
      PROVE  Forward' /\ UNCHANGED shown
  <2> DEFINE r == [Operator!Asked("detail") EXCEPT !.current = TRUE]
  <2>1. UNCHANGED <<docs, shown, bench, campaign>> /\ calls' = [calls EXCEPT ![n] = r]
    BY <1>2 DEF Operator!PollDue, Operator!benchVars
  <2>2. study'.detail = study.detail /\ "detail" \in DOMAIN study'
    BY <1>1, <1>2 DEF Operator!PollDue
  <2>3. DOMAIN r = CallFields /\ r.version \in Nat /\ r.st # "detail read" /\ r.st \notin {"eval", "eval read"}
    BY DEF Operator!Asked, Operator!NoCall, CallFields
  <2> HIDE DEF r
  <2>4. QED
    BY <1>1, <2>1, <2>2, <2>3, OverForward
<1>3. CASE Operator!Retry
  <2>1. /\ UNCHANGED <<docs, shown, bench, campaign>> /\ study.detail # "none"
        /\ calls' = [calls EXCEPT !["evaluation"] = Operator!Asked("eval")]
    BY <1>3 DEF Operator!Retry, Operator!benchVars, Operator!Screen
  <2>2. study'.detail = study.detail /\ "detail" \in DOMAIN study'
    BY <1>1, <1>3 DEF Operator!Retry
  <2>3. /\ DOMAIN calls' = Operator!Names /\ "evaluation" \in Operator!Names
        /\ calls'["evaluation"] = Operator!Asked("eval")
        /\ \A m \in Operator!Names \ {"evaluation"} : calls'[m] = calls[m]
    BY <1>1, <2>1 DEF Operator!Names
  <2>4. /\ DOMAIN calls'["evaluation"] = CallFields /\ calls'["evaluation"].version \in Nat
        /\ calls'["evaluation"].st # "detail read"
    BY <2>3 DEF Operator!Asked, Operator!NoCall, CallFields
  <2>5. CallsTyped'
    <3>1. ASSUME NEW m \in Operator!Names
          PROVE  /\ DOMAIN calls'[m] = CallFields /\ calls'[m].version \in Nat
                 /\ calls'[m].st = "detail read" => calls'[m].seen \in Operator!Statuses
      <4>1. CASE m = "evaluation"
        BY <2>4, <4>1
      <4>2. CASE m # "evaluation"
        BY <2>3, <4>2 DEF Forward, CallsTyped
      <4>3. QED
        BY <4>1, <4>2
    <3>2. QED
      BY <2>3, <3>1 DEF CallsTyped
  <2>6. BenchTyped' /\ Unread'
    BY <2>1, <2>2 DEF Forward, BenchTyped, Unread
  <2>7. QED
    BY <1>1, <2>1, <2>2, <2>5, <2>6 DEF Forward
<1>4. QED
  BY <1>2, <1>3

\* The error screen is that of a study which has never been read.
LEMMA ReloadForward ==
  ASSUME Forward, Operator!Reload
  PROVE  Forward' /\ shown' >= shown
<1>1. shown = 0 /\ shown' = 0
  <2>1. study.detail = "none"
    BY DEF Operator!Reload, Operator!Screen, Operator!Parts
  <2>2. QED
    BY <2>1 DEF Forward, Unread, Operator!Reload
<1>2. /\ study' = Operator!Loading /\ calls' = Operator!Opening /\ bench' = Operator!NewBench
      /\ UNCHANGED <<campaign, docs>>
  BY DEF Operator!Reload
<1>3. OpenedTyped(calls', study', bench')
  BY <1>2, OpenedIs
<1>4. CallsTyped' /\ BenchTyped' /\ "detail" \in DOMAIN study'
  BY <1>3, Zenon DEF OpenedTyped, CallsTyped, BenchTyped
<1>5. Unread'
  BY <1>1, <1>3, Zenon DEF OpenedTyped, Unread
<1>6. (\E S : docs' \in Seq(S)) /\ campaign' \in Operator!Statuses /\ shown' \in Nat /\ shown' >= shown
  BY <1>1, <1>2 DEF Forward
<1>7. QED
  BY <1>4, <1>5, <1>6, Zenon DEF Forward

-----------------------------------------------------------------------------
(* The pages together.                                                     *)

LEMMA ReceiveForward ==
  ASSUME Forward, NEW n \in Operator!Names, Operator!Receive(n)
  PROVE  Forward' /\ shown' >= shown
<1>1. shown >= shown
  BY DEF Forward
<1>2. CASE Operator!ServeDetail(n) \/ Operator!ServeEval(n)
  BY <1>1, <1>2, AskingForward, Zenon
<1>3. CASE Operator!DetailRead(n)
  BY <1>1, <1>3, DetailForward, Zenon
<1>4. CASE Operator!EvalRead(n)
  BY <1>4, EvalForward, Zenon
<1>5. CASE Operator!ServeCommand(n) \/ Operator!Commanded(n)
  BY <1>1, <1>5, CommandsForward, Zenon
<1>6. QED
  BY <1>2, <1>3, <1>4, <1>5, Zenon DEF Operator!Receive

LEMMA OperateForward ==
  ASSUME Forward, Operator!Operate
  PROVE  Forward' /\ shown' >= shown
<1>1. shown >= shown
  BY DEF Forward
<1>2. CASE \E n \in Operator!Names : Operator!Receive(n)
  BY <1>2, ReceiveForward, Zenon
<1>3. CASE \/ Operator!Publish \/ Operator!Export \/ Operator!Close \/ Operator!Exported
           \/ \E n \in Operator!Names : Operator!CommandFails(n)
  BY <1>1, <1>3, CommandsForward, Zenon
<1>4. CASE Operator!Retry \/ \E n \in Operator!Names : Operator!PollDue(n)
  BY <1>1, <1>4, AgainForward, Zenon
<1>5. CASE Operator!Reload
  BY <1>5, ReloadForward, Zenon
<1>6. CASE Operator!AskToClose
  <2>1. UNCHANGED <<campaign, planned, docs, shown, bench, calls>>
    BY <1>6 DEF Operator!AskToClose, Operator!benchVars
  <2>2. study'.detail = study.detail /\ DOMAIN study' = DOMAIN study
    BY <1>6 DEF Operator!AskToClose, Forward
  <2>3. QED
    BY <1>1, <2>1, <2>2 DEF Forward, CallsTyped, BenchTyped, Unread
<1>7. CASE Operator!ClosedElsewhere
  <2>1. campaign' \in Operator!Statuses /\ UNCHANGED <<study, calls, docs, shown, bench>>
    BY <1>7 DEF Operator!ClosedElsewhere, Operator!benchVars, Operator!Statuses
  <2>2. QED
    BY <1>1, <2>1 DEF Forward, CallsTyped, BenchTyped, Unread
<1>8. CASE Operator!Meanwhile /\ UNCHANGED <<campaign, planned, study, calls>>
  BY <1>1, <1>8, MeanwhileForward, Zenon
<1>9. QED
  BY <1>2, <1>3, <1>4, <1>5, <1>6, <1>7, <1>8, Zenon DEF Operator!Operate

LEMMA ReviewForward ==
  ASSUME Forward, Operator!Review
  PROVE  Forward' /\ shown' >= shown
<1>1. shown >= shown /\ "poll" \in Operator!Names
  BY DEF Forward, Operator!Names, Operator!Polls
<1>2. CASE Operator!PollDue("poll")
  BY <1>1, <1>2, AgainForward, Zenon
<1>3. CASE Operator!Receive("poll")
  BY <1>1, <1>3, ReceiveForward, Zenon
<1>4. CASE Operator!Meanwhile /\ UNCHANGED <<campaign, planned, study, calls>>
  BY <1>1, <1>4, MeanwhileForward, Zenon
<1>5. CASE "workbench" \in Operator!Screen /\ Operator!WorkbenchStep /\ UNCHANGED <<campaign, planned, study, calls>>
  <2>1. study.detail # "none"
    BY <1>5 DEF Operator!Screen
  <2>2. CASE Operator!WriteGoesOn
    BY <1>5, <2>1, <2>2, WritesForward, Zenon
  <2>3. CASE ~Operator!WriteGoesOn
    BY <1>1, <1>5, <2>3, FormsForward, Zenon DEF Operator!WorkbenchStep
  <2>4. QED
    BY <2>2, <2>3
<1>6. QED
  BY <1>2, <1>3, <1>4, <1>5, Zenon DEF Operator!Review

LEMMA InitForward == Init => Forward
<1> SUFFICES ASSUME Init PROVE Forward
  OBVIOUS
<1>1. BenchTyped
  BY OpenedIs DEF Init, Operator!BenchInit, OpenedTyped, BenchTyped
<1>2. ASSUME NEW w, docs = <<w>> PROVE \E S : docs \in Seq(S)
  <2>1. docs \in Seq({w})
    BY <1>2
  <2>2. QED
    BY <2>1
<1>3. CASE Operator!StudyInit
  <2>1. /\ docs = <<Operator!NewProgram>> /\ shown = 0 /\ campaign \in Operator!Statuses
        /\ study = Operator!Loading /\ calls = Operator!Opening
    BY <1>3 DEF Operator!StudyInit
  <2>2. OpenedTyped(calls, study, bench)
    BY <2>1, OpenedIs, Zenon DEF Init, Operator!BenchInit
  <2>3. CallsTyped /\ Unread /\ "detail" \in DOMAIN study
    BY <2>1, <2>2, Zenon DEF OpenedTyped, CallsTyped, Unread
  <2>4. shown \in Nat /\ \E S : docs \in Seq(S)
    BY <1>2, <2>1
  <2>5. QED
    BY <1>1, <2>1, <2>3, <2>4, Zenon DEF Forward
<1>4. CASE Operator!ReviewInit
  <2>1. /\ docs \in {<<Operator!NewProgram>>, <<Operator!BoundProgram>>} /\ shown = 1 /\ campaign = "live"
        /\ study = [Operator!Loading EXCEPT !.detail = "live", !.timer = TRUE]
        /\ calls = [n \in Operator!Names |-> Operator!NoCall]
    BY <1>4 DEF Operator!ReviewInit
  <2>2. study.detail = "live" /\ "detail" \in DOMAIN study
    BY <2>1 DEF Operator!Loading
  <2>3. DOMAIN calls = Operator!Names /\ \A n \in Operator!Names : calls[n] = Operator!NoCall
    BY <2>1
  <2>4. /\ DOMAIN Operator!NoCall = CallFields /\ Operator!NoCall.version \in Nat
        /\ Operator!NoCall.st # "detail read"
    BY NoCallIs
  <2>5. CallsTyped /\ Unread
    BY <2>2, <2>3, <2>4, Zenon DEF CallsTyped, Unread
  <2>6. shown \in Nat /\ campaign \in Operator!Statuses
    BY <2>1 DEF Operator!Statuses
  <2>7. \E S : docs \in Seq(S)
    BY <1>2, <2>1
  <2>8. QED
    BY <1>1, <2>2, <2>5, <2>6, <2>7, Zenon DEF Forward
<1>5. QED
  BY <1>3, <1>4 DEF Init

\* However the answers of a write, of a second read and of a poll come in, the
\* page of a study never goes back to an older version of the evaluation than
\* it has shown (newestEvaluationState).
THEOREM EvaluationForward == Spec => EvaluationNeverGoesBack
<1>1. Forward /\ [Next]_consoleVars => Forward' /\ (shown' >= shown \/ UNCHANGED studyVars)
  <2> SUFFICES ASSUME Forward, [Next]_consoleVars
               PROVE  Forward' /\ (shown' >= shown \/ UNCHANGED studyVars)
    OBVIOUS
  <2>1. CASE Operator!Operate
    BY <2>1, OperateForward
  <2>2. CASE Operator!Review
    BY <2>2, ReviewForward
  <2>3. CASE UNCHANGED studyVars
    BY <2>3 DEF studyVars, benchVars, Forward, CallsTyped, BenchTyped, Unread
  <2>4. QED
    BY <2>1, <2>2, <2>3 DEF Next, consoleVars
<1>2. QED
  BY <1>1, InitForward, PTL DEF Spec, EvaluationNeverGoesBack

-----------------------------------------------------------------------------
(* Polling.  A poll is never a command of a button, so the poll that is    *)
(* current is what ends with the next one scheduled; a study that becomes  *)
(* live schedules the first.                                               *)

StudyFields == {"detail", "failed", "evalFailed", "evalLoading", "busy", "confirm", "timer"}

Watched ==
  /\ DOMAIN study = StudyFields
  /\ DOMAIN calls = Operator!Names
  /\ \A n \in Operator!Names : DOMAIN calls[n] = CallFields
  /\ \A p \in Operator!Polls : calls[p].st \notin {"command", "commanded"}
  /\ PollingGoesOn

\* A call that goes on: a poll that is current stays so.
LEMMA GoesOnWatched ==
  ASSUME Watched, DOMAIN study' = StudyFields, study'.detail = study.detail, study'.timer = study.timer,
         NEW n \in Operator!Names, NEW r, DOMAIN r = CallFields,
         n \in Operator!Polls => /\ r.st \notin {"idle", "command", "commanded"}
                                /\ r.current = calls[n].current,
         calls' = [calls EXCEPT ![n] = r]
  PROVE  Watched'
<1>1. /\ DOMAIN calls' = Operator!Names /\ calls'[n] = r
      /\ \A m \in Operator!Names : m # n => calls'[m] = calls[m]
  BY DEF Watched
<1>2. \A m \in Operator!Names : DOMAIN calls'[m] = CallFields
  BY <1>1 DEF Watched
<1>3. \A p \in Operator!Polls : p \in Operator!Names
  BY DEF Operator!Names
<1>4. \A p \in Operator!Polls : calls'[p].st \notin {"command", "commanded"}
  BY <1>1, <1>3 DEF Watched
<1>5. \A p \in Operator!Polls : calls[p].current /\ calls[p].st # "idle" => calls'[p].current /\ calls'[p].st # "idle"
  BY <1>1, <1>3
<1>6. PollingGoesOn'
  BY <1>5, Zenon DEF Watched, PollingGoesOn, Operator!Polling
<1>7. QED
  BY <1>1, <1>2, <1>4, <1>6 DEF Watched

\* A call that ends: the current poll schedules the next.
LEMMA OverWatched ==
  ASSUME Watched, NEW n \in Operator!Names, NEW ok, calls' = Operator!Over(n),
         DOMAIN study' = StudyFields, study'.detail = study.detail, study'.timer = Operator!Rescheduled(n, ok)
  PROVE  Watched'
<1>1. /\ DOMAIN calls' = Operator!Names /\ calls'[n] = Operator!NoCall
      /\ \A m \in Operator!Names : m # n => calls'[m] = calls[m]
  BY DEF Watched, Operator!Over
<1>2. \A p \in Operator!Polls : p \in Operator!Names
  BY DEF Operator!Names
<1>3. DOMAIN Operator!NoCall = CallFields /\ Operator!NoCall.st \notin {"command", "commanded"}
  BY NoCallIs
<1>4. \A m \in Operator!Names : DOMAIN calls'[m] = CallFields
  BY <1>1, <1>3 DEF Watched
<1>5. \A p \in Operator!Polls : calls'[p].st \notin {"command", "commanded"}
  BY <1>1, <1>2, <1>3 DEF Watched
<1>6. PollingGoesOn'
  <2>1. CASE study.timer
    BY <2>1, Zenon DEF PollingGoesOn, Operator!Rescheduled
  <2>2. ASSUME NEW p \in Operator!Polls, calls[p].current, calls[p].st # "idle"
        PROVE  study'.timer \/ (calls'[p].current /\ calls'[p].st # "idle")
    <3>1. CASE p = n
      BY <2>2, <3>1, Zenon DEF Operator!Rescheduled
    <3>2. CASE p # n
      <4>1. calls'[p] = calls[p]
        BY <1>1, <1>2, <2>2, <3>2
      <4>2. QED
        BY <2>2, <4>1, Zenon
    <3>3. QED
      BY <3>1, <3>2
  <2>3. Operator!Polling' <=> Operator!Polling
    BY DEF Operator!Polling
  <2>4. QED
    BY <2>1, <2>2, <2>3, Zenon DEF Watched, PollingGoesOn
<1>7. QED
  BY <1>1, <1>4, <1>5, <1>6 DEF Watched

\* The details are read: a study that is live still keeps its current poll,
\* one that has become live gets its first.
LEMMA DetailWatched ==
  ASSUME Watched, NEW n \in Operator!Names, Operator!DetailRead(n)
  PROVE  Watched'
<1> DEFINE s == calls[n].seen
<1>1. /\ DOMAIN study = StudyFields /\ DOMAIN calls = Operator!Names
      /\ \A m \in Operator!Names : DOMAIN calls[m] = CallFields
      /\ \A p \in Operator!Polls : p \in Operator!Names /\ p # "evaluation"
      /\ \A p \in Operator!Polls : calls[p].st \notin {"command", "commanded"}
      /\ calls[n].st = "detail read"
  BY DEF Watched, Operator!Names, Operator!Polls, Operator!DetailRead
<1>2. /\ DOMAIN Operator!Detailed(s) = StudyFields /\ Operator!Detailed(s).detail = s
      /\ Operator!Detailed(s).timer = IF Operator!Polling = (s = "live") THEN study.timer ELSE s = "live"
  BY <1>1 DEF Operator!Detailed, StudyFields
<1> HIDE DEF s
<1>3. ASSUME NEW next, calls' = Operator!CallsOnDetail(s, n, next), DOMAIN next = CallFields,
             n \in Operator!Polls => next.st \notin {"command", "commanded"},
             DOMAIN study' = StudyFields, study'.detail = s,
             Operator!Detailed(s).timer => study'.timer,
             n \in Operator!Polls /\ calls[n].current /\ s = "live" =>
               study'.timer \/ (next.current /\ next.st # "idle")
      PROVE  Watched'
  <2>1. DOMAIN calls' = Operator!Names
    BY <1>3 DEF Operator!CallsOnDetail
  <2>2. ASSUME NEW m \in Operator!Names PROVE DOMAIN calls'[m] = CallFields
    <3>1. \/ calls'[m] = next \/ calls'[m] = [next EXCEPT !.current = FALSE]
          \/ calls'[m] = Operator!Asked("eval")
          \/ calls'[m] = calls[m] \/ calls'[m] = [calls[m] EXCEPT !.current = FALSE]
      BY <1>3, <2>2 DEF Operator!CallsOnDetail
    <3>2. QED
      BY <1>1, <1>3, <3>1, NoCallIs
  <2>3. ASSUME NEW p \in Operator!Polls PROVE calls'[p].st \notin {"command", "commanded"}
    <3>1. IF p = n THEN calls'[p] = next \/ calls'[p] = [next EXCEPT !.current = FALSE]
          ELSE calls'[p] = calls[p] \/ calls'[p] = [calls[p] EXCEPT !.current = FALSE]
      BY <1>1, <1>3, <2>3 DEF Operator!CallsOnDetail
    <3>2. CASE p = n
      BY <1>3, <2>3, <3>1, <3>2 DEF CallFields
    <3>3. CASE p # n
      BY <1>1, <2>3, <3>1, <3>3 DEF CallFields
    <3>4. QED
      BY <3>2, <3>3
  <2>4. PollingGoesOn'
    <3>1. SUFFICES ASSUME s = "live" PROVE PollingGoesOn'
      BY <1>3, Zenon DEF PollingGoesOn, Operator!Polling
    <3>2. CASE ~Operator!Polling
      <4>1. Operator!Detailed(s).timer
        BY <1>2, <3>1, <3>2 DEF Operator!Polling
      <4>2. QED
        BY <1>3, <4>1, Zenon DEF PollingGoesOn
    <3>3. CASE Operator!Polling
      <4>1. Operator!Detailed(s).timer = study.timer
        BY <1>2, <3>1, <3>3 DEF Operator!Polling
      <4>2. CASE study.timer
        BY <1>3, <4>1, <4>2, Zenon DEF PollingGoesOn
      <4>3. ASSUME NEW p \in Operator!Polls, calls[p].current, calls[p].st # "idle"
            PROVE  study'.timer \/ \E q \in Operator!Polls : calls'[q].current /\ calls'[q].st # "idle"
        <5>1. CASE p = n
          <6>1. calls'[p] = next
            BY <1>1, <1>3, <3>1, <3>3, <4>3, <5>1 DEF Operator!CallsOnDetail, Operator!Polling
          <6>2. QED
            BY <1>3, <3>1, <4>3, <5>1, <6>1, Zenon
        <5>2. CASE p # n
          <6>1. calls'[p] = calls[p]
            BY <1>1, <1>3, <3>1, <3>3, <4>3, <5>2 DEF Operator!CallsOnDetail, Operator!Polling
          <6>2. QED
            BY <4>3, <6>1, Zenon
        <5>3. QED
          BY <5>1, <5>2
      <4>4. QED
        BY <3>3, <4>2, <4>3, Zenon DEF Watched, PollingGoesOn
    <3>4. QED
      BY <3>2, <3>3
  <2>5. QED
    BY <1>3, <2>1, <2>2, <2>3, <2>4, Zenon DEF Watched
<1>4. CASE /\ n \notin Operator!Polls \/ ~planned
           /\ study' = [Operator!Detailed(s) EXCEPT !.busy = Operator!Released(n),
                          !.timer = @ \/ (n \in Operator!Polls /\ calls[n].current /\ s = "live")]
           /\ calls' = Operator!CallsOnDetail(s, n, Operator!NoCall)
  <2> DEFINE old == Operator!Detailed(s)
             due == old.timer \/ (n \in Operator!Polls /\ calls[n].current /\ s = "live")
  <2>1. study' = [old EXCEPT !.busy = Operator!Released(n), !.timer = due]
    BY <1>4
  <2>2. DOMAIN old = StudyFields /\ old.detail = s
    BY <1>2
  <2> HIDE DEF due, old
  <2>3. DOMAIN study' = StudyFields /\ study'.detail = s /\ study'.timer = due
    BY <2>1, <2>2 DEF StudyFields
  <2>4. (Operator!Detailed(s).timer => study'.timer)
        /\ (n \in Operator!Polls /\ calls[n].current /\ s = "live" => study'.timer)
    BY <2>3, Zenon DEF due, old
  <2>5. DOMAIN Operator!NoCall = CallFields /\ Operator!NoCall.st \notin {"command", "commanded"}
    BY NoCallIs
  <2>6. QED
    BY <1>3, <1>4, <2>3, <2>4, <2>5
<1>5. CASE /\ n \in Operator!Polls /\ planned
           /\ study' = [Operator!Detailed(s) EXCEPT !.evalLoading = TRUE]
           /\ calls' = Operator!CallsOnDetail(s, n, [calls[n] EXCEPT !.st = "eval"])
  <2> DEFINE next == [calls[n] EXCEPT !.st = "eval"]
             old  == Operator!Detailed(s)
  <2>1. DOMAIN next = CallFields /\ next.st = "eval" /\ next.current = calls[n].current
    BY <1>1 DEF CallFields
  <2>2. study' = [old EXCEPT !.evalLoading = TRUE] /\ DOMAIN old = StudyFields /\ old.detail = s
    BY <1>2, <1>5
  <2>3. calls' = Operator!CallsOnDetail(s, n, next)
    BY <1>5
  <2> HIDE DEF next, old
  <2>4. DOMAIN study' = StudyFields /\ study'.detail = s /\ study'.timer = old.timer
    BY <2>2 DEF StudyFields
  <2>5. Operator!Detailed(s).timer => study'.timer
    BY <2>4, Zenon DEF old
  <2>6. /\ next.st \notin {"command", "commanded"}
        /\ calls[n].current => next.current /\ next.st # "idle"
    BY <2>1
  <2>7. QED
    BY <1>3, <2>1, <2>3, <2>4, <2>5, <2>6
<1>6. CASE /\ calls' = Operator!Over(n)
           /\ study' = [study EXCEPT !.failed = @ \/ n = "load", !.busy = Operator!Released(n),
                                     !.timer = Operator!Rescheduled(n, FALSE)]
  <2>1. DOMAIN study' = StudyFields /\ study'.detail = study.detail /\ study'.timer = Operator!Rescheduled(n, FALSE)
    BY <1>1, <1>6 DEF StudyFields
  <2>2. QED
    BY <1>6, <2>1, OverWatched
<1>7. QED
  BY <1>4, <1>5, <1>6 DEF Operator!DetailRead, s

LEMMA ReceiveWatched ==
  ASSUME Watched, NEW n \in Operator!Names, Operator!Receive(n)
  PROVE  Watched'
<1>1. /\ DOMAIN study = StudyFields /\ DOMAIN calls = Operator!Names /\ DOMAIN calls[n] = CallFields
      /\ n \in Operator!Polls => calls[n].st \notin {"command", "commanded"}
  BY DEF Watched
<1>2. CASE Operator!ServeDetail(n) \/ Operator!ServeEval(n) \/ Operator!ServeCommand(n)
  <2>1. PICK r : /\ r \in {[calls[n] EXCEPT !.st = "detail read", !.seen = campaign],
                           [calls[n] EXCEPT !.st = "eval read", !.version = Operator!Version]}
                    \/ (r = [calls[n] EXCEPT !.st = "commanded"] /\ n \notin Operator!Polls)
                 /\ calls' = [calls EXCEPT ![n] = r] /\ study' = study
    <3>1. CASE Operator!ServeDetail(n)
      BY <1>1, <3>1 DEF Operator!ServeDetail
    <3>2. CASE Operator!ServeEval(n)
      BY <1>1, <3>2 DEF Operator!ServeEval
    <3>3. CASE Operator!ServeCommand(n)
      BY <1>1, <3>3 DEF Operator!ServeCommand, Operator!Polls
    <3>4. QED
      BY <1>2, <3>1, <3>2, <3>3
  <2>2. DOMAIN r = CallFields
    BY <1>1, <2>1
  <2>3. n \in Operator!Polls => r.st \notin {"idle", "command", "commanded"} /\ r.current = calls[n].current
    BY <1>1, <2>1 DEF CallFields
  <2>4. QED
    BY <1>1, <2>1, <2>2, <2>3, GoesOnWatched
<1>3. CASE Operator!DetailRead(n)
  BY <1>3, DetailWatched
<1>4. CASE Operator!EvalRead(n)
  <2>1. PICK ok, f : /\ study' = [study EXCEPT !.evalFailed = f, !.evalLoading = FALSE, !.timer = Operator!Rescheduled(n, ok)]
                     /\ calls' = Operator!Over(n)
    BY <1>4 DEF Operator!EvalRead
  <2>2. DOMAIN study' = StudyFields /\ study'.detail = study.detail /\ study'.timer = Operator!Rescheduled(n, ok)
    BY <1>1, <2>1 DEF StudyFields
  <2>3. QED
    BY <2>1, <2>2, OverWatched
<1>5. CASE Operator!Commanded(n)
  <2>1. n \notin Operator!Polls /\ calls' = [calls EXCEPT ![n] = Operator!Asked("detail")]
    BY <1>1, <1>5 DEF Operator!Commanded
  <2>2. DOMAIN study' = StudyFields /\ study'.detail = study.detail /\ study'.timer = study.timer
    BY <1>1, <1>5 DEF StudyFields, Operator!Commanded
  <2>3. QED
    BY <2>1, <2>2, NoCallIs, GoesOnWatched
<1>6. QED
  BY <1>2, <1>3, <1>4, <1>5 DEF Operator!Receive

\* The buttons, the timer and the other tab.
LEMMA PressWatched ==
  ASSUME Watched,
         \/ Operator!Publish \/ Operator!Export \/ Operator!Close \/ Operator!Exported
         \/ Operator!Retry \/ Operator!Reload \/ Operator!AskToClose \/ Operator!ClosedElsewhere
         \/ \E n \in Operator!Names : Operator!CommandFails(n) \/ Operator!PollDue(n)
  PROVE  Watched'
<1>1. /\ DOMAIN study = StudyFields /\ DOMAIN calls = Operator!Names
      /\ \A m \in Operator!Names : DOMAIN calls[m] = CallFields
  BY DEF Watched
<1>2. ASSUME NEW n \in Operator!Names \ Operator!Polls, NEW flag, Operator!Command(n, flag)
      PROVE  Watched'
  <2>1. calls' = [calls EXCEPT ![n] = Operator!Asked("command")]
    BY <1>2 DEF Operator!Command
  <2>2. DOMAIN study' = StudyFields /\ study'.detail = study.detail /\ study'.timer = study.timer
    BY <1>1, <1>2 DEF StudyFields, Operator!Command
  <2>3. QED
    BY <2>1, <2>2, NoCallIs, GoesOnWatched
<1>3. CASE Operator!Publish \/ Operator!Export \/ Operator!Close
  <2>1. {"publish", "export", "close"} \subseteq Operator!Names \ Operator!Polls
    BY DEF Operator!Names, Operator!Polls
  <2>2. QED
    BY <1>2, <1>3, <2>1 DEF Operator!Publish, Operator!Export, Operator!Close
<1>4. ASSUME NEW n \in Operator!Names, NEW ok, Operator!Ends(n, ok)
      PROVE  Watched'
  <2>1. DOMAIN study' = StudyFields /\ study'.detail = study.detail /\ study'.timer = Operator!Rescheduled(n, ok)
    BY <1>1, <1>4 DEF StudyFields, Operator!Ends
  <2>2. QED
    BY <1>4, <2>1, OverWatched DEF Operator!Ends
<1>5. CASE Operator!Exported \/ \E n \in Operator!Names : Operator!CommandFails(n)
  BY <1>4, <1>5 DEF Operator!Exported, Operator!CommandFails, Operator!Names
<1>6. CASE Operator!Retry
  <2>1. calls' = [calls EXCEPT !["evaluation"] = Operator!Asked("eval")]
    BY <1>6 DEF Operator!Retry
  <2>2. DOMAIN study' = StudyFields /\ study'.detail = study.detail /\ study'.timer = study.timer
    BY <1>1, <1>6 DEF StudyFields, Operator!Retry
  <2>3. "evaluation" \in Operator!Names /\ "evaluation" \notin Operator!Polls
    BY DEF Operator!Names, Operator!Polls
  <2>4. QED
    BY <2>1, <2>2, <2>3, NoCallIs, GoesOnWatched
<1>7. CASE Operator!Reload
  <2>1. study' = Operator!Loading /\ calls' = Operator!Opening
    BY <1>7 DEF Operator!Reload
  <2>2. DOMAIN Operator!Loading = StudyFields /\ Operator!Loading.detail = "none"
    BY DEF Operator!Loading, StudyFields
  <2>3. /\ DOMAIN Operator!Opening = Operator!Names
        /\ \A n \in Operator!Names : DOMAIN Operator!Opening[n] = CallFields
    BY OpenedIs DEF OpenedTyped
  <2>4. ASSUME NEW p \in Operator!Polls PROVE Operator!Opening[p].st \notin {"command", "commanded"}
    BY <2>4, NoCallIs DEF Operator!Opening, Operator!Polls, Operator!Names
  <2>5. QED
    BY <2>1, <2>2, <2>3, <2>4 DEF Watched, PollingGoesOn, Operator!Polling
<1>8. CASE Operator!AskToClose
  <2>1. calls' = calls /\ DOMAIN study' = StudyFields /\ study'.detail = study.detail /\ study'.timer = study.timer
    BY <1>1, <1>8 DEF StudyFields, Operator!AskToClose
  <2>2. QED
    BY <2>1 DEF Watched, PollingGoesOn, Operator!Polling
<1>9. CASE Operator!ClosedElsewhere
  BY <1>9 DEF Operator!ClosedElsewhere, Watched, PollingGoesOn, Operator!Polling
<1>10. ASSUME NEW n \in Operator!Names, Operator!PollDue(n)
       PROVE  Watched'
  <2> DEFINE r == [Operator!Asked("detail") EXCEPT !.current = TRUE]
  <2>1. n \in Operator!Polls /\ calls' = [calls EXCEPT ![n] = r]
    BY <1>10 DEF Operator!PollDue
  <2>2. DOMAIN study' = StudyFields
    BY <1>1, <1>10 DEF StudyFields, Operator!PollDue
  <2>3. DOMAIN r = CallFields /\ r.st = "detail" /\ r.current = TRUE
    BY DEF Operator!Asked, Operator!NoCall, CallFields
  <2> HIDE DEF r
  <2>4. /\ DOMAIN calls' = Operator!Names /\ calls'[n] = r
        /\ \A m \in Operator!Names : m # n => calls'[m] = calls[m]
    BY <1>1, <2>1
  <2>5. /\ \A m \in Operator!Names : DOMAIN calls'[m] = CallFields
        /\ \A p \in Operator!Polls : calls'[p].st \notin {"command", "commanded"}
    BY <1>1, <2>3, <2>4 DEF Watched, Operator!Names
  <2>6. PollingGoesOn'
    BY <2>1, <2>3, <2>4 DEF PollingGoesOn
  <2>7. QED
    BY <2>2, <2>4, <2>5, <2>6 DEF Watched
<1>11. QED
  BY <1>3, <1>5, <1>6, <1>7, <1>8, <1>9, <1>10

LEMMA InitWatched ==
  ASSUME Init
  PROVE  Watched
<1>1. CASE Operator!StudyInit
  <2>1. study = Operator!Loading /\ calls = Operator!Opening
    BY <1>1 DEF Operator!StudyInit
  <2>2. DOMAIN study = StudyFields /\ study.detail = "none"
    BY <2>1 DEF Operator!Loading, StudyFields
  <2>3. DOMAIN calls = Operator!Names /\ \A n \in Operator!Names : DOMAIN calls[n] = CallFields
    BY <2>1, OpenedIs DEF OpenedTyped
  <2>4. ASSUME NEW p \in Operator!Polls PROVE calls[p].st \notin {"command", "commanded"}
    BY <2>1, <2>4, NoCallIs DEF Operator!Opening, Operator!Polls, Operator!Names
  <2>5. QED
    BY <2>2, <2>3, <2>4 DEF Watched, PollingGoesOn, Operator!Polling
<1>2. CASE Operator!ReviewInit
  <2>1. /\ study = [Operator!Loading EXCEPT !.detail = "live", !.timer = TRUE]
        /\ calls = [n \in Operator!Names |-> Operator!NoCall]
    BY <1>2 DEF Operator!ReviewInit
  <2>2. DOMAIN study = StudyFields /\ study.timer = TRUE
    BY <2>1 DEF Operator!Loading, StudyFields
  <2>3. PollingGoesOn
    BY <2>2, Zenon DEF PollingGoesOn
  <2>4. QED
    BY <2>1, <2>2, <2>3, NoCallIs DEF Watched, Operator!Names
<1>3. QED
  BY <1>1, <1>2 DEF Init

\* While a live study is shown the next poll is scheduled or under way,
\* whichever of its reads fail and whatever else the page does meanwhile
\* (studies/[id]/page.tsx:155-188).
THEOREM PollingForever == Spec => []PollingGoesOn
<1>1. Watched /\ [Next]_consoleVars => Watched'
  <2> SUFFICES ASSUME Watched, [Next]_consoleVars PROVE Watched'
    OBVIOUS
  <2>1. CASE UNCHANGED <<study, calls>>
    BY <2>1 DEF Watched, PollingGoesOn, Operator!Polling
  <2>2. CASE Operator!Operate
    BY <2>1, <2>2, ReceiveWatched, PressWatched DEF Operator!Operate
  <2>3. CASE Operator!Review
    <3>1. "poll" \in Operator!Names
      BY DEF Operator!Names, Operator!Polls
    <3>2. QED
      BY <2>1, <2>3, <3>1, ReceiveWatched, PressWatched DEF Operator!Review
  <2>4. QED
    BY <2>1, <2>2, <2>3 DEF Next, consoleVars, studyVars
<1>2. Watched => PollingGoesOn
  BY DEF Watched
<1>3. QED
  BY <1>1, <1>2, InitWatched, PTL DEF Spec

-----------------------------------------------------------------------------
(* The notices of the frame.                                               *)

VisitFields == {"name", "mount", "marked", "filter", "list", "busy", "subscribed", "state"}

\* What a notice that is still offered would bring back on the board is marked,
\* and no two of them would bring back the same.
Offered ==
  /\ DOMAIN visit = VisitFields /\ visit.mount \in Nat \ {0}
  /\ \E S : notices \in Seq(S)
  /\ \A n \in DOMAIN notices : notices[n].undo.mount \in 0 .. visit.mount
  /\ visit.name = "insights" =>
       \A n \in DOMAIN notices : notices[n].undo.mount = visit.mount =>
         /\ notices[n].undo.set \subseteq visit.marked
         /\ \A m \in DOMAIN notices : m # n /\ notices[m].undo.mount = visit.mount =>
              notices[m].undo.set \cap notices[n].undo.set = {}

\* One that is taken away: those after it move up.
LEMMA RemovedIs ==
  ASSUME NEW S, NEW q \in Seq(S), NEW n \in DOMAIN q
  PROVE  /\ Office!RemoveAt(q, n) \in Seq(S) /\ DOMAIN Office!RemoveAt(q, n) = 1 .. Len(q) - 1
         /\ \A k \in 1 .. Len(q) - 1 :
              Office!RemoveAt(q, n)[k] = IF k < n THEN q[k] ELSE q[k + 1]
<1>1. n \in 1 .. Len(q) /\ Len(q) \in Nat
  OBVIOUS
<1> DEFINE a == SubSeq(q, 1, n - 1)
           b == SubSeq(q, n + 1, Len(q))
<1>2. a \in Seq(S) /\ Len(a) = n - 1 /\ \A k \in 1 .. n - 1 : a[k] = q[k]
  BY <1>1, SubSeqProperties
<1>3. b \in Seq(S) /\ Len(b) = Len(q) - n /\ \A k \in 1 .. Len(q) - n : b[k] = q[n + k]
  BY <1>1, SubSeqProperties
<1> HIDE DEF a, b
<1>4. /\ a \o b \in Seq(S) /\ Len(a \o b) = Len(q) - 1
      /\ \A k \in 1 .. Len(q) - 1 : (a \o b)[k] = IF k <= n - 1 THEN a[k] ELSE b[k - (n - 1)]
  BY <1>1, <1>2, <1>3, ConcatProperties
<1>5. Office!RemoveAt(q, n) = a \o b
  BY DEF Office!RemoveAt, a, b
<1>6. DOMAIN (a \o b) = 1 .. Len(q) - 1
  BY <1>4
<1>7. ASSUME NEW k \in 1 .. Len(q) - 1
      PROVE  (a \o b)[k] = IF k < n THEN q[k] ELSE q[k + 1]
  <2>1. CASE k < n
    <3>1. k <= n - 1 /\ k \in 1 .. n - 1
      BY <1>1, <1>7, <2>1
    <3>2. QED
      BY <1>2, <1>4, <1>7, <2>1, <3>1
  <2>2. CASE ~(k < n)
    <3>1. k - (n - 1) \in 1 .. Len(q) - n /\ n + (k - (n - 1)) = k + 1 /\ ~(k <= n - 1)
      BY <1>1, <1>7, <2>2
    <3>2. QED
      BY <1>3, <1>4, <1>7, <2>2, <3>1
  <2>3. QED
    BY <2>1, <2>2
<1>8. QED
  BY <1>4, <1>5, <1>6, <1>7

\* The page stays mounted, or the payment site opens.
LEMMA StaysOffered ==
  ASSUME Offered, UNCHANGED notices, DOMAIN visit' = VisitFields, visit'.mount = visit.mount,
         visit'.name = "insights" => visit.name = "insights" /\ visit'.marked = visit.marked
  PROVE  Offered'
BY DEF Offered

\* Another page is mounted: no notice is about it.
LEMMA LeftOffered ==
  ASSUME Offered, notices' = notices \/ notices' = <<>>, DOMAIN visit' = VisitFields,
         visit'.mount = visit.mount + 1
  PROVE  Offered'
<1>1. visit.mount \in Nat \ {0} /\ visit'.mount \in Nat \ {0} /\ 0 \in 0 .. visit'.mount
  BY DEF Offered
<1>2. CASE notices' = notices
  BY <1>1, <1>2 DEF Offered
<1>3. CASE notices' = <<>>
  <2>1. notices' \in Seq({}) /\ DOMAIN notices' = {}
    BY <1>3
  <2>2. QED
    BY <1>1, <2>1 DEF Offered
<1>4. QED
  BY <1>2, <1>3

\* A notice is raised, to undo what has just been marked, or nothing.
LEMMA ToldOffered ==
  ASSUME Offered, NEW t, notices' = Append(notices, t), DOMAIN visit' = VisitFields,
         visit'.name = visit.name, visit'.mount = visit.mount,
         \/ t.undo.mount = 0 /\ visit'.marked = visit.marked
         \/ /\ t.undo.mount = visit.mount
            /\ visit.name = "insights" =>
                 /\ t.undo.set \cap visit.marked = {}
                 /\ visit'.marked = visit.marked \cup t.undo.set
  PROVE  Offered'
<1>1. PICK S : notices \in Seq(S)
  BY DEF Offered
<1>2. notices \in Seq(S \cup {t}) /\ t \in S \cup {t}
  BY <1>1
<1>3. /\ notices' \in Seq(S \cup {t}) /\ DOMAIN notices' = 1 .. Len(notices) + 1
      /\ DOMAIN notices = 1 .. Len(notices) /\ Len(notices) \in Nat
      /\ \A n \in 1 .. Len(notices) : notices'[n] = notices[n]
      /\ notices'[Len(notices) + 1] = t
  BY <1>1, <1>2, AppendProperties
<1>4. /\ visit.mount \in Nat \ {0} /\ visit'.mount \in Nat \ {0}
      /\ t.undo.mount \in 0 .. visit.mount
  BY DEF Offered
<1>5. ASSUME NEW n \in DOMAIN notices'
      PROVE  \/ n \in DOMAIN notices /\ notices'[n] = notices[n]
             \/ n = Len(notices) + 1 /\ notices'[n] = t
  BY <1>3
<1>6. \A n \in DOMAIN notices' : notices'[n].undo.mount \in 0 .. visit'.mount
  BY <1>4, <1>5 DEF Offered
<1>7. ASSUME visit.name = "insights", NEW n \in DOMAIN notices', notices'[n].undo.mount = visit.mount
      PROVE  /\ notices'[n].undo.set \subseteq visit'.marked
             /\ \A m \in DOMAIN notices' : m # n /\ notices'[m].undo.mount = visit.mount =>
                  notices'[m].undo.set \cap notices'[n].undo.set = {}
  <2>1. visit.marked \subseteq visit'.marked
    BY <1>7
  <2>2. ASSUME NEW m \in DOMAIN notices', m # n, notices'[m].undo.mount = visit.mount
        PROVE  notices'[m].undo.set \cap notices'[n].undo.set = {}
    <3>1. CASE n \in DOMAIN notices /\ notices'[n] = notices[n] /\ m \in DOMAIN notices /\ notices'[m] = notices[m]
      BY <1>7, <2>2, <3>1 DEF Offered
    <3>2. CASE n \in DOMAIN notices /\ notices'[n] = notices[n] /\ m = Len(notices) + 1 /\ notices'[m] = t
      <4>1. notices[n].undo.set \subseteq visit.marked
        BY <1>7, <3>2 DEF Offered
      <4>2. t.undo.set \cap visit.marked = {}
        BY <1>4, <1>7, <2>2, <3>2
      <4>3. QED
        BY <3>2, <4>1, <4>2
    <3>3. CASE m \in DOMAIN notices /\ notices'[m] = notices[m] /\ n = Len(notices) + 1 /\ notices'[n] = t
      <4>1. notices[m].undo.set \subseteq visit.marked
        BY <1>7, <2>2, <3>3 DEF Offered
      <4>2. t.undo.set \cap visit.marked = {}
        BY <1>4, <1>7, <2>2, <3>3
      <4>3. QED
        BY <3>3, <4>1, <4>2
    <3>4. QED
      BY <1>5, <2>2, <3>1, <3>2, <3>3
  <2>3. notices'[n].undo.set \subseteq visit'.marked
    <3>1. CASE n \in DOMAIN notices /\ notices'[n] = notices[n]
      BY <1>7, <2>1, <3>1 DEF Offered
    <3>2. CASE notices'[n] = t
      BY <1>4, <1>7, <3>2
    <3>3. QED
      BY <1>5, <3>1, <3>2
  <2>4. QED
    BY <2>2, <2>3
<1>8. QED
  BY <1>3, <1>4, <1>6, <1>7 DEF Offered

\* A notice is taken away; its action may have run.
LEMMA TakenOffered ==
  ASSUME Offered, NEW n \in DOMAIN notices, notices' = Office!RemoveAt(notices, n), DOMAIN visit' = VisitFields,
         visit'.name = visit.name, visit'.mount = visit.mount,
         \/ visit'.marked = visit.marked
         \/ /\ notices[n].undo.mount = visit.mount
            /\ visit.name = "insights" => visit'.marked = visit.marked \ notices[n].undo.set
  PROVE  Offered'
<1>1. PICK S : notices \in Seq(S)
  BY DEF Offered
<1>2. /\ notices' \in Seq(S) /\ DOMAIN notices' = 1 .. Len(notices) - 1
      /\ \A k \in 1 .. Len(notices) - 1 : notices'[k] = IF k < n THEN notices[k] ELSE notices[k + 1]
  BY <1>1, RemovedIs
<1>3. DOMAIN notices = 1 .. Len(notices) /\ Len(notices) \in Nat /\ n \in 1 .. Len(notices)
  BY <1>1
<1> DEFINE From(k) == IF k < n THEN k ELSE k + 1
<1>4. ASSUME NEW k \in DOMAIN notices'
      PROVE  From(k) \in DOMAIN notices /\ From(k) # n /\ notices'[k] = notices[From(k)]
  BY <1>2, <1>3
<1>5. \A j, k \in DOMAIN notices' : j # k => From(j) # From(k)
  BY <1>2, <1>3
<1> HIDE DEF From
<1>6. \A k \in DOMAIN notices' : notices'[k].undo.mount \in 0 .. visit'.mount
  BY <1>4 DEF Offered
<1>7. ASSUME visit.name = "insights", NEW k \in DOMAIN notices', notices'[k].undo.mount = visit.mount
      PROVE  /\ notices'[k].undo.set \subseteq visit'.marked
             /\ \A m \in DOMAIN notices' : m # k /\ notices'[m].undo.mount = visit.mount =>
                  notices'[m].undo.set \cap notices'[k].undo.set = {}
  <2>1. From(k) \in DOMAIN notices /\ From(k) # n /\ notices'[k] = notices[From(k)]
    BY <1>4, <1>7
  <2>2. notices[From(k)].undo.set \subseteq visit.marked
    BY <1>7, <2>1 DEF Offered
  <2>3. notices[n].undo.mount = visit.mount => notices[From(k)].undo.set \cap notices[n].undo.set = {}
    BY <1>7, <2>1 DEF Offered
  <2>4. notices'[k].undo.set \subseteq visit'.marked
    BY <1>7, <2>1, <2>2, <2>3
  <2>5. ASSUME NEW m \in DOMAIN notices', m # k, notices'[m].undo.mount = visit.mount
        PROVE  notices'[m].undo.set \cap notices'[k].undo.set = {}
    <3>1. From(m) \in DOMAIN notices /\ notices'[m] = notices[From(m)] /\ From(m) # From(k)
      BY <1>4, <1>5, <1>7, <2>5
    <3>2. QED
      BY <1>7, <2>1, <2>5, <3>1 DEF Offered
  <2>6. QED
    BY <2>4, <2>5
<1>8. QED
  BY <1>2, <1>6, <1>7 DEF Offered

LEMMA MountedIs ==
  \A name, n : /\ DOMAIN Office!Mounted(name, n) = VisitFields
               /\ Office!Mounted(name, n).name = name /\ Office!Mounted(name, n).mount = n
BY DEF Office!Mounted, VisitFields

\* A failing call is told, perhaps.
LEMMA RefusedOffered ==
  ASSUME Offered, Office!FailureIsTold \/ Office!SignOutIsTold, DOMAIN visit' = VisitFields,
         visit'.name = visit.name, visit'.mount = visit.mount, visit'.marked = visit.marked
  PROVE  Offered'
<1>1. UNCHANGED notices \/ \E t : t.undo.mount = 0 /\ notices' = Append(notices, t)
  <2>1. CASE UNCHANGED notices
    BY <2>1
  <2>2. ASSUME NEW kind, Office!Noticed(kind, Office!NoUndo)
        PROVE  \E t : t.undo.mount = 0 /\ notices' = Append(notices, t)
    <3>1. PICK t : t = [id |-> raised + 1, kind |-> kind, undo |-> Office!NoUndo]
      OBVIOUS
    <3>2. notices' = Append(notices, t)
      BY <2>2, <3>1 DEF Office!Noticed
    <3>3. t.undo.mount = 0
      BY <3>1 DEF Office!NoUndo
    <3>4. QED
      BY <3>2, <3>3
  <2>3. QED
    BY <2>1, <2>2 DEF Office!FailureIsTold, Office!SignOutIsTold
<1>2. CASE UNCHANGED notices
  BY <1>2, StaysOffered
<1>3. ASSUME NEW t, t.undo.mount = 0, notices' = Append(notices, t)
      PROVE  Offered'
  BY <1>3, ToldOffered
<1>4. QED
  BY <1>1, <1>2, <1>3

LEMMA WorkOffered ==
  ASSUME Offered, Office!Work
  PROVE  Offered'
<1>1. DOMAIN visit = VisitFields
  BY DEF Offered
<1>2. CASE \E n \in DOMAIN notices : Office!Expire(n) \/ Office!Dismiss(n)
  <2>1. PICK n \in DOMAIN notices : notices' = Office!RemoveAt(notices, n) /\ UNCHANGED visit
    BY <1>2 DEF Office!Expire, Office!Dismiss, Office!Dismissed
  <2>2. QED
    BY <1>1, <2>1, TakenOffered
<1>3. ASSUME NEW n \in DOMAIN notices, Office!Undo(n)
      PROVE  Offered'
  <2>1. notices' = Office!RemoveAt(notices, n) /\ visit' = Office!Undone(notices[n].undo)
    BY <1>3 DEF Office!Undo, Office!Dismissed
  <2>2. CASE visit' = visit
    BY <1>1, <2>1, <2>2, TakenOffered
  <2>3. CASE visit.mount = notices[n].undo.mount
    <3> DEFINE set == IF visit.name = "inbox" THEN notices[n].undo.set ELSE visit.marked \ notices[n].undo.set
    <3>1. visit' = [visit EXCEPT !.marked = set]
      BY <1>1, <2>1, <2>3 DEF Office!Undone, VisitFields
    <3>2. visit.name = "insights" => set = visit.marked \ notices[n].undo.set
      OBVIOUS
    <3> HIDE DEF set
    <3>3. DOMAIN visit' = VisitFields /\ visit'.name = visit.name /\ visit'.mount = visit.mount /\ visit'.marked = set
      BY <1>1, <3>1 DEF VisitFields
    <3>4. QED
      BY <2>1, <2>3, <3>2, <3>3, TakenOffered
  <2>4. QED
    BY <2>1, <2>2, <2>3 DEF Office!Undone
<1>4. CASE UNCHANGED <<visit, notices>>
  BY <1>1, <1>4, StaysOffered
<1>5. ASSUME NEW name, Office!GoTo(name)
      PROVE  Offered'
  BY <1>5, MountedIs, LeftOffered DEF Office!GoTo
<1>6. CASE Office!ReloadPage
  BY <1>6, MountedIs, LeftOffered DEF Office!ReloadPage
<1>7. ASSUME NEW c, Office!Answer(c)
      PROVE  Offered'
  <2>1. UNCHANGED notices
    BY <1>7 DEF Office!Answer
  <2>2. \/ UNCHANGED visit
        \/ \E list : visit' = [visit EXCEPT !.state = "ready", !.list = list]
        \/ \E plan : visit' = [visit EXCEPT !.state = "ready", !.subscribed = plan]
        \/ visit' = Office!Mounted("gone", visit.mount)
    BY <1>7 DEF Office!Answer
  <2>3. DOMAIN visit' = VisitFields /\ visit'.mount = visit.mount
        /\ (visit'.name = "insights" => visit.name = "insights" /\ visit'.marked = visit.marked)
    <3>1. CASE visit' = Office!Mounted("gone", visit.mount)
      <4>1. DOMAIN visit' = VisitFields /\ visit'.mount = visit.mount /\ visit'.name = "gone"
        BY <3>1, MountedIs, Zenon
      <4>2. QED
        BY <4>1
    <3>2. CASE visit' # Office!Mounted("gone", visit.mount)
      BY <1>1, <2>2, <3>2 DEF VisitFields
    <3>3. QED
      BY <3>1, <3>2
  <2>4. QED
    BY <2>1, <2>3, StaysOffered
<1>8. ASSUME NEW c, Office!Refuse(c)
      PROVE  Offered'
  <2>1. /\ DOMAIN visit' = VisitFields
        /\ visit'.name = visit.name /\ visit'.mount = visit.mount /\ visit'.marked = visit.marked
    <3>1. visit' = visit \/ visit' = [visit EXCEPT !.state = "failed"] \/ visit' = [visit EXCEPT !.busy = "no"]
      BY <1>8 DEF Office!Refuse
    <3>2. QED
      BY <1>1, <3>1 DEF VisitFields
  <2>2. QED
    BY <1>8, <2>1, RefusedOffered DEF Office!Refuse
<1>9. ASSUME NEW kind, Office!Pay(kind)
      PROVE  Offered'
  <2>1. visit' = [visit EXCEPT !.busy = kind] /\ UNCHANGED notices
    BY <1>9 DEF Office!Pay
  <2>2. /\ DOMAIN visit' = VisitFields
        /\ visit'.name = visit.name /\ visit'.mount = visit.mount /\ visit'.marked = visit.marked
    BY <1>1, <2>1 DEF VisitFields
  <2>3. QED
    BY <2>1, <2>2, StaysOffered
<1>10. ASSUME NEW kind, NEW undo, NEW marked, Office!Noticed(kind, undo), visit' = [visit EXCEPT !.marked = marked],
              \/ undo.mount = 0 /\ marked = visit.marked
              \/ /\ undo.mount = visit.mount
                 /\ visit.name = "insights" => undo.set \cap visit.marked = {} /\ marked = visit.marked \cup undo.set
       PROVE  Offered'
  <2>1. PICK t : t = [id |-> raised + 1, kind |-> kind, undo |-> undo]
    OBVIOUS
  <2>2. t.undo = undo /\ notices' = Append(notices, t)
    BY <1>10, <2>1 DEF Office!Noticed
  <2>3. /\ DOMAIN visit' = VisitFields
        /\ visit'.name = visit.name /\ visit'.mount = visit.mount /\ visit'.marked = marked
    BY <1>1, <1>10 DEF VisitFields
  <2>4. QED
    BY <1>10, <2>2, <2>3, ToldOffered
<1>11. CASE Office!MarkAllRead
  <2>1. PICK ids, undo : /\ ids = {i.id : i \in Items} /\ undo = [mount |-> visit.mount, set |-> visit.marked]
    OBVIOUS
  <2>2. visit.name # "insights" /\ visit' = [visit EXCEPT !.marked = ids] /\ Office!Noticed("success", undo)
        /\ undo.mount = visit.mount
    BY <1>11, <2>1 DEF Office!MarkAllRead
  <2>3. QED
    BY <1>10, <2>2
<1>12. ASSUME NEW i, Office!DismissInsight(i)
       PROVE  Offered'
  <2>1. PICK undo : undo = [mount |-> visit.mount, set |-> {i.id}]
    OBVIOUS
  <2>2. /\ visit.name = "insights" /\ i.id \notin visit.marked
        /\ Office!Noticed("success", undo) /\ undo.mount = visit.mount /\ undo.set = {i.id}
        /\ visit' = [visit EXCEPT !.marked = visit.marked \cup {i.id}]
    BY <1>1, <1>12, <2>1 DEF Office!DismissInsight, Office!Cards, Office!Visible, VisitFields
  <2>3. QED
    BY <1>10, <2>2
<1>13. CASE Office!PushToNotion
  <2>1. UNCHANGED visit /\ Office!FailureIsTold
    BY <1>13 DEF Office!PushToNotion, Office!FailureIsTold
  <2>2. QED
    BY <1>1, <2>1, RefusedOffered
<1>14. CASE Office!CycleFilter
  <2>1. /\ UNCHANGED notices
        /\ \E f : visit' = [visit EXCEPT !.filter = f]
    BY <1>14 DEF Office!CycleFilter
  <2>2. /\ DOMAIN visit' = VisitFields
        /\ visit'.name = visit.name /\ visit'.mount = visit.mount /\ visit'.marked = visit.marked
    BY <1>1, <2>1 DEF VisitFields
  <2>3. QED
    BY <2>1, <2>2, StaysOffered
<1>15. CASE Office!WarnAgain \/ Office!ToggleCollapsed \/ Office!OpenMenu \/ Office!OpenAccount \/ Office!Escape
  BY <1>4, <1>15 DEF Office!WarnAgain, Office!ToggleCollapsed, Office!OpenMenu, Office!OpenAccount, Office!Escape
<1>16. QED
  BY <1>2, <1>3, <1>5, <1>6, <1>7, <1>8, <1>9, <1>11, <1>12, <1>13, <1>14, <1>15 DEF Office!Work

\* Undo takes back what its notice speaks of and nothing else: what a notice that
\* is still offered would bring back is marked, and no other notice brings it
\* back (InsightsBoard.tsx:52-67, Toast.tsx:71-95).
THEOREM UndoForever == Spec => []OfferedUndoWorks
<1>1. Init => Offered
  <2> SUFFICES ASSUME Init PROVE Offered
    OBVIOUS
  <2>1. visit = Office!Mounted("studies", 1) /\ notices = <<>>
    BY DEF Init, Office!WorkspaceInit
  <2>2. DOMAIN visit = VisitFields /\ visit.mount = 1 /\ visit.name = "studies"
    BY <2>1, MountedIs
  <2>3. notices \in Seq({}) /\ DOMAIN notices = {}
    BY <2>1
  <2>4. QED
    BY <2>2, <2>3 DEF Offered
<1>2. Offered /\ [Next]_consoleVars => Offered'
  <2> SUFFICES ASSUME Offered, [Next]_consoleVars PROVE Offered'
    OBVIOUS
  <2>1. CASE UNCHANGED <<visit, notices>>
    BY <2>1, StaysOffered DEF Offered
  <2>2. QED
    BY <2>1, WorkOffered DEF Next, consoleVars, officeVars
<1>3. Offered => OfferedUndoWorks
  BY DEF Offered, OfferedUndoWorks
<1>4. QED
  BY <1>1, <1>2, <1>3, PTL DEF Spec

-----------------------------------------------------------------------------
(* The trials of a program.  What is in the form of a trial has not been   *)
(* recorded, or the answer that empties the form is under way, or it was   *)
(* lost.                                                                   *)

Trials == docs[Operator!Version].trials

ProgramFields == {"evidence", "claims", "promoted", "bound", "trials", "pairs"}
Written       == {"evidence", "review", "rejection", "bindings", "trial", "calibration", "decision"}

ProgramTyped ==
  /\ \E S : docs \in Seq(S)
  /\ Operator!Version > 0
  /\ DOMAIN docs[Operator!Version] = ProgramFields

FormsTyped ==
  /\ DOMAIN bench = {"form", "cites", "write"} /\ DOMAIN bench.form = Operator!Forms
  /\ \A f \in Operator!Forms : bench.form[f] \in 0 .. typed
  /\ DOMAIN bench.write = DOMAIN Operator!Resting
  /\ bench.write.st # "idle" => bench.write.form \in Written
  /\ bench.write.form = "trial" => bench.write.what = bench.form["trial"] /\ bench.write.what # 0

Recording == bench.write.st = "answered" /\ bench.write.answer = "ok" /\ bench.write.form = "trial"

RecordInv ==
  /\ typed \in Nat /\ ProgramTyped /\ FormsTyped
  /\ Trials \in Seq(1 .. typed)
  /\ \A i \in DOMAIN Trials : Trials[i] = bench.form["trial"] => Trials[i] \in unheard \/ Recording
  /\ \A i, j \in DOMAIN Trials : Trials[i] = Trials[j] /\ i # j => Trials[i] \in unheard

LEMMA RestingTyped ==
  /\ DOMAIN Operator!Resting = {"st", "form", "what", "cites", "expects", "answer", "version"}
  /\ Operator!Resting.st = "idle" /\ Operator!Resting.form = "none"
  BY DEF Operator!Resting

LEMMA AppendOne ==
  ASSUME NEW A, NEW s \in Seq(A), NEW x \in A, NEW t, t = Append(s, x)
  PROVE  /\ t \in Seq(A)
         /\ \A i \in DOMAIN t : (i \in DOMAIN s /\ t[i] = s[i]) \/ (i = Len(s) + 1 /\ t[i] = x)
  OBVIOUS

LEMMA Wider ==
  ASSUME NEW A, NEW B, A \subseteq B, NEW s \in Seq(A)
  PROVE  s \in Seq(B)
  OBVIOUS

\* A new version of the program, or none.
LEMMA NextProgram ==
  ASSUME ProgramTyped, NEW ws, docs' = docs \/ docs' = Append(docs, ws), DOMAIN ws = ProgramFields,
         docs' # docs => ws.trials = Trials
  PROVE  ProgramTyped' /\ Trials' = Trials
<1>1. PICK S : docs \in Seq(S)
  BY DEF ProgramTyped
<1>2. docs \in Seq(S \cup {ws})
  BY <1>1
<1>3. CASE docs' = docs
  BY <1>3 DEF ProgramTyped, Trials, Operator!Version
<1>4. CASE docs' # docs
  <2>1. docs' = Append(docs, ws) /\ docs' \in Seq(S \cup {ws})
    BY <1>2, <1>4
  <2>2. Len(docs') = Len(docs) + 1 /\ Len(docs) \in Nat /\ docs'[Len(docs')] = ws
    BY <1>2, <2>1
  <2>3. \E T : docs' \in Seq(T)
    BY <2>1
  <2>4. QED
    BY <1>4, <2>2, <2>3 DEF ProgramTyped, Trials, Operator!Version
<1>5. QED
  BY <1>3, <1>4

\* Steps that record no trial.
LEMMA NothingRecorded ==
  ASSUME RecordInv, UNCHANGED typed, ProgramTyped', Trials' = Trials, FormsTyped', unheard \subseteq unheard',
         \/ bench'.form["trial"] = 0
         \/ bench'.form["trial"] = bench.form["trial"] /\ (Recording => Recording')
         \/ bench'.form["trial"] = bench.form["trial"] /\ (Recording => bench.form["trial"] \in unheard')
  PROVE  RecordInv'
<1>1. \A i \in DOMAIN Trials : Trials[i] \in 1 .. typed
  BY DEF RecordInv
<1>2. ASSUME NEW i \in DOMAIN Trials, Trials[i] = bench'.form["trial"]
      PROVE  Trials[i] \in unheard' \/ Recording'
  <2>1. Trials[i] # 0
    BY <1>1
  <2>2. bench'.form["trial"] = bench.form["trial"]
    BY <1>2, <2>1
  <2>3. Trials[i] \in unheard \/ Recording
    BY <1>2, <2>2 DEF RecordInv
  <2>4. QED
    BY <1>2, <2>1, <2>2, <2>3
<1>3. QED
  BY <1>2 DEF RecordInv

LEMMA FillRecorded ==
  ASSUME RecordInv, NEW f \in Operator!Forms, Operator!Fill(f)
  PROVE  RecordInv'
<1>1. /\ typed' = typed + 1 /\ bench' = [bench EXCEPT !.form[f] = typed + 1] /\ bench.form[f] = 0
      /\ UNCHANGED <<docs, unheard>>
  BY DEF Operator!Fill
<1>2. typed \in Nat /\ FormsTyped /\ ProgramTyped
  BY DEF RecordInv
<1>3. /\ DOMAIN bench' = DOMAIN bench /\ bench'.write = bench.write /\ DOMAIN bench'.form = Operator!Forms
      /\ bench'.form[f] = typed + 1 /\ \A g \in Operator!Forms \ {f} : bench'.form[g] = bench.form[g]
  BY <1>1, <1>2 DEF FormsTyped
<1>4. "trial" \in Operator!Forms
  BY DEF Operator!Forms
<1>5. FormsTyped'
  BY <1>1, <1>2, <1>3, <1>4 DEF FormsTyped
<1>6. ProgramTyped' /\ Trials' = Trials
  BY <1>1, <1>2 DEF ProgramTyped, Trials, Operator!Version
<1>7. Trials' \in Seq(1 .. typed')
  <2>1. Trials \in Seq(1 .. typed) /\ 1 .. typed \subseteq 1 .. typed'
    BY <1>1, <1>2 DEF RecordInv
  <2>2. QED
    BY <1>6, <2>1, Wider
<1>8. ASSUME NEW i \in DOMAIN Trials, Trials[i] = bench'.form["trial"]
      PROVE  Trials[i] \in unheard' \/ Recording'
  <2>1. Trials[i] \in 1 .. typed
    BY DEF RecordInv
  <2>2. f # "trial"
    BY <1>2, <1>3, <1>8, <2>1
  <2>3. bench'.form["trial"] = bench.form["trial"]
    BY <1>3, <1>4, <2>2
  <2>4. Trials[i] \in unheard \/ Recording
    BY <1>8, <2>3 DEF RecordInv
  <2>5. QED
    BY <1>1, <1>3, <2>4 DEF Recording
<1>9. QED
  BY <1>1, <1>2, <1>5, <1>6, <1>7, <1>8 DEF RecordInv

LEMMA SubmitRecorded ==
  ASSUME RecordInv, Operator!Press
  PROVE  RecordInv'
<1>1. PICK form, what :
        /\ form \in Written /\ Operator!Submit(form, what)
        /\ form = "trial" => what = bench.form["trial"] /\ what # 0
  BY DEF Operator!Press, Operator!AttachEvidence, Operator!AcceptEvidence, Operator!RejectEvidence,
         Operator!BindVersions, Operator!RecordTrial, Operator!RecordCalibration, Operator!Recompute,
         Operator!TrialOn, Written
<1>2. PICK w : /\ bench' = [bench EXCEPT !.write = w]
               /\ w = [Operator!Resting EXCEPT !.st = "sent", !.form = form, !.what = what, !.cites = bench.cites, !.expects = shown]
  BY <1>1 DEF Operator!Submit
<1>3. DOMAIN w = DOMAIN Operator!Resting /\ w.st = "sent" /\ w.form = form /\ w.what = what
  BY <1>2, RestingTyped
<1>4. UNCHANGED <<docs, typed, unheard>> /\ bench.write.st = "idle"
  BY <1>1 DEF Operator!Submit, Operator!Busy
<1>5. bench'.write = w /\ bench'.form = bench.form /\ DOMAIN bench' = DOMAIN bench
  BY <1>2 DEF RecordInv, FormsTyped
<1>6. FormsTyped'
  BY <1>1, <1>3, <1>4, <1>5 DEF RecordInv, FormsTyped
<1>7. ProgramTyped' /\ Trials' = Trials
  BY <1>4 DEF RecordInv, ProgramTyped, Trials, Operator!Version
<1>8. ~Recording
  BY <1>4 DEF Recording
<1>9. QED
  BY <1>4, <1>5, <1>6, <1>7, <1>8, NothingRecorded

\* A write of another form, or one that is refused or lost.
LEMMA WrittenIs ==
  ASSUME ProgramTyped, NEW w, w.form \in Written
  PROVE  /\ DOMAIN Operator!Written(w) = ProgramFields
         /\ Operator!Written(w).trials = IF w.form = "trial" THEN Append(Trials, w.what) ELSE Trials
  BY DEF ProgramTyped, Operator!Written, Written, ProgramFields, Trials

\* What becomes of a write keeps the forms.
LEMMA WriteTyped ==
  ASSUME FormsTyped, UNCHANGED typed, NEW w, bench' = [bench EXCEPT !.write = w],
         DOMAIN w = DOMAIN bench.write, w.form = bench.write.form, w.what = bench.write.what, bench.write.st # "idle"
  PROVE  FormsTyped' /\ bench'.write = w /\ bench'.form = bench.form
  BY DEF FormsTyped

LEMMA ServeWriteRecorded ==
  ASSUME RecordInv, Operator!ServeWrite
  PROVE  RecordInv'
<1> DEFINE b == bench.write
<1>1. /\ typed \in Nat /\ FormsTyped /\ ProgramTyped /\ UNCHANGED <<typed, unheard>>
      /\ b.st = "sent" /\ b.form \in Written /\ DOMAIN b = DOMAIN Operator!Resting
  BY DEF RecordInv, FormsTyped, Operator!ServeWrite
<1>2. ~Recording
  BY <1>1 DEF Recording
<1>3. ASSUME UNCHANGED docs, bench' = Refused \/ bench' = Rereading \/ bench' = Answered(Operator!Version)
      PROVE  RecordInv'
  <2>1. PICK w : /\ bench' = [bench EXCEPT !.write = w] /\ DOMAIN w = DOMAIN b
                 /\ w.form = b.form /\ w.what = b.what
    <3>1. CASE bench' = Refused
      <4> DEFINE w == [b EXCEPT !.st = "answered", !.answer = "refused"]
      <4>1. bench' = [bench EXCEPT !.write = w] /\ DOMAIN w = DOMAIN b /\ w.form = b.form /\ w.what = b.what
        BY <1>1, <3>1, RestingTyped DEF Refused, FormsTyped
      <4> HIDE DEF w
      <4>2. QED
        BY <4>1
    <3>2. CASE bench' = Rereading
      <4> DEFINE w == [b EXCEPT !.st = "reading"]
      <4>1. bench' = [bench EXCEPT !.write = w] /\ DOMAIN w = DOMAIN b /\ w.form = b.form /\ w.what = b.what
        BY <1>1, <3>2, RestingTyped DEF Rereading, FormsTyped
      <4> HIDE DEF w
      <4>2. QED
        BY <4>1
    <3>3. CASE bench' = Answered(Operator!Version)
      <4> DEFINE w == [b EXCEPT !.st = "answered", !.answer = "ok", !.version = Operator!Version]
      <4>1. bench' = [bench EXCEPT !.write = w] /\ DOMAIN w = DOMAIN b /\ w.form = b.form /\ w.what = b.what
        BY <1>1, <3>3, RestingTyped DEF Answered, FormsTyped
      <4> HIDE DEF w
      <4>2. QED
        BY <4>1
    <3>4. QED
      BY <1>3, <3>1, <3>2, <3>3
  <2>2. FormsTyped' /\ bench'.form = bench.form
    BY <1>1, <2>1, WriteTyped
  <2>3. ProgramTyped' /\ Trials' = Trials
    BY <1>1, <1>3 DEF ProgramTyped, Trials, Operator!Version
  <2>4. QED
    BY <1>1, <1>2, <2>2, <2>3, NothingRecorded
<1>4. ASSUME docs' = Append(docs, Operator!Written(b)), bench' = Answered(Operator!Version + 1)
      PROVE  RecordInv'
  <2> DEFINE w == [b EXCEPT !.st = "answered", !.answer = "ok", !.version = Operator!Version + 1]
  <2>1. /\ bench' = [bench EXCEPT !.write = w] /\ DOMAIN w = DOMAIN b /\ w.form = b.form /\ w.what = b.what
        /\ w.st = "answered" /\ w.answer = "ok"
    BY <1>1, <1>4, RestingTyped DEF Answered, FormsTyped
  <2> HIDE DEF w
  <2>2. FormsTyped' /\ bench'.form = bench.form /\ bench'.write = w
    BY <1>1, <2>1, WriteTyped
  <2>3. /\ DOMAIN Operator!Written(b) = ProgramFields
        /\ Operator!Written(b).trials = IF b.form = "trial" THEN Append(Trials, b.what) ELSE Trials
    BY <1>1, WrittenIs
  <2>4. CASE b.form # "trial"
    <3>1. ProgramTyped' /\ Trials' = Trials
      BY <1>1, <1>4, <2>3, <2>4, NextProgram
    <3>2. QED
      BY <1>1, <1>2, <2>2, <3>1, NothingRecorded
  <2>5. CASE b.form = "trial"
    <3> DEFINE x == bench.form["trial"]
    <3>1. b.what = x /\ x \in 1 .. typed
      BY <1>1, <2>5 DEF FormsTyped, Operator!Forms
    <3>2. ProgramTyped' /\ Trials' = Append(Trials, x)
      <4>1. PICK S : docs \in Seq(S)
        BY <1>1 DEF ProgramTyped
      <4>2. PICK ws : ws = Operator!Written(b)
        OBVIOUS
      <4>3. docs \in Seq(S \cup {ws}) /\ docs' = Append(docs, ws)
        BY <1>4, <4>1, <4>2, Wider
      <4>4. docs' \in Seq(S \cup {ws}) /\ Len(docs') = Len(docs) + 1 /\ Len(docs) \in Nat /\ docs'[Len(docs')] = ws
        BY <4>3
      <4>5. \E T : docs' \in Seq(T)
        BY <4>4
      <4>6. DOMAIN ws = ProgramFields /\ ws.trials = Append(Trials, x)
        BY <2>3, <2>5, <3>1, <4>2
      <4>7. QED
        BY <1>1, <4>4, <4>5, <4>6 DEF ProgramTyped, Trials, Operator!Version
    <3> HIDE DEF x
    <3>3. PICK A : A = 1 .. typed
      OBVIOUS
    <3>4. /\ Trials \in Seq(A) /\ x \in A
          /\ \A i \in DOMAIN Trials : Trials[i] = x => Trials[i] \in unheard
      BY <1>2, <3>1, <3>3 DEF RecordInv, x
    <3>5. /\ Trials' \in Seq(A)
          /\ \A i \in DOMAIN Trials' :
               (i \in DOMAIN Trials /\ Trials'[i] = Trials[i]) \/ (i = Len(Trials) + 1 /\ Trials'[i] = x)
      BY <3>2, <3>4, AppendOne
    <3>6. ASSUME NEW i \in DOMAIN Trials', NEW j \in DOMAIN Trials', Trials'[i] = Trials'[j], i # j
          PROVE  Trials'[i] \in unheard'
      BY <1>1, <3>4, <3>5, <3>6 DEF RecordInv
    <3>7. ASSUME NEW i \in DOMAIN Trials'
          PROVE  Recording'
      BY <2>1, <2>2, <2>5 DEF Recording
    <3>8. Trials' \in Seq(1 .. typed')
      BY <1>1, <3>3, <3>5
    <3>9. QED
      BY <1>1, <2>2, <3>2, <3>6, <3>7, <3>8 DEF RecordInv
  <2>6. QED
    BY <2>4, <2>5
<1>5. QED
  BY <1>3, <1>4 DEF Operator!ServeWrite, Answered, Refused, Rereading

\* A form that has been recorded is emptied; what is not heard of stays.
LEMMA AnsweredRecorded ==
  ASSUME RecordInv, Operator!WriteAnswered
  PROVE  RecordInv'
<1> DEFINE b == bench.write
<1>1. /\ typed \in Nat /\ FormsTyped /\ ProgramTyped /\ UNCHANGED <<docs, typed>>
      /\ b.st = "answered" /\ b.form \in Written /\ DOMAIN b = DOMAIN Operator!Resting
      /\ unheard \subseteq unheard'
  BY DEF RecordInv, FormsTyped, Operator!WriteAnswered
<1>2. ProgramTyped' /\ Trials' = Trials
  BY <1>1 DEF ProgramTyped, Trials, Operator!Version
<1>3. CASE /\ b.answer = "ok"
           /\ bench' = [bench EXCEPT !.write = Operator!Resting, !.form = Operator!Cleared(b.form),
                                     !.cites = IF b.form = "evidence" THEN @ \cup {b.what} ELSE @]
  <2>1. bench'.write = Operator!Resting /\ bench'.form = Operator!Cleared(b.form) /\ DOMAIN bench' = DOMAIN bench
    BY <1>1, <1>3 DEF FormsTyped
  <2>2. /\ DOMAIN bench'.form = Operator!Forms
        /\ \A f \in Operator!Forms : bench'.form[f] = 0 \/ bench'.form[f] = bench.form[f]
        /\ b.form = "trial" => bench'.form["trial"] = 0
    BY <2>1 DEF Operator!Cleared, Operator!Forms
  <2>3. FormsTyped'
    BY <1>1, <2>1, <2>2, RestingTyped DEF FormsTyped
  <2>4. CASE b.form = "trial"
    BY <1>1, <1>2, <2>2, <2>3, <2>4, NothingRecorded
  <2>5. CASE b.form # "trial"
    <3>1. ~Recording
      BY <2>5 DEF Recording
    <3>2. bench'.form["trial"] = 0 \/ bench'.form["trial"] = bench.form["trial"]
      BY <2>2 DEF Operator!Forms
    <3>3. QED
      BY <1>1, <1>2, <2>3, <3>1, <3>2, NothingRecorded
  <2>6. QED
    BY <2>4, <2>5
<1>4. CASE bench' = Rereading /\ (b.answer = "refused" \/ unheard' = unheard \cup {b.what})
  <2> DEFINE w == [b EXCEPT !.st = "reading"]
  <2>1. bench' = [bench EXCEPT !.write = w] /\ DOMAIN w = DOMAIN b /\ w.form = b.form /\ w.what = b.what
    BY <1>1, <1>4, RestingTyped DEF Rereading, FormsTyped
  <2> HIDE DEF w
  <2>2. FormsTyped' /\ bench'.form = bench.form
    BY <1>1, <2>1, WriteTyped
  <2>3. Recording => bench.form["trial"] \in unheard'
    BY <1>1, <1>4 DEF Recording, FormsTyped
  <2>4. QED
    BY <1>1, <1>2, <2>2, <2>3, NothingRecorded
<1>5. QED
  BY <1>3, <1>4 DEF Operator!WriteAnswered, Rereading

LEMMA RereadRecorded ==
  ASSUME RecordInv, Operator!ServeReread \/ Operator!RereadAnswered
  PROVE  RecordInv'
<1> DEFINE b == bench.write
<1>1. /\ typed \in Nat /\ FormsTyped /\ ProgramTyped /\ UNCHANGED <<docs, typed, unheard>>
      /\ b.st \in {"reading", "read"} /\ DOMAIN b = DOMAIN Operator!Resting
  BY DEF RecordInv, FormsTyped, Operator!ServeReread, Operator!RereadAnswered
<1>2. ProgramTyped' /\ Trials' = Trials /\ ~Recording
  BY <1>1 DEF ProgramTyped, Trials, Operator!Version, Recording
<1>3. CASE Operator!ServeReread
  <2> DEFINE w == [b EXCEPT !.st = "read", !.version = Operator!Version]
  <2>1. bench' = [bench EXCEPT !.write = w] /\ DOMAIN w = DOMAIN b /\ w.form = b.form /\ w.what = b.what
    BY <1>1, <1>3, RestingTyped DEF Operator!ServeReread, FormsTyped
  <2> HIDE DEF w
  <2>2. FormsTyped' /\ bench'.form = bench.form
    BY <1>1, <2>1, WriteTyped
  <2>3. QED
    BY <1>1, <1>2, <2>2, NothingRecorded
<1>4. CASE Operator!RereadAnswered
  <2>1. bench' = [bench EXCEPT !.write = Operator!Resting]
    BY <1>4 DEF Operator!RereadAnswered
  <2>2. FormsTyped' /\ bench'.form = bench.form
    BY <1>1, <2>1, RestingTyped DEF FormsTyped
  <2>3. QED
    BY <1>1, <1>2, <2>2, NothingRecorded
<1>5. QED
  BY <1>3, <1>4

\* Another reviewer, whose version of the program has the same trials.
LEMMA MeanwhileRecorded ==
  ASSUME RecordInv, Operator!Meanwhile
  PROVE  RecordInv'
<1>1. /\ docs' = Append(docs, docs[Operator!Version]) /\ UNCHANGED <<typed, unheard, bench>>
      /\ ProgramTyped /\ FormsTyped /\ DOMAIN docs[Operator!Version] = ProgramFields
      /\ docs[Operator!Version].trials = Trials
  BY DEF Operator!Meanwhile, RecordInv, ProgramTyped, Trials
<1>2. ProgramTyped' /\ Trials' = Trials
  BY <1>1, NextProgram
<1>3. FormsTyped' /\ (Recording => Recording')
  BY <1>1 DEF FormsTyped, Recording
<1>4. QED
  BY <1>1, <1>2, <1>3, NothingRecorded

\* What the page of the study does leaves the forms alone, but for a reload.
LEMMA PageRecorded ==
  ASSUME RecordInv, UNCHANGED <<docs, typed, unheard>>, bench' = bench \/ bench' = Operator!NewBench
  PROVE  RecordInv'
<1>1. ProgramTyped' /\ Trials' = Trials
  BY DEF RecordInv, ProgramTyped, Trials, Operator!Version
<1>2. CASE bench' = bench
  <2>1. FormsTyped' /\ (Recording => Recording')
    BY <1>2 DEF RecordInv, FormsTyped, Recording
  <2>2. QED
    BY <1>1, <1>2, <2>1, NothingRecorded
<1>3. CASE bench' = Operator!NewBench
  <2>1. FormsTyped' /\ bench'.form["trial"] = 0
    BY <1>3, RestingTyped DEF RecordInv, FormsTyped, Operator!NewBench, Operator!Empty, Operator!Forms
  <2>2. QED
    BY <1>1, <2>1, NothingRecorded
<1>4. QED
  BY <1>2, <1>3

LEMMA WorkbenchRecorded ==
  ASSUME RecordInv, Operator!WorkbenchStep
  PROVE  RecordInv'
<1>1. ASSUME NEW a, Operator!Cite(a)
      PROVE  RecordInv'
  <2>1. FormsTyped' /\ (Recording => Recording') /\ bench'.form = bench.form
    BY <1>1 DEF Operator!Cite, RecordInv, FormsTyped, Recording
  <2>2. ProgramTyped' /\ Trials' = Trials /\ UNCHANGED <<typed, unheard>>
    BY <1>1 DEF Operator!Cite, RecordInv, ProgramTyped, Trials, Operator!Version
  <2>3. QED
    BY <2>1, <2>2, NothingRecorded
<1>2. QED
  BY <1>1, FillRecorded, SubmitRecorded, ServeWriteRecorded, AnsweredRecorded, RereadRecorded
     DEF Operator!WorkbenchStep, Operator!WriteGoesOn

LEMMA StudyRecorded ==
  ASSUME RecordInv, Operator!Operate \/ Operator!Review
  PROVE  RecordInv'
<1>1. ASSUME \/ \E n \in Operator!Names : Operator!Receive(n) \/ Operator!CommandFails(n) \/ Operator!PollDue(n)
             \/ Operator!Receive("poll") \/ Operator!PollDue("poll")
             \/ Operator!Retry \/ Operator!Reload \/ Operator!Publish \/ Operator!Export \/ Operator!Exported
             \/ Operator!AskToClose \/ Operator!Close \/ Operator!ClosedElsewhere
      PROVE  RecordInv'
  <2>1. UNCHANGED <<docs, typed, unheard>> /\ (bench' = bench \/ bench' = Operator!NewBench)
    BY <1>1 DEF Operator!Receive, Operator!ServeDetail, Operator!DetailRead, Operator!ServeEval, Operator!EvalRead,
         Operator!ServeCommand, Operator!Commanded, Operator!CommandFails, Operator!PollDue, Operator!Retry,
         Operator!Reload, Operator!Publish, Operator!Export, Operator!Exported, Operator!AskToClose, Operator!Close,
         Operator!ClosedElsewhere, Operator!Command, Operator!benchVars
  <2>2. QED
    BY <2>1, PageRecorded
<1>2. QED
  BY <1>1, MeanwhileRecorded, WorkbenchRecorded DEF Operator!Operate, Operator!Review

LEMMA InitRecorded == Init => RecordInv
<1> SUFFICES ASSUME Init PROVE RecordInv
  OBVIOUS
<1>1. /\ typed = 0 /\ bench = Operator!NewBench
      /\ \E p \in {Operator!NewProgram, Operator!BoundProgram} : docs = <<p>>
  BY DEF Init, Operator!BenchInit, Operator!ReviewInit, Operator!StudyInit
<1>2. PICK p \in {Operator!NewProgram, Operator!BoundProgram} : docs = <<p>>
  BY <1>1
<1> DEFINE new == Operator!NewProgram
<1>3. DOMAIN new = ProgramFields /\ new.trials = <<>>
  BY DEF Operator!NewProgram, ProgramFields
<1>4. Operator!BoundProgram = [new EXCEPT !.evidence = {0}, !.claims = <<0>>, !.promoted = TRUE, !.bound = TRUE]
  BY DEF Operator!BoundProgram
<1> HIDE DEF new
<1>5. DOMAIN p = ProgramFields /\ p.trials = <<>>
  BY <1>2, <1>3, <1>4 DEF ProgramFields, new
<1>6. docs \in Seq({p}) /\ Len(docs) = 1 /\ docs[1] = p
  BY <1>2
<1>7. \E S : docs \in Seq(S)
  BY <1>6
<1>8. ProgramTyped /\ Trials = <<>>
  BY <1>6, <1>5, <1>7 DEF ProgramTyped, Trials, Operator!Version
<1>9. FormsTyped
  BY <1>1, RestingTyped DEF FormsTyped, Operator!NewBench, Operator!Empty
<1>10. QED
  BY <1>1, <1>8, <1>9 DEF RecordInv

LEMMA NextRecorded == RecordInv /\ [Next]_consoleVars => RecordInv'
<1> SUFFICES ASSUME RecordInv, [Next]_consoleVars PROVE RecordInv'
  OBVIOUS
<1>1. CASE Operator!Operate \/ Operator!Review
  BY <1>1, StudyRecorded
<1>2. CASE UNCHANGED studyVars
  BY <1>2, PageRecorded DEF studyVars, benchVars
<1>3. QED
  BY <1>1, <1>2 DEF Next, consoleVars

\* The outputs that a reviewer types in are recorded as a run once, unless the
\* answer that said so was lost.
THEOREM RunsOnce == Spec => []RunsRecordedOnce
<1>1. RecordInv => RunsRecordedOnce
  BY DEF RecordInv, RunsRecordedOnce, Trials
<1>2. QED
  BY <1>1, InitRecorded, NextRecorded, PTL DEF Spec

-----------------------------------------------------------------------------
(* The drawer of the agent.                                                *)

Record == [script : Scripts, log : Seq(Events), decided : BOOLEAN, over : BOOLEAN]
Kinds  == {"tool", "campaigns", "plan", "verification", "confirmation"}
Phases == {"running", "done", "error", "shown", "pending", "sending", "decided"}
Cards  == [kind : Kinds, run : Nat, id : Nat, phase : Phases]

\* What a run has done is how its script begins.
RunsPlayed ==
  /\ runs \in Seq(Record)
  /\ \A r \in DOMAIN runs :
       /\ Len(runs[r].log) <= Len(runs[r].script)
       /\ \A n \in DOMAIN runs[r].log : runs[r].log[n] = runs[r].script[n]

Replied(log, cursor, id) == \E n \in 1 .. cursor : log[n].type \in Answers /\ log[n].id = id
Called(log, cursor, id)   == \E n \in 1 .. cursor : log[n].type = "tool_call" /\ log[n].id = id

\* The cards of the tools of a run show what it has done as far as it has been
\* taken in: each has been called, one call has one card, and it runs until it
\* is answered.
CardsRight(cards, cursor, log, r) ==
  /\ cursor <= Len(log)
  /\ \A i \in DOMAIN cards : cards[i].kind = "tool" /\ cards[i].run = r =>
       /\ Called(log, cursor, cards[i].id)
       /\ cards[i].phase = "running" <=> ~Replied(log, cursor, cards[i].id)
       /\ \A j \in DOMAIN cards : cards[j].kind = "tool" /\ cards[j].run = r /\ cards[j].id = cards[i].id => j = i

\* What a run may have said: calls are told apart, and come first.
Proper(log) ==
  /\ log \in Seq(Events)
  /\ \A m, n \in DOMAIN log : log[m].type = "tool_call" /\ log[n].id = log[m].id =>
       /\ log[n].type = "tool_call" => n = m
       /\ log[n].type \in Answers => n > m

LEMMA CardsAre ==
  ASSUME NEW cards \in Seq(Cards), NEW i \in DOMAIN cards
  PROVE  /\ cards[i] \in Cards /\ cards[i].id \in Nat /\ cards[i].run \in Nat
         /\ DOMAIN cards[i] = {"kind", "run", "id", "phase"}
<1>1. cards[i] \in Cards
  OBVIOUS
<1>2. QED
  BY <1>1 DEF Cards

LEMMA Named ==
  /\ "tool" \in Kinds /\ "campaigns" \in Kinds /\ "plan" \in Kinds /\ "verification" \in Kinds /\ "confirmation" \in Kinds
  /\ "running" \in Phases /\ "done" \in Phases /\ "error" \in Phases /\ "shown" \in Phases
  /\ "pending" \in Phases /\ "sending" \in Phases /\ "decided" \in Phases
BY DEF Kinds, Phases

LEMMA CardIs ==
  ASSUME NEW kind \in Kinds, NEW r \in Nat, NEW id \in Nat, NEW phase \in Phases,
         NEW c, c = Drawer!Card(kind, r, id, phase)
  PROVE  c \in Cards /\ c.kind = kind /\ c.run = r /\ c.id = id /\ c.phase = phase
BY DEF Drawer!Card, Cards

LEMMA ToolCard ==
  ASSUME NEW r \in Nat, NEW id \in Nat, NEW c, c = Drawer!Card("tool", r, id, "running")
  PROVE  c \in Cards /\ c.kind = "tool" /\ c.run = r /\ c.id = id /\ c.phase = "running"
BY CardIs, Named

LEMMA PlanCard ==
  ASSUME NEW r \in Nat, NEW id \in Nat, NEW c, c = Drawer!Card("plan", r, id, "shown")
  PROVE  c \in Cards /\ c.kind = "plan" /\ c.run = r
BY CardIs, Named

LEMMA OtherCard ==
  ASSUME NEW r \in Nat, NEW id \in Nat, NEW kind \in {"campaigns", "verification", "confirmation"},
         NEW phase \in {"shown", "pending"}, NEW c, c = Drawer!Card(kind, r, id, phase)
  PROVE  c \in Cards /\ c.kind = kind /\ c.run = r
BY CardIs, Named

LEMMA EventsAre ==
  ASSUME NEW log, Proper(log), NEW n \in DOMAIN log
  PROVE  log[n].id \in Nat /\ log[n].type \in STRING
<1>1. log[n] \in Events
  BY DEF Proper
<1>2. QED
  BY <1>1 DEF Events

LEMMA LogsProper ==
  ASSUME RunsPlayed, NEW r \in DOMAIN runs
  PROVE  Proper(runs[r].log)
<1>1. runs[r] \in Record
  BY DEF RunsPlayed
<1>2. PICK log, script : log = runs[r].log /\ script = runs[r].script
  OBVIOUS
<1>3. log \in Seq(Events) /\ script \in Scripts
  BY <1>1, <1>2 DEF Record
<1>4. script \in Seq(Events)
  BY <1>3, ScriptsAssumption
<1>5. \A n \in DOMAIN log : n \in DOMAIN script /\ log[n] = script[n]
  BY <1>2, <1>3, <1>4 DEF RunsPlayed
<1>6. \A m, n \in DOMAIN script : script[m].type = "tool_call" /\ script[n].id = script[m].id =>
        /\ script[n].type = "tool_call" => n = m
        /\ script[n].type \in Answers => n > m
  BY <1>3, ScriptsAssumption
<1>7. QED
  BY <1>2, <1>3, <1>5, <1>6 DEF Proper

\* The panel that takes in the next event of the run keeps its cards right.
LEMMA ToolCalled ==
  ASSUME NEW log, Proper(log), NEW cards \in Seq(Cards), NEW cursor \in Nat, NEW r \in Nat,
         CardsRight(cards, cursor, log, r), cursor + 1 \in DOMAIN log,
         log[cursor + 1].type = "tool_call"
  PROVE  CardsRight(Drawer!After(cards, r, log[cursor + 1]), cursor + 1, log, r)
<1> DEFINE e == log[cursor + 1]
           new == Drawer!Card("tool", r, e.id, "running")
           after == Append(cards, new)
<1>1. Drawer!After(cards, r, e) = after
  BY DEF Drawer!After
<1>2. e \in Events /\ Len(log) \in Nat /\ DOMAIN log = 1 .. Len(log)
  BY DEF Proper
<1>3. PICK card : card = new
  OBVIOUS
<1>4. card \in Cards /\ card.kind = "tool" /\ card.run = r /\ card.id = e.id /\ card.phase = "running"
  <2>1. e.id \in Nat
    BY EventsAre
  <2>2. QED
    BY <1>3, <2>1, ToolCard
<1>5. PICK all : all = Append(cards, card)
  OBVIOUS
<1>6. \A i \in DOMAIN all : (i \in DOMAIN cards /\ all[i] = cards[i]) \/ (i = Len(cards) + 1 /\ all[i] = card)
  BY <1>4, <1>3, <1>5
<1>7. ~Called(log, cursor, e.id)
  BY <1>2 DEF Called, Proper
<1>8. ~Replied(log, cursor + 1, e.id)
  BY <1>2 DEF Replied, Proper, Answers
<1>9. Called(log, cursor + 1, e.id)
  BY <1>2 DEF Called
<1>10. \A id \in Nat : id # e.id =>
         Called(log, cursor + 1, id) = Called(log, cursor, id) /\ Replied(log, cursor + 1, id) = Replied(log, cursor, id)
  BY <1>2 DEF Called, Replied
<1>11. \A i \in DOMAIN cards : cards[i].kind = "tool" /\ cards[i].run = r => cards[i].id # e.id /\ cards[i].id \in Nat
  BY <1>7, CardsAre DEF CardsRight
<1>12. ASSUME NEW i \in DOMAIN all, all[i].kind = "tool", all[i].run = r
       PROVE  /\ Called(log, cursor + 1, all[i].id)
              /\ all[i].phase = "running" <=> ~Replied(log, cursor + 1, all[i].id)
              /\ \A j \in DOMAIN all : all[j].kind = "tool" /\ all[j].run = r /\ all[j].id = all[i].id => j = i
  <2>1. CASE i \in DOMAIN cards /\ all[i] = cards[i]
    BY <1>4, <1>3, <1>6, <1>10, <1>11, <1>12, <2>1 DEF CardsRight
  <2>2. CASE i = Len(cards) + 1 /\ all[i] = card
    BY <1>4, <1>3, <1>6, <1>8, <1>9, <1>11, <1>12, <2>2
  <2>3. QED
    BY <1>6, <2>1, <2>2
<1>13. QED
  BY <1>1, <1>2, <1>3, <1>5, <1>12 DEF CardsRight

\* What is not about a tool adds no tool and changes none.
LEMMA OthersRight ==
  ASSUME NEW log, Proper(log), NEW cards \in Seq(Cards), NEW cursor \in Nat, NEW r \in Nat,
         CardsRight(cards, cursor, log, r), cursor + 1 \in DOMAIN log,
         log[cursor + 1].type \notin Answers \cup {"tool_call"},
         NEW after,
         \A i \in DOMAIN after : after[i].kind = "tool" => i \in DOMAIN cards /\ after[i] = cards[i]
  PROVE  CardsRight(after, cursor + 1, log, r)
<1>1. log[cursor + 1] \in Events /\ Len(log) \in Nat /\ DOMAIN log = 1 .. Len(log)
  BY DEF Proper
<1>2. \A id \in Nat : Called(log, cursor + 1, id) = Called(log, cursor, id) /\ Replied(log, cursor + 1, id) = Replied(log, cursor, id)
  BY <1>1 DEF Called, Replied
<1>3. \A i \in DOMAIN cards : cards[i].id \in Nat
  BY CardsAre
<1>4. QED
  BY <1>1, <1>2, <1>3 DEF CardsRight

\* Cards that are changed one by one are as many as before.
LEMMA ChangedAre ==
  ASSUME NEW cards \in Seq(Cards), NEW after, NEW change,
         after = [i \in DOMAIN cards |-> change[i]], \A i \in DOMAIN cards : after[i] \in Cards
  PROVE  after \in Seq(Cards) /\ DOMAIN after = DOMAIN cards
<1>1. Len(cards) \in Nat /\ DOMAIN cards = 1 .. Len(cards)
  OBVIOUS
<1>2. after = [i \in 1 .. Len(cards) |-> after[i]]
  BY <1>1
<1>3. QED
  BY <1>1, <1>2

\* The same cards, in other phases; and those of a run with one more, or a plan,
\* that is no tool's.
SameCards(cards, after) ==
  /\ after \in Seq(Cards) /\ DOMAIN after = DOMAIN cards
  /\ \A i \in DOMAIN cards : after[i].kind = cards[i].kind /\ after[i].run = cards[i].run /\ after[i].id = cards[i].id
Undisturbed(cards, after) ==
  SameCards(cards, after) /\ \A i \in DOMAIN cards : cards[i].kind = "tool" => after[i] = cards[i]
SameTools(cards, after, r) ==
  /\ after \in Seq(Cards)
  /\ \A i \in DOMAIN after : (i \in DOMAIN cards /\ after[i] = cards[i]) \/ (after[i].kind # "tool" /\ after[i].run = r)

LEMMA RephasedIs ==
  ASSUME NEW c \in Cards, NEW phase \in Phases, NEW d, d = c \/ d = [c EXCEPT !.phase = phase]
  PROVE  d \in Cards /\ d.kind = c.kind /\ d.run = c.run /\ d.id = c.id
BY DEF Cards

LEMMA MarkedIs ==
  ASSUME NEW cards \in Seq(Cards), NEW r \in Nat, NEW id \in Nat, NEW phase \in Phases,
         NEW after, after = Drawer!Marked(cards, r, id, phase)
  PROVE  SameCards(cards, after)
<1>1. DOMAIN after = DOMAIN cards
  BY DEF Drawer!Marked
<1>2. ASSUME NEW i \in DOMAIN cards
      PROVE  after[i] \in Cards /\ after[i].kind = cards[i].kind /\ after[i].run = cards[i].run /\ after[i].id = cards[i].id
  <2>1. PICK c : c = cards[i]
    OBVIOUS
  <2>2. c \in Cards
    BY <2>1, CardsAre
  <2>3. after[i] = c \/ after[i] = [c EXCEPT !.phase = phase]
    BY <2>1 DEF Drawer!Marked
  <2>4. QED
    BY <2>1, <2>2, <2>3, RephasedIs
<1>3. after = [i \in DOMAIN cards |-> after[i]]
  BY <1>1 DEF Drawer!Marked
<1>4. QED
  BY <1>1, <1>2, <1>3, ChangedAre DEF SameCards

LEMMA DecidedIs ==
  ASSUME NEW cards \in Seq(Cards), NEW r, NEW phase \in Phases,
         NEW after, after = Drawer!Decided(cards, r, phase)
  PROVE  Undisturbed(cards, after)
<1>1. DOMAIN after = DOMAIN cards
  BY DEF Drawer!Decided
<1>2. ASSUME NEW i \in DOMAIN cards
      PROVE  /\ after[i] \in Cards /\ after[i].kind = cards[i].kind /\ after[i].run = cards[i].run /\ after[i].id = cards[i].id
             /\ cards[i].kind = "tool" => after[i] = cards[i]
  <2>1. PICK c : c = cards[i]
    OBVIOUS
  <2>2. c \in Cards
    BY <2>1, CardsAre
  <2>3. (after[i] = c \/ after[i] = [c EXCEPT !.phase = phase]) /\ (c.kind = "tool" => after[i] = c)
    BY <2>1 DEF Drawer!Decided
  <2>4. QED
    BY <2>1, <2>2, <2>3, RephasedIs
<1>3. after = [i \in DOMAIN cards |-> after[i]]
  BY <1>1 DEF Drawer!Decided
<1>4. QED
  BY <1>1, <1>2, <1>3, ChangedAre DEF Undisturbed, SameCards

\* A plan takes the place of the one before it.
LEMMA PlannedIs ==
  ASSUME NEW cards \in Seq(Cards), NEW r \in Nat, NEW id \in Nat,
         NEW after, after = Drawer!Planned(cards, r, id)
  PROVE  SameTools(cards, after, r)
<1>1. PICK plan : plan = Drawer!Card("plan", r, id, "shown")
  OBVIOUS
<1>2. plan \in Cards /\ plan.kind = "plan" /\ plan.run = r
  BY <1>1, PlanCard
<1>3. CASE \E i \in DOMAIN cards : cards[i].kind = "plan"
  <2>1. after = [i \in DOMAIN cards |-> IF cards[i].kind = "plan" THEN plan ELSE cards[i]]
    BY <1>1, <1>3 DEF Drawer!Planned
  <2>2. \A i \in DOMAIN cards : after[i] \in Cards /\ (after[i] = cards[i] \/ after[i] = plan)
    BY <1>2, <2>1, CardsAre
  <2>3. DOMAIN after = DOMAIN cards /\ after = [i \in DOMAIN cards |-> after[i]]
    BY <2>1
  <2>4. after \in Seq(Cards)
    BY <2>2, <2>3, ChangedAre
  <2>5. QED
    BY <1>2, <2>2, <2>3, <2>4 DEF SameTools
<1>4. CASE ~\E i \in DOMAIN cards : cards[i].kind = "plan"
  <2>1. after = Append(cards, plan)
    BY <1>1, <1>4 DEF Drawer!Planned
  <2>2. QED
    BY <1>2, <2>1, AppendOne DEF SameTools
<1>5. QED
  BY <1>3, <1>4

\* An answer ends the card of its call, if there is one, and touches no other.
LEMMA AnswerRight ==
  ASSUME NEW log, Proper(log), NEW cards \in Seq(Cards), NEW cursor \in Nat, NEW r \in Nat,
         CardsRight(cards, cursor, log, r), cursor + 1 \in DOMAIN log,
         log[cursor + 1].type \in Answers,
         NEW phase \in Phases \ {"running"},
         NEW marked, marked = Drawer!Marked(cards, r, log[cursor + 1].id, phase)
  PROVE  CardsRight(marked, cursor + 1, log, r) /\ marked \in Seq(Cards)
<1>1. PICK id : id = log[cursor + 1].id
  OBVIOUS
<1>2. PICK is : is = Drawer!LastRunning(cards, r, id)
  OBVIOUS
<1>3. id \in Nat /\ Len(log) \in Nat /\ DOMAIN log = 1 .. Len(log)
  BY <1>1, EventsAre DEF Proper
<1>4. marked = Drawer!Marked(cards, r, id, phase) /\ phase \in Phases
  BY <1>1
<1>5. SameCards(cards, marked)
  BY <1>3, <1>4, MarkedIs
<1>6. marked \in Seq(Cards) /\ DOMAIN marked = DOMAIN cards
  BY <1>5 DEF SameCards
<1>7. \A i \in DOMAIN cards :
        marked[i] = IF i \in is /\ \A j \in is : j <= i THEN [cards[i] EXCEPT !.phase = phase] ELSE cards[i]
  BY <1>1, <1>2 DEF Drawer!Marked
<1>8. \A i \in DOMAIN cards : marked[i].kind = cards[i].kind /\ marked[i].run = cards[i].run /\ marked[i].id = cards[i].id
  BY <1>5 DEF SameCards
<1>9. \A i \in DOMAIN cards : marked[i].phase = IF i \in is /\ \A j \in is : j <= i THEN phase ELSE cards[i].phase
  BY <1>7, CardsAre
<1>10. \A i \in is : i \in DOMAIN cards /\ cards[i].kind = "tool" /\ cards[i].phase = "running" /\ cards[i].run = r /\ cards[i].id = id
  BY <1>2 DEF Drawer!LastRunning
<1>11. \A i \in is : \A j \in is : j = i
  BY <1>10 DEF CardsRight
<1>12. \A i \in DOMAIN cards : cards[i].kind = "tool" /\ cards[i].run = r /\ cards[i].id = id => marked[i].phase # "running"
  <2>1. SUFFICES ASSUME NEW i \in DOMAIN cards, cards[i].kind = "tool", cards[i].run = r, cards[i].id = id
                 PROVE  marked[i].phase # "running"
    OBVIOUS
  <2>2. CASE cards[i].phase = "running"
    <3>1. i \in is
      BY <1>2, <2>1, <2>2 DEF Drawer!LastRunning
    <3>2. i \in Nat
      OBVIOUS
    <3>3. \A j \in is : j <= i
      BY <1>11, <3>1, <3>2
    <3>4. QED
      BY <1>9, <3>1, <3>3
  <2>3. CASE cards[i].phase # "running"
    BY <1>9, <2>3
  <2>4. QED
    BY <2>2, <2>3
<1>13. \A other \in Nat : Called(log, cursor + 1, other) = Called(log, cursor, other)
  <2>1. log[cursor + 1].type # "tool_call"
    BY DEF Answers
  <2>2. QED
    BY <2>1 DEF Called
<1>14. Replied(log, cursor + 1, id)
  BY <1>1 DEF Replied
<1>15. \A other \in Nat : other # id => Replied(log, cursor + 1, other) = Replied(log, cursor, other)
  BY <1>1 DEF Replied
<1>16. ASSUME NEW i \in DOMAIN marked, marked[i].kind = "tool", marked[i].run = r
       PROVE  /\ Called(log, cursor + 1, marked[i].id)
              /\ marked[i].phase = "running" <=> ~Replied(log, cursor + 1, marked[i].id)
              /\ \A j \in DOMAIN marked : marked[j].kind = "tool" /\ marked[j].run = r /\ marked[j].id = marked[i].id => j = i
  <2>1. i \in DOMAIN cards /\ cards[i].kind = "tool" /\ cards[i].run = r /\ marked[i].id = cards[i].id /\ cards[i].id \in Nat
    BY <1>6, <1>8, <1>16, CardsAre
  <2>2. Called(log, cursor + 1, marked[i].id)
    BY <1>13, <2>1 DEF CardsRight
  <2>3. marked[i].phase = "running" <=> ~Replied(log, cursor + 1, marked[i].id)
    <3>1. CASE cards[i].id = id
      BY <1>12, <1>14, <2>1, <3>1
    <3>2. CASE cards[i].id # id
      <4>1. i \notin is
        BY <1>10, <3>2
      <4>2. QED
        BY <1>9, <1>15, <2>1, <3>2, <4>1 DEF CardsRight
    <3>3. QED
      BY <3>1, <3>2
  <2>4. \A j \in DOMAIN marked : marked[j].kind = "tool" /\ marked[j].run = r /\ marked[j].id = marked[i].id => j = i
    BY <1>6, <1>8, <2>1 DEF CardsRight
  <2>5. QED
    BY <2>2, <2>3, <2>4
<1>17. QED
  BY <1>3, <1>6, <1>16 DEF CardsRight

\* The cards when one event more of a run has been taken in.
RightAfter(cards, after, cursor, log, r) ==
  /\ after \in Seq(Cards)
  /\ \A i \in DOMAIN after : after[i].run = r \/ \E j \in DOMAIN cards : after[i].run = cards[j].run
  /\ CardsRight(cards, cursor, log, r) => CardsRight(after, cursor + 1, log, r)

LEMMA AfterRight ==
  ASSUME NEW log, Proper(log), NEW cards \in Seq(Cards), NEW cursor \in Nat, NEW r \in Nat,
         cursor + 1 \in DOMAIN log,
         NEW after, after = Drawer!After(cards, r, log[cursor + 1])
  PROVE  RightAfter(cards, after, cursor, log, r)
<1> USE DEF RightAfter
<1>1. PICK e : e = log[cursor + 1]
  OBVIOUS
<1>2. e.id \in Nat
  BY <1>1, EventsAre
<1>3. ASSUME NEW card \in Cards, card.run = r, NEW base \in Seq(Cards), after = Append(base, card),
             \A i \in DOMAIN base : i \in DOMAIN cards /\ base[i].run = cards[i].run
      PROVE  /\ after \in Seq(Cards)
             /\ \A i \in DOMAIN after : after[i].run = r \/ \E j \in DOMAIN cards : after[i].run = cards[j].run
  BY <1>3, AppendOne
<1>4. CASE e.type = "tool_call"
  <2>1. PICK card : card = Drawer!Card("tool", r, e.id, "running")
    OBVIOUS
  <2>2. card \in Cards /\ card.run = r
    BY <1>2, <2>1, ToolCard
  <2>3. after = Append(cards, card)
    BY <1>1, <1>4, <2>1 DEF Drawer!After
  <2>4. QED
    BY <1>1, <1>3, <1>4, <2>2, <2>3, ToolCalled
<1>5. CASE e.type \in {"tool_result", "tool_error"}
  <2>1. PICK phase \in {"done", "error"} : after = Drawer!Marked(cards, r, e.id, phase)
    BY <1>1, <1>5 DEF Drawer!After
  <2>2. e.type \in Answers
    BY <1>5 DEF Answers
  <2>3. phase \in Phases \ {"running"}
    BY Named
  <2>4. SameCards(cards, after)
    BY <1>2, <2>1, <2>3, MarkedIs
  <2>5. CardsRight(cards, cursor, log, r) => CardsRight(after, cursor + 1, log, r)
    BY <1>1, <2>1, <2>2, <2>3, AnswerRight
  <2>6. QED
    BY <2>4, <2>5 DEF SameCards
<1>6. CASE e.type = "campaigns"
  <2>1. PICK kind, phase, done : kind = "campaigns" /\ phase = "shown" /\ done = "done"
    OBVIOUS
  <2>2. PICK marked, card : marked = Drawer!Marked(cards, r, e.id, done) /\ card = Drawer!Card(kind, r, e.id, phase)
    OBVIOUS
  <2>3. after = Append(marked, card)
    BY <1>1, <1>6, <2>1, <2>2 DEF Drawer!After
  <2>4. card \in Cards /\ card.run = r /\ card.kind = kind
    BY <1>2, <2>1, <2>2, OtherCard
  <2>5. done \in Phases \ {"running"} /\ e.type \in Answers
    BY <1>6, <2>1, Named DEF Answers
  <2>6. SameCards(cards, marked)
    BY <1>2, <2>2, <2>5, MarkedIs
  <2>7. ASSUME CardsRight(cards, cursor, log, r)
        PROVE  CardsRight(after, cursor + 1, log, r)
    <3>1. CardsRight(marked, cursor + 1, log, r)
      BY <1>1, <2>2, <2>5, <2>7, AnswerRight
    <3>2. \A i \in DOMAIN after : (i \in DOMAIN marked /\ after[i] = marked[i]) \/ after[i] = card
      BY <2>3, <2>4, <2>6, AppendOne DEF SameCards
    <3>3. \A i \in DOMAIN after : after[i].kind = "tool" => i \in DOMAIN marked /\ after[i] = marked[i]
      BY <2>1, <2>4, <3>2
    <3>4. QED
      BY <3>1, <3>3 DEF CardsRight
  <2>8. QED
    BY <1>3, <2>3, <2>4, <2>6, <2>7 DEF SameCards
<1>7. CASE e.type \in {"verification", "confirm_request"}
  <2>1. PICK kind \in {"verification", "confirmation"}, phase \in {"shown", "pending"} :
          after = Append(cards, Drawer!Card(kind, r, e.id, phase))
    BY <1>1, <1>7 DEF Drawer!After
  <2>2. PICK card : card = Drawer!Card(kind, r, e.id, phase)
    OBVIOUS
  <2>3. card \in Cards /\ card.run = r /\ card.kind = kind
    BY <1>2, <2>2, OtherCard
  <2>4. after = Append(cards, card)
    BY <2>1, <2>2
  <2>5. \A i \in DOMAIN after : (i \in DOMAIN cards /\ after[i] = cards[i]) \/ after[i] = card
    BY <2>3, <2>4, AppendOne
  <2>6. \A i \in DOMAIN after : after[i].kind = "tool" => i \in DOMAIN cards /\ after[i] = cards[i]
    BY <2>3, <2>5
  <2>7. e.type \notin Answers \cup {"tool_call"}
    BY <1>7 DEF Answers
  <2>8. CardsRight(cards, cursor, log, r) => CardsRight(after, cursor + 1, log, r)
    BY <1>1, <2>6, <2>7, OthersRight
  <2>9. QED
    BY <1>3, <2>3, <2>4, <2>8
<1>8. CASE e.type = "plan_update"
  <2>1. PICK id : id = e.id /\ after = Drawer!Planned(cards, r, id)
    BY <1>1, <1>8 DEF Drawer!After
  <2>2. e.type \notin Answers \cup {"tool_call"}
    BY <1>8 DEF Answers
  <2>3. SameTools(cards, after, r)
    <3>1. id \in Nat
      BY <1>2, <2>1
    <3>2. QED
      BY <2>1, <3>1, PlannedIs
  <2>4. CardsRight(cards, cursor, log, r) => CardsRight(after, cursor + 1, log, r)
    BY <1>1, <2>2, <2>3, OthersRight DEF SameTools
  <2>5. QED
    BY <2>3, <2>4 DEF SameTools
<1>9. CASE e.type = "confirmation_result"
  <2>1. after = Drawer!Decided(cards, r, "decided")
    BY <1>1, <1>9 DEF Drawer!After
  <2>2. e.type \notin Answers \cup {"tool_call"}
    BY <1>9 DEF Answers
  <2>3. Undisturbed(cards, after)
    BY <2>1, DecidedIs, Named
  <2>4. QED
    BY <1>1, <2>2, <2>3, OthersRight DEF Undisturbed, SameCards
<1>10. CASE e.type \notin Answers \cup {"tool_call", "verification", "confirm_request", "plan_update", "confirmation_result"}
  <2>1. after = cards
    BY <1>1, <1>10 DEF Drawer!After, Answers
  <2>2. QED
    BY <1>1, <1>10, <2>1, OthersRight
<1>11. QED
  BY <1>4, <1>5, <1>6, <1>7, <1>8, <1>9, <1>10 DEF Answers

-----------------------------------------------------------------------------
(* The panel, the runs and the loops.                                      *)

PanelFields == {"open", "mounted", "phase", "run", "cursor", "cards", "visits", "restoring", "gone"}
LoopKinds   == [st : {"idle", "stream", "asking", "pause"}, run : Nat, live : BOOLEAN, mine : BOOLEAN, ended : BOOLEAN]

VerdictTyped == DOMAIN verdict = {"st", "run"} /\ verdict.run \in Nat

PanelTyped ==
  /\ DOMAIN panel = PanelFields
  /\ panel.run \in 0 .. Len(runs) /\ panel.cursor \in Nat /\ panel.cards \in Seq(Cards)
  /\ \A i \in DOMAIN panel.cards : panel.cards[i].run \in 1 .. Len(runs)
  /\ saved \in 0 .. Len(runs)
  /\ panel.mounted \in BOOLEAN /\ panel.open \in BOOLEAN /\ panel.restoring \in BOOLEAN
  /\ panel.mounted => panel.open
  /\ panel.restoring => panel.mounted /\ panel.run # 0
  /\ call \in {"sent", "made"} => panel.mounted
  /\ VerdictTyped

\* A loop that goes on watches, for a panel that is there, the run of the panel,
\* unless the panel has given that up.
LoopsTyped ==
  /\ loops \in [Drawer!Loops -> LoopKinds]
  /\ \A l \in Drawer!Loops :
       /\ loops[l].run \in 0 .. Len(runs)
       /\ loops[l].st # "idle" => loops[l].run # 0
       /\ loops[l].mine => panel.mounted
       /\ loops[l].mine /\ loops[l].st \in {"stream", "pause"} => loops[l].live
       /\ loops[l].mine /\ loops[l].live => panel.run \in {0, loops[l].run}

\* Nothing has come of a run yet whose creation has not been answered.
Unheard ==
  call \in {"made", "orphan made"} =>
    /\ Len(runs) # 0 /\ saved # Len(runs) /\ panel.run # Len(runs)
    /\ \A l \in Drawer!Loops : loops[l].run # Len(runs)
    /\ \A i \in DOMAIN panel.cards : panel.cards[i].run # Len(runs)

\* The cards of the run that the panel shows are right.
PanelRight == panel.run # 0 => CardsRight(panel.cards, panel.cursor, runs[panel.run].log, panel.run)

DrawerInv == RunsPlayed /\ PanelTyped /\ LoopsTyped /\ Unheard /\ PanelRight

\* A loop that goes on watches the same run, for nobody new; one that ends may.
Follows(new, old) ==
  /\ new \in LoopKinds
  /\ new.st # "idle" => new.run # 0
  /\ new.mine /\ new.st \in {"stream", "pause"} => new.live
  /\ new.run \in {0, old.run}
  /\ new.mine => old.mine
  /\ new.mine /\ new.live => old.live /\ new.run = old.run

LEMMA LoopsAre ==
  ASSUME LoopsTyped, NEW l \in Drawer!Loops
  PROVE  loops[l] \in LoopKinds /\ Follows(loops[l], loops[l]) /\ Follows(Drawer!NoLoop, loops[l])
<1>1. loops[l] \in LoopKinds
  BY DEF LoopsTyped
<1>2. PICK old : old = loops[l]
  OBVIOUS
<1>3. old \in LoopKinds /\ (old.st # "idle" => old.run # 0) /\ (old.mine /\ old.st \in {"stream", "pause"} => old.live)
  BY <1>1, <1>2 DEF LoopsTyped
<1>4. Follows(old, old)
  BY <1>3 DEF Follows
<1>5. Follows(Drawer!NoLoop, old)
  BY <1>3 DEF Follows, Drawer!NoLoop, LoopKinds
<1>6. QED
  BY <1>1, <1>2, <1>4, <1>5

LEMMA StateIs ==
  ASSUME LoopsTyped, NEW l \in Drawer!Loops, NEW st \in {"stream", "asking", "pause"},
         loops[l].st # "idle", loops[l].mine /\ st # "asking" => loops[l].live
  PROVE  Follows([loops[l] EXCEPT !.st = st], loops[l])
<1>1. PICK old : old = loops[l]
  OBVIOUS
<1>2. old \in LoopKinds /\ old.st # "idle" /\ old.run # 0 /\ (old.mine /\ st # "asking" => old.live)
  BY <1>1, LoopsAre DEF LoopsTyped
<1>3. PICK new : new = [old EXCEPT !.st = st]
  OBVIOUS
<1>4. new \in LoopKinds /\ new.st = st /\ new.run = old.run /\ new.live = old.live /\ new.mine = old.mine
  BY <1>2, <1>3 DEF LoopKinds
<1>5. Follows(new, old)
  BY <1>2, <1>4 DEF Follows
<1>6. QED
  BY <1>1, <1>3, <1>5

LEMMA AbortedIs ==
  ASSUME LoopsTyped, NEW l \in Drawer!Loops
  PROVE  Follows(Drawer!Aborted[l], loops[l]) /\ ~(Drawer!Aborted[l].mine /\ Drawer!Aborted[l].live)
<1>1. PICK old, new : old = loops[l] /\ new = Drawer!Aborted[l]
  OBVIOUS
<1>2. old \in LoopKinds /\ Follows(old, old) /\ Follows(Drawer!NoLoop, old)
  BY <1>1, LoopsAre
<1>3. new = IF ~old.live \/ ~old.mine THEN old
            ELSE IF old.st = "asking" THEN [old EXCEPT !.live = FALSE] ELSE Drawer!NoLoop
  BY <1>1 DEF Drawer!Aborted
<1>4. CASE ~old.live \/ ~old.mine
  BY <1>1, <1>2, <1>3, <1>4
<1>5. CASE old.live /\ old.mine /\ old.st = "asking"
  <2>1. new \in LoopKinds /\ new.st = "asking" /\ new.run = old.run /\ ~new.live /\ new.mine = old.mine
    BY <1>2, <1>3, <1>5 DEF LoopKinds
  <2>2. Follows(new, old)
    BY <1>2, <1>5, <2>1 DEF Follows
  <2>3. QED
    BY <1>1, <2>1, <2>2
<1>6. CASE old.live /\ old.mine /\ old.st # "asking"
  BY <1>1, <1>2, <1>3, <1>6 DEF Drawer!NoLoop
<1>7. QED
  BY <1>4, <1>5, <1>6

\* One loop more, for the panel or for nobody; the panel's others go.
LEMMA WatchingIs ==
  ASSUME LoopsTyped, NEW r \in Nat, r # 0, NEW mine \in BOOLEAN, NEW next, next = Drawer!Watching(r, mine)
  PROVE  /\ next \in [Drawer!Loops -> LoopKinds]
         /\ \A l \in Drawer!Loops :
              \/ Follows(next[l], loops[l]) /\ (mine => ~(next[l].mine /\ next[l].live))
              \/ next[l].st = "stream" /\ next[l].run = r /\ next[l].live /\ next[l].mine = mine
<1>1. PICK new : new = [st |-> "stream", run |-> r, live |-> TRUE, mine |-> mine, ended |-> FALSE]
  OBVIOUS
<1>2. new \in LoopKinds /\ new.st = "stream" /\ new.run = r /\ new.live /\ new.mine = mine
  BY <1>1 DEF LoopKinds
<1>3. PICK ls : ls = IF mine THEN Drawer!Aborted ELSE loops
  OBVIOUS
<1>4. ls = [l \in Drawer!Loops |-> ls[l]]
  BY <1>3 DEF Drawer!Aborted, LoopsTyped
<1>5. \A l \in Drawer!Loops : Follows(ls[l], loops[l]) /\ (mine => ~(ls[l].mine /\ ls[l].live))
  BY <1>3, AbortedIs, LoopsAre
<1>6. PICK k : next = [ls EXCEPT ![k] = new]
  BY <1>1, <1>3 DEF Drawer!Watching
<1>7. next = [l \in Drawer!Loops |-> IF l = k THEN new ELSE ls[l]]
  BY <1>4, <1>6
<1>8. \A l \in Drawer!Loops : next[l] = new \/ next[l] = ls[l]
  BY <1>7
<1>9. \A l \in Drawer!Loops : next[l] \in LoopKinds
  BY <1>2, <1>5, <1>8 DEF Follows
<1>10. QED
  BY <1>2, <1>5, <1>7, <1>8, <1>9

-----------------------------------------------------------------------------
\* A step after which the panel is no further than it was, or shows right what
\* has come; and the loops go on or end.
LEMMA StepRight ==
  ASSUME DrawerInv, UNCHANGED runs, saved' \in {0, saved}, VerdictTyped',
         call' \in {call, "idle"} \/ (call' = "sent" /\ panel.mounted),
         NEW p, panel' = p, DOMAIN p = PanelFields, p.run \in {0, panel.run}, p.mounted = panel.mounted, p.open = panel.open,
         p.restoring \in {FALSE, panel.restoring}, p.restoring => p.run = panel.run, p.cursor \in Nat, p.cards \in Seq(Cards),
         \A i \in DOMAIN p.cards : \/ \E j \in DOMAIN panel.cards : p.cards[i].run = panel.cards[j].run
                                   \/ \E l \in Drawer!Loops : loops[l].run # 0 /\ p.cards[i].run = loops[l].run,
         p.run # 0 => CardsRight(p.cards, p.cursor, runs[p.run].log, p.run),
         loops' \in [Drawer!Loops -> LoopKinds], \A l \in Drawer!Loops : Follows(loops'[l], loops[l])
  PROVE  DrawerInv'
<1>1. Len(runs) \in Nat
  BY DEF DrawerInv, RunsPlayed
<1>2. RunsPlayed'
  BY DEF DrawerInv, RunsPlayed
<1>3. \A i \in DOMAIN p.cards : p.cards[i].run \in 1 .. Len(runs)
  <2>1. \A l \in Drawer!Loops : loops[l].run # 0 => loops[l].run \in 1 .. Len(runs)
    BY <1>1 DEF DrawerInv, LoopsTyped
  <2>2. QED
    BY <2>1 DEF DrawerInv, PanelTyped
<1>4. PanelTyped'
  <2>1. p.run \in 0 .. Len(runs) /\ saved' \in 0 .. Len(runs)
    BY <1>1 DEF DrawerInv, PanelTyped
  <2>2. /\ p.mounted \in BOOLEAN /\ p.open \in BOOLEAN /\ p.restoring \in BOOLEAN
        /\ p.mounted => p.open
        /\ p.restoring => p.mounted /\ p.run # 0
        /\ call' \in {"sent", "made"} => p.mounted
    BY DEF DrawerInv, PanelTyped
  <2>3. QED
    BY <1>3, <2>1, <2>2 DEF PanelTyped
<1>5. LoopsTyped'
  BY <1>1 DEF DrawerInv, LoopsTyped, PanelTyped, Follows
<1>6. Unheard'
  <2>1. SUFFICES ASSUME call' \in {"made", "orphan made"} PROVE Unheard'
    BY DEF Unheard
  <2>2. /\ Len(runs) # 0 /\ saved # Len(runs) /\ panel.run # Len(runs)
        /\ \A l \in Drawer!Loops : loops[l].run # Len(runs)
        /\ \A i \in DOMAIN panel.cards : panel.cards[i].run # Len(runs)
    BY <2>1 DEF DrawerInv, Unheard
  <2>3. saved' # Len(runs) /\ p.run # Len(runs)
    BY <2>2
  <2>4. \A l \in Drawer!Loops : loops'[l].run # Len(runs)
    BY <2>2 DEF Follows
  <2>5. \A i \in DOMAIN p.cards : p.cards[i].run # Len(runs)
    BY <2>2
  <2>6. QED
    BY <2>2, <2>3, <2>4, <2>5 DEF Unheard
<1>7. PanelRight'
  BY DEF PanelRight
<1>8. QED
  BY <1>2, <1>4, <1>5, <1>6, <1>7 DEF DrawerInv

\* A step that leaves what the panel has taken in.
LEMMA RestRight ==
  ASSUME DrawerInv, UNCHANGED runs, saved' \in {0, saved}, VerdictTyped',
         call' \in {call, "idle"} \/ (call' = "sent" /\ panel.mounted),
         NEW p, panel' = p, DOMAIN p = PanelFields, p.run \in {0, panel.run}, p.mounted = panel.mounted, p.open = panel.open,
         p.restoring \in {FALSE, panel.restoring}, p.restoring => p.run = panel.run, p.cursor = panel.cursor, Undisturbed(panel.cards, p.cards),
         loops' \in [Drawer!Loops -> LoopKinds], \A l \in Drawer!Loops : Follows(loops'[l], loops[l])
  PROVE  DrawerInv'
<1>1. p.cursor \in Nat
  BY DEF DrawerInv, PanelTyped
<1>2. SameCards(panel.cards, p.cards) /\ \A i \in DOMAIN panel.cards : panel.cards[i].kind = "tool" => p.cards[i] = panel.cards[i]
  BY DEF Undisturbed
<1>3. p.cards \in Seq(Cards) /\ DOMAIN p.cards = DOMAIN panel.cards
  BY <1>2 DEF SameCards
<1>4. \A i \in DOMAIN p.cards : \E j \in DOMAIN panel.cards : p.cards[i].run = panel.cards[j].run
  BY <1>2 DEF SameCards
<1>5. ASSUME p.run # 0
      PROVE  CardsRight(p.cards, p.cursor, runs[p.run].log, p.run)
  <2>1. CardsRight(panel.cards, panel.cursor, runs[panel.run].log, panel.run) /\ p.run = panel.run
    BY <1>5 DEF DrawerInv, PanelRight
  <2>2. \A i \in DOMAIN p.cards : p.cards[i].kind = "tool" => panel.cards[i].kind = "tool" /\ p.cards[i] = panel.cards[i]
    BY <1>3, <1>2 DEF SameCards
  <2>3. QED
    BY <1>3, <2>1, <2>2 DEF CardsRight
<1>6. QED
  BY <1>1, <1>3, <1>4, <1>5, StepRight

-----------------------------------------------------------------------------
(* The steps.                                                              *)

LEMMA SameIs ==
  ASSUME PanelTyped
  PROVE  Undisturbed(panel.cards, panel.cards)
BY DEF PanelTyped, Undisturbed, SameCards

\* The server goes on with a run that it has.
LEMMA ServerRight ==
  ASSUME DrawerInv, UNCHANGED <<saved, panel, loops, call>>, VerdictTyped', RunsPlayed', Len(runs') = Len(runs),
         \A r \in DOMAIN runs : /\ Len(runs[r].log) <= Len(runs'[r].log)
                                /\ \A n \in 1 .. Len(runs[r].log) : runs'[r].log[n] = runs[r].log[n]
  PROVE  DrawerInv'
<1>1. PanelTyped' /\ LoopsTyped' /\ Unheard'
  BY DEF DrawerInv, PanelTyped, LoopsTyped, Unheard
<1>2. ASSUME panel.run # 0
      PROVE  CardsRight(panel.cards, panel.cursor, runs'[panel.run].log, panel.run)
  <2>1. PICK r, log, more : r = panel.run /\ log = runs[r].log /\ more = runs'[r].log
    OBVIOUS
  <2>2. r \in DOMAIN runs
    BY <1>2, <2>1 DEF DrawerInv, PanelTyped, RunsPlayed
  <2>3. Proper(log) /\ Len(log) \in Nat
    BY <2>1, <2>2, LogsProper DEF DrawerInv, Proper
  <2>4. RunsPlayed' /\ r \in DOMAIN runs'
    BY <2>2 DEF DrawerInv, RunsPlayed
  <2>5. more \in Seq(Events)
    <3>1. runs'[r] \in Record
      BY <2>4 DEF RunsPlayed
    <3>2. QED
      BY <2>1, <3>1 DEF Record
  <2>6. Len(more) \in Nat /\ Len(log) <= Len(more) /\ \A n \in 1 .. Len(log) : more[n] = log[n]
    <3>1. Len(more) \in Nat
      BY <2>5
    <3>2. QED
      BY <2>1, <2>2, <3>1
  <2>7. CardsRight(panel.cards, panel.cursor, log, r) /\ panel.cursor \in Nat
    BY <1>2, <2>1 DEF DrawerInv, PanelRight, PanelTyped
  <2>8. \A id : Called(more, panel.cursor, id) = Called(log, panel.cursor, id) /\ Replied(more, panel.cursor, id) = Replied(log, panel.cursor, id)
    <3>1. \A n \in 1 .. panel.cursor : n \in 1 .. Len(log) /\ more[n] = log[n]
      BY <2>3, <2>6, <2>7 DEF CardsRight
    <3>2. QED
      BY <3>1 DEF Called, Replied
  <2>9. CardsRight(panel.cards, panel.cursor, more, r)
    BY <2>3, <2>6, <2>7, <2>8 DEF CardsRight
  <2>10. QED
    BY <2>1, <2>9
<1>3. PanelRight'
  BY <1>2 DEF PanelRight
<1>4. QED
  BY <1>1, <1>3 DEF DrawerInv

LEMMA RunIs ==
  ASSUME RunsPlayed, NEW r \in DOMAIN runs
  PROVE  /\ DOMAIN runs[r] = {"script", "log", "decided", "over"}
         /\ runs[r].script \in Scripts /\ runs[r].script \in Seq(Events) /\ runs[r].log \in Seq(Events)
         /\ runs[r].decided \in BOOLEAN /\ runs[r].over \in BOOLEAN
<1>1. runs[r] \in Record
  BY DEF RunsPlayed
<1>2. QED
  BY <1>1, ScriptsAssumption DEF Record

\* A run that does no more, or the next thing in its script.
LEMMA PlayedOn ==
  ASSUME DrawerInv, UNCHANGED <<saved, panel, loops, call>>, VerdictTyped',
         NEW r, NEW run, runs' = [runs EXCEPT ![r] = run],
         r \in DOMAIN runs => run \in Record /\ run.script = runs[r].script /\
           \/ run.log = runs[r].log
           \/ /\ Len(runs[r].log) < Len(runs[r].script)
              /\ run.log = Append(runs[r].log, runs[r].script[Len(runs[r].log) + 1])
  PROVE  DrawerInv'
<1>1. runs \in Seq(Record) /\ Len(runs) \in Nat /\ DOMAIN runs = 1 .. Len(runs)
  BY DEF DrawerInv, RunsPlayed
<1>2. runs' \in Seq(Record) /\ Len(runs') = Len(runs) /\ DOMAIN runs' = DOMAIN runs
  <2>1. CASE r \in DOMAIN runs
    BY <1>1, <2>1
  <2>2. CASE r \notin DOMAIN runs
    <3>1. runs' = runs
      BY <1>1, <2>2
    <3>2. QED
      BY <1>1, <3>1
  <2>3. QED
    BY <2>1, <2>2
<1>3. ASSUME NEW s \in DOMAIN runs
      PROVE  /\ Len(runs[s].log) <= Len(runs'[s].log) /\ Len(runs'[s].log) <= Len(runs'[s].script)
             /\ \A n \in 1 .. Len(runs[s].log) : runs'[s].log[n] = runs[s].log[n]
             /\ \A n \in DOMAIN runs'[s].log : runs'[s].log[n] = runs'[s].script[n]
  <2>1. PICK log, script, more, same : log = runs[s].log /\ script = runs[s].script /\ more = runs'[s].log /\ same = runs'[s].script
    OBVIOUS
  <2>2. log \in Seq(Events) /\ script \in Seq(Events) /\ Len(log) <= Len(script) /\ \A n \in DOMAIN log : log[n] = script[n]
    BY <2>1, RunIs DEF DrawerInv, RunsPlayed
  <2>3. same = script /\ (more = log \/ (Len(log) < Len(script) /\ more = Append(log, script[Len(log) + 1])))
    <3>1. CASE s = r
      BY <1>1, <2>1, <3>1
    <3>2. CASE s # r
      BY <1>1, <2>1, <3>2
    <3>3. QED
      BY <3>1, <3>2
  <2>4. CASE more = log
    BY <2>1, <2>2, <2>3, <2>4
  <2>5. CASE Len(log) < Len(script) /\ more = Append(log, script[Len(log) + 1])
    <3>1. PICK e : e = script[Len(log) + 1]
      OBVIOUS
    <3>2. e \in Events
      BY <2>2, <2>5, <3>1
    <3>3. more = Append(log, e)
      BY <2>5, <3>1
    <3>4. Len(more) = Len(log) + 1 /\ DOMAIN more = 1 .. Len(log) + 1 /\ more[Len(log) + 1] = e /\ \A n \in 1 .. Len(log) : more[n] = log[n]
      BY <2>2, <3>2, <3>3
    <3>5. Len(log) \in Nat /\ Len(script) \in Nat /\ DOMAIN log = 1 .. Len(log)
      BY <2>2
    <3>6. \A n \in DOMAIN more : more[n] = script[n]
      BY <2>2, <3>1, <3>4, <3>5
    <3>7. QED
      BY <2>1, <2>3, <2>5, <3>4, <3>5, <3>6
  <2>6. QED
    BY <2>3, <2>4, <2>5
<1>4. RunsPlayed'
  BY <1>2, <1>3 DEF RunsPlayed
<1>5. QED
  BY <1>2, <1>3, <1>4, ServerRight

LEMMA ServedRight ==
  ASSUME DrawerInv, (\E r \in DOMAIN runs : Drawer!Emit(r) \/ Drawer!Finish(r)) \/ Drawer!ServeVerdict
  PROVE  DrawerInv'
<1>1. VerdictTyped
  BY DEF DrawerInv, PanelTyped
<1>2. ASSUME NEW r \in DOMAIN runs, Drawer!Emit(r)
      PROVE  DrawerInv'
  <2>1. PICK old, next : old = runs[r] /\ next = old.script[Len(old.log) + 1]
    OBVIOUS
  <2>2. PICK run : run = [old EXCEPT !.log = Append(old.log, next)]
    OBVIOUS
  <2>3. Len(old.log) < Len(old.script) /\ runs' = [runs EXCEPT ![r] = run] /\ UNCHANGED <<saved, panel, loops, call, verdict>>
    BY <1>2, <2>1, <2>2 DEF Drawer!Emit
  <2>4. old \in Record /\ old.log \in Seq(Events) /\ old.script \in Seq(Events)
    BY <2>1, RunIs DEF DrawerInv, RunsPlayed
  <2>5. next \in Events
    BY <2>1, <2>3, <2>4
  <2>6. run \in Record /\ run.script = old.script /\ run.log = Append(old.log, next)
    <3>1. PICK more : more = Append(old.log, next)
      OBVIOUS
    <3>2. more \in Seq(Events)
      BY <2>4, <2>5, <3>1
    <3>3. run = [old EXCEPT !.log = more]
      BY <2>2, <3>1
    <3>4. QED
      BY <2>4, <3>1, <3>2, <3>3 DEF Record
  <2>7. QED
    BY <1>1, <2>1, <2>3, <2>6, PlayedOn DEF VerdictTyped
<1>3. ASSUME NEW r \in DOMAIN runs, Drawer!Finish(r)
      PROVE  DrawerInv'
  <2>1. PICK old : old = runs[r]
    OBVIOUS
  <2>2. PICK run : run = [old EXCEPT !.over = TRUE]
    OBVIOUS
  <2>3. runs' = [runs EXCEPT ![r] = run] /\ UNCHANGED <<saved, panel, loops, call, verdict>>
    BY <1>3, <2>1, <2>2 DEF Drawer!Finish
  <2>4. old \in Record
    BY <2>1 DEF DrawerInv, RunsPlayed
  <2>5. run \in Record /\ run.script = old.script /\ run.log = old.log
    BY <2>2, <2>4 DEF Record
  <2>6. QED
    BY <1>1, <2>1, <2>3, <2>5, PlayedOn DEF VerdictTyped
<1>4. CASE Drawer!ServeVerdict
  <2>1. PICK r, old : r = verdict.run /\ old = runs[r]
    OBVIOUS
  <2>2. PICK run : run = [old EXCEPT !.decided = TRUE]
    OBVIOUS
  <2>3. runs' = [runs EXCEPT ![r] = run] /\ UNCHANGED <<saved, panel, loops, call>>
    BY <1>4, <2>1, <2>2 DEF Drawer!ServeVerdict
  <2>4. VerdictTyped'
    BY <1>1, <1>4 DEF Drawer!ServeVerdict, VerdictTyped
  <2>5. ASSUME r \in DOMAIN runs
        PROVE  run \in Record /\ run.script = old.script /\ run.log = old.log
    <3>1. old \in Record
      BY <2>1, <2>5 DEF DrawerInv, RunsPlayed
    <3>2. QED
      BY <2>2, <3>1 DEF Record
  <2>6. QED
    BY <2>1, <2>3, <2>4, <2>5, PlayedOn
<1>5. QED
  BY <1>2, <1>3, <1>4

\* A run that is new; nothing shows it yet.
LEMMA NewRunRight ==
  ASSUME DrawerInv, Drawer!ServeRun
  PROVE  DrawerInv'
<1>1. PICK script \in Scripts : /\ runs' = Append(runs, [script |-> script, log |-> <<>>, decided |-> FALSE, over |-> FALSE])
                                /\ call \in {"sent", "orphan sent"}
                                /\ call' = IF call \in Drawer!Gone THEN "orphan made" ELSE "made"
                                /\ UNCHANGED <<saved, panel, loops, verdict>>
  BY DEF Drawer!ServeRun
<1>2. PICK run : run = [script |-> script, log |-> <<>>, decided |-> FALSE, over |-> FALSE]
  OBVIOUS
<1>3. PICK none : none = <<>>
  OBVIOUS
<1>4. none \in Seq(Events) /\ Len(none) = 0 /\ DOMAIN none = {}
  BY <1>3
<1>5. run = [script |-> script, log |-> none, decided |-> FALSE, over |-> FALSE]
  BY <1>2, <1>3
<1>6. run \in Record /\ run.script = script /\ run.log = none
  BY <1>4, <1>5 DEF Record
<1>7. runs \in Seq(Record) /\ Len(runs) \in Nat /\ DOMAIN runs = 1 .. Len(runs)
  BY DEF DrawerInv, RunsPlayed
<1>8. runs' = Append(runs, run)
  BY <1>1, <1>2
<1>9. runs' \in Seq(Record) /\ Len(runs') = Len(runs) + 1 /\ DOMAIN runs' = 1 .. Len(runs) + 1
  BY <1>6, <1>7, <1>8
<1>10. (\A r \in DOMAIN runs : runs'[r] = runs[r]) /\ runs'[Len(runs) + 1] = run
  BY <1>6, <1>7, <1>8
<1>11. script \in Seq(Events)
  BY ScriptsAssumption
<1>12. RunsPlayed'
  <2>1. ASSUME NEW r \in DOMAIN runs'
        PROVE  /\ Len(runs'[r].log) <= Len(runs'[r].script)
               /\ \A n \in DOMAIN runs'[r].log : runs'[r].log[n] = runs'[r].script[n]
    <3>1. CASE r \in DOMAIN runs
      BY <1>10, <3>1 DEF DrawerInv, RunsPlayed
    <3>2. CASE r = Len(runs) + 1
      <4>1. runs'[r].log = none /\ runs'[r].script = script
        BY <1>6, <1>10, <3>2
      <4>2. Len(script) \in Nat
        BY <1>11
      <4>3. QED
        BY <1>4, <4>1, <4>2
    <3>3. QED
      BY <1>7, <1>9, <2>1, <3>1, <3>2
  <2>2. QED
    BY <1>9, <2>1 DEF RunsPlayed
<1>13. PanelTyped'
  <2>1. call' \in {"sent", "made"} => panel.mounted
    BY <1>1 DEF DrawerInv, PanelTyped, Drawer!Gone
  <2>2. panel.run \in 0 .. Len(runs') /\ saved \in 0 .. Len(runs')
    BY <1>7, <1>9 DEF DrawerInv, PanelTyped
  <2>3. \A i \in DOMAIN panel.cards : panel.cards[i].run \in 1 .. Len(runs')
    BY <1>7, <1>9, CardsAre DEF DrawerInv, PanelTyped
  <2>4. QED
    BY <1>1, <2>1, <2>2, <2>3 DEF DrawerInv, PanelTyped, VerdictTyped
<1>14. LoopsTyped'
  <2>1. \A l \in Drawer!Loops : loops[l].run \in 0 .. Len(runs')
    BY <1>7, <1>9 DEF DrawerInv, LoopsTyped
  <2>2. QED
    BY <1>1, <2>1 DEF DrawerInv, LoopsTyped
<1>15. Unheard'
  <2>1. saved <= Len(runs) /\ panel.run <= Len(runs) /\ saved \in Nat /\ panel.run \in Nat
    BY <1>7 DEF DrawerInv, PanelTyped
  <2>2. \A l \in Drawer!Loops : loops[l].run <= Len(runs) /\ loops[l].run \in Nat
    BY <1>7 DEF DrawerInv, LoopsTyped
  <2>3. \A i \in DOMAIN panel.cards : panel.cards[i].run <= Len(runs) /\ panel.cards[i].run \in Nat
    BY CardsAre DEF DrawerInv, PanelTyped
  <2>4. /\ Len(runs') # 0 /\ saved # Len(runs') /\ panel.run # Len(runs')
        /\ \A l \in Drawer!Loops : loops[l].run # Len(runs')
        /\ \A i \in DOMAIN panel.cards : panel.cards[i].run # Len(runs')
    BY <1>7, <1>9, <2>1, <2>2, <2>3
  <2>5. QED
    BY <1>1, <2>4 DEF Unheard
<1>16. PanelRight'
  <2>1. panel.run # 0 => panel.run \in DOMAIN runs
    BY <1>7 DEF DrawerInv, PanelTyped
  <2>2. QED
    BY <1>1, <1>10, <2>1 DEF DrawerInv, PanelRight
<1>17. QED
  BY <1>12, <1>13, <1>14, <1>15, <1>16 DEF DrawerInv

-----------------------------------------------------------------------------
\* An event that comes to a loop of the panel.
LEMMA DeliverRight ==
  ASSUME DrawerInv, NEW l \in Drawer!Loops, Drawer!Deliver(l)
  PROVE  DrawerInv'
<1>1. PICK r : r = loops[l].run
  OBVIOUS
<1>2. PICK log : log = runs[r].log
  OBVIOUS
<1>3. /\ loops[l].st = "stream" /\ UNCHANGED <<runs, call, verdict>> /\ saved' \in {0, saved}
      /\ loops' = loops \/ loops' = [loops EXCEPT ![l] = [loops[l] EXCEPT !.ended = TRUE]]
      /\ loops[l].mine => panel.cursor + 1 \in DOMAIN log /\ panel' = Drawer!Consumed(panel, r, log[panel.cursor + 1])
      /\ ~loops[l].mine => panel' = panel
  BY <1>1, <1>2 DEF Drawer!Deliver, Drawer!Turn
<1>4. /\ \A k \in Drawer!Loops : Follows(loops'[k], loops[k])
      /\ loops' \in [Drawer!Loops -> LoopKinds]
  <2>1. loops \in [Drawer!Loops -> LoopKinds] /\ LoopsTyped
    BY DEF DrawerInv, LoopsTyped
  <2>2. PICK old, new : old = loops[l] /\ new = [old EXCEPT !.ended = TRUE]
    OBVIOUS
  <2>3. old \in LoopKinds /\ Follows(old, old)
    BY <2>1, <2>2, LoopsAre
  <2>4. new \in LoopKinds /\ new.st = old.st /\ new.run = old.run /\ new.live = old.live /\ new.mine = old.mine
    BY <2>2, <2>3 DEF LoopKinds
  <2>5. Follows(new, old)
    BY <2>3, <2>4 DEF Follows
  <2>6. loops' = loops \/ loops' = [loops EXCEPT ![l] = new]
    BY <1>3, <2>2
  <2>7. \A k \in Drawer!Loops : loops'[k] = loops[k] \/ (k = l /\ loops'[k] = new)
    BY <2>1, <2>6
  <2>8. \A k \in Drawer!Loops : Follows(loops'[k], loops[k])
    BY <2>1, <2>2, <2>5, <2>7, LoopsAre
  <2>9. QED
    BY <2>1, <2>4, <2>6, <2>8
<1>5. VerdictTyped'
  BY <1>3 DEF DrawerInv, PanelTyped, VerdictTyped
<1>6. CASE ~loops[l].mine
  <2>1. Undisturbed(panel.cards, panel.cards) /\ DOMAIN panel = PanelFields
    BY SameIs DEF DrawerInv, PanelTyped
  <2>2. PICK p : p = panel
    OBVIOUS
  <2>3. QED
    BY <1>3, <1>4, <1>5, <1>6, <2>1, <2>2, RestRight
<1>7. CASE loops[l].mine
  <2>1. r \in DOMAIN runs /\ r \in Nat /\ r # 0
    BY <1>1, <1>3 DEF DrawerInv, LoopsTyped, RunsPlayed
  <2>2. Proper(log)
    BY <1>2, <2>1, LogsProper DEF DrawerInv
  <2>3. PICK cards, cursor, after : cards = panel.cards /\ cursor = panel.cursor /\ after = Drawer!After(cards, r, log[cursor + 1])
    OBVIOUS
  <2>4. cards \in Seq(Cards) /\ cursor \in Nat /\ cursor + 1 \in DOMAIN log
    BY <1>3, <1>7, <2>3 DEF DrawerInv, PanelTyped
  <2>5. RightAfter(cards, after, cursor, log, r)
    BY <2>1, <2>2, <2>3, <2>4, AfterRight
  <2>6. /\ after \in Seq(Cards)
        /\ \A i \in DOMAIN after : after[i].run = r \/ \E j \in DOMAIN cards : after[i].run = cards[j].run
        /\ CardsRight(cards, cursor, log, r) => CardsRight(after, cursor + 1, log, r)
    BY <2>5 DEF RightAfter
  <2>7. PICK p : p = Drawer!Consumed(panel, r, log[cursor + 1])
    OBVIOUS
  <2>8. panel' = p
    BY <1>3, <1>7, <2>3, <2>7
  <2>9. /\ DOMAIN p = PanelFields /\ p.run = panel.run /\ p.mounted = panel.mounted /\ p.open = panel.open
        /\ p.restoring = panel.restoring /\ p.cursor = cursor + 1 /\ p.cards = after
    BY <2>3, <2>7 DEF Drawer!Consumed, DrawerInv, PanelTyped, PanelFields
  <2>10. panel.run \in {0, r}
    BY <1>1, <1>3, <1>7 DEF DrawerInv, LoopsTyped
  <2>11. p.run # 0 => CardsRight(p.cards, p.cursor, runs[p.run].log, p.run)
    BY <1>2, <2>3, <2>6, <2>9, <2>10 DEF DrawerInv, PanelRight
  <2>12. \A i \in DOMAIN p.cards : \/ \E j \in DOMAIN panel.cards : p.cards[i].run = panel.cards[j].run
                                   \/ \E k \in Drawer!Loops : loops[k].run # 0 /\ p.cards[i].run = loops[k].run
    BY <1>1, <2>1, <2>3, <2>6, <2>9
  <2>13. p.cursor \in Nat /\ p.cards \in Seq(Cards)
    BY <2>4, <2>6, <2>9
  <2>14. QED
    BY <1>3, <1>4, <1>5, <2>8, <2>9, <2>11, <2>12, <2>13, StepRight
<1>8. QED
  BY <1>6, <1>7

\* A loop that loses its stream, asks for the status, learns it or tries again.
LEMMA LoopRight ==
  ASSUME DrawerInv, NEW l \in Drawer!Loops,
         Drawer!StreamEnds(l) \/ Drawer!StreamCut(l) \/ Drawer!Told(l) \/ Drawer!Again(l)
  PROVE  DrawerInv'
<1>1. loops \in [Drawer!Loops -> LoopKinds] /\ LoopsTyped /\ VerdictTyped
  BY DEF DrawerInv, LoopsTyped, PanelTyped
<1>2. PICK old : old = loops[l]
  OBVIOUS
<1>3. /\ UNCHANGED <<runs, call, verdict>> /\ saved' \in {0, saved}
      /\ panel' = panel \/ \E phase : panel' = [panel EXCEPT !.phase = phase]
      /\ old.st # "idle"
      /\ \/ \E st \in {"stream", "asking", "pause"} : /\ loops' = [loops EXCEPT ![l] = [old EXCEPT !.st = st]]
                                                      /\ old.mine /\ st # "asking" => old.live
         \/ loops' = [loops EXCEPT ![l] = Drawer!NoLoop]
  <2>1. old.mine /\ old.st \in {"stream", "pause"} => old.live
    BY <1>1, <1>2 DEF LoopsTyped
  <2>2. CASE Drawer!StreamEnds(l)
    BY <1>2, <2>2 DEF Drawer!StreamEnds
  <2>3. CASE Drawer!StreamCut(l)
    BY <1>2, <2>1, <2>3 DEF Drawer!StreamCut, Drawer!Loss
  <2>4. CASE Drawer!Told(l)
    BY <1>1, <1>2, <2>4 DEF Drawer!Told
  <2>5. CASE Drawer!Again(l)
    BY <1>2, <2>1, <2>5 DEF Drawer!Again
  <2>6. QED
    BY <2>2, <2>3, <2>4, <2>5
<1>4. PICK new : loops' = [loops EXCEPT ![l] = new] /\ Follows(new, old)
  BY <1>1, <1>2, <1>3, StateIs, LoopsAre
<1>5. loops' \in [Drawer!Loops -> LoopKinds] /\ \A k \in Drawer!Loops : Follows(loops'[k], loops[k])
  BY <1>1, <1>2, <1>4, LoopsAre DEF Follows
<1>6. DOMAIN panel = PanelFields /\ Undisturbed(panel.cards, panel.cards)
  BY SameIs DEF DrawerInv, PanelTyped
<1>7. PICK p : p = panel'
  OBVIOUS
<1>8. /\ DOMAIN p = PanelFields /\ p.run = panel.run /\ p.mounted = panel.mounted /\ p.open = panel.open
      /\ p.restoring = panel.restoring /\ p.cursor = panel.cursor /\ p.cards = panel.cards
  BY <1>3, <1>6, <1>7 DEF PanelFields
<1>9. QED
  BY <1>1, <1>3, <1>5, <1>6, <1>7, <1>8, RestRight DEF VerdictTyped

\* Steps of the drawer that leave its cards, or take the decision on one.
LEMMA PanelRightAfter ==
  ASSUME DrawerInv,
         \/ Drawer!NotRestored \/ Drawer!LookupEnds \/ Drawer!Submit \/ Drawer!RunNotCreated \/ Drawer!Background
         \/ Drawer!VerdictTaken \/ Drawer!VerdictFailed \/ \E i \in DOMAIN panel.cards : Drawer!Decide(i)
  PROVE  DrawerInv'
<1>1. /\ loops \in [Drawer!Loops -> LoopKinds] /\ LoopsTyped /\ PanelTyped /\ VerdictTyped /\ panel.run \in Nat
      /\ DOMAIN panel = PanelFields /\ panel.cards \in Seq(Cards)
  BY DEF DrawerInv, LoopsTyped, PanelTyped, RunsPlayed
<1>2. Undisturbed(panel.cards, panel.cards)
  BY <1>1, SameIs
<1>3. \A l \in Drawer!Loops : Follows(loops[l], loops[l])
  BY <1>1, LoopsAre
<1>4. CASE Drawer!NotRestored \/ Drawer!LookupEnds \/ Drawer!Submit \/ Drawer!RunNotCreated \/ Drawer!VerdictTaken
  <2>1. /\ UNCHANGED <<runs, loops>> /\ saved' \in {0, saved} /\ VerdictTyped'
        /\ call' \in {call, "idle"} \/ (call' = "sent" /\ panel.mounted)
        /\ \/ panel' = panel \/ \E phase : panel' = [panel EXCEPT !.phase = phase]
           \/ panel' = [panel EXCEPT !.restoring = FALSE, !.run = 0, !.phase = "idle"]
           \/ panel' = [panel EXCEPT !.gone = panel.gone - 1]
    BY <1>1, <1>4 DEF Drawer!NotRestored, Drawer!LookupEnds, Drawer!Submit, Drawer!RunNotCreated, Drawer!VerdictTaken, Drawer!Loss, VerdictTyped
  <2>2. PICK p : p = panel'
    OBVIOUS
  <2>3. /\ DOMAIN p = PanelFields /\ p.run \in {0, panel.run} /\ p.mounted = panel.mounted /\ p.open = panel.open
        /\ p.restoring \in {FALSE, panel.restoring} /\ (p.restoring => p.run = panel.run) /\ p.cursor = panel.cursor /\ p.cards = panel.cards
    BY <1>1, <2>1, <2>2 DEF PanelFields
  <2>4. QED
    BY <1>1, <1>2, <1>3, <2>1, <2>2, <2>3, RestRight
<1>5. CASE Drawer!Background
  <2>1. UNCHANGED <<runs, saved, call, verdict>> /\ loops' = Drawer!Aborted /\ panel' = [panel EXCEPT !.phase = "background"]
    BY <1>5 DEF Drawer!Background
  <2>2. \A l \in Drawer!Loops : Follows(loops'[l], loops[l])
    BY <1>1, <2>1, AbortedIs
  <2>3. loops' = [l \in Drawer!Loops |-> loops'[l]]
    BY <2>1 DEF Drawer!Aborted
  <2>4. loops' \in [Drawer!Loops -> LoopKinds]
    BY <2>2, <2>3 DEF Follows
  <2>5. PICK p : p = panel'
    OBVIOUS
  <2>6. /\ DOMAIN p = PanelFields /\ p.run = panel.run /\ p.mounted = panel.mounted /\ p.open = panel.open
        /\ p.restoring = panel.restoring /\ p.cursor = panel.cursor /\ p.cards = panel.cards
    BY <1>1, <2>1, <2>5 DEF PanelFields
  <2>7. QED
    BY <1>1, <1>2, <2>1, <2>2, <2>4, <2>5, <2>6, RestRight DEF VerdictTyped
<1>6. CASE Drawer!VerdictFailed \/ \E i \in DOMAIN panel.cards : Drawer!Decide(i)
  <2>1. /\ UNCHANGED <<runs, saved, loops, call>> /\ VerdictTyped'
        /\ \E r : \E phase \in {"sending", "error"} : panel' = [panel EXCEPT !.cards = Drawer!Decided(panel.cards, r, phase)]
    <3>1. CASE Drawer!VerdictFailed
      <4>1. UNCHANGED <<runs, saved, loops, call>> /\ verdict' = [verdict EXCEPT !.st = "idle"]
        BY <3>1 DEF Drawer!VerdictFailed
      <4>2. PICK r : r = verdict.run
        OBVIOUS
      <4>3. panel' = [panel EXCEPT !.cards = Drawer!Decided(panel.cards, r, "error")]
        BY <3>1, <4>2 DEF Drawer!VerdictFailed
      <4>4. VerdictTyped'
        BY <1>1, <4>1 DEF VerdictTyped
      <4>5. QED
        BY <4>1, <4>3, <4>4
    <3>2. CASE \E i \in DOMAIN panel.cards : Drawer!Decide(i)
      <4>1. PICK i \in DOMAIN panel.cards : Drawer!Decide(i)
        BY <3>2
      <4>2. UNCHANGED <<runs, saved, loops, call>> /\ verdict' = [st |-> "sent", run |-> panel.run]
        BY <4>1 DEF Drawer!Decide
      <4>3. PICK r : r = panel.cards[i].run
        OBVIOUS
      <4>4. panel' = [panel EXCEPT !.cards = Drawer!Decided(panel.cards, r, "sending")]
        BY <4>1, <4>3 DEF Drawer!Decide
      <4>5. VerdictTyped'
        BY <1>1, <4>2 DEF VerdictTyped
      <4>6. QED
        BY <4>2, <4>4, <4>5
    <3>3. QED
      BY <1>6, <3>1, <3>2
  <2>2. PICK r : \E phase \in {"sending", "error"} : panel' = [panel EXCEPT !.cards = Drawer!Decided(panel.cards, r, phase)]
    BY <2>1
  <2>3. PICK phase \in {"sending", "error"} : panel' = [panel EXCEPT !.cards = Drawer!Decided(panel.cards, r, phase)]
    BY <2>2
  <2>4. PICK after : after = Drawer!Decided(panel.cards, r, phase)
    OBVIOUS
  <2>5. phase \in Phases
    BY Named
  <2>6. Undisturbed(panel.cards, after)
    BY <1>1, <2>4, <2>5, DecidedIs
  <2>7. PICK p : p = panel'
    OBVIOUS
  <2>8. /\ DOMAIN p = PanelFields /\ p.run = panel.run /\ p.mounted = panel.mounted /\ p.open = panel.open
        /\ p.restoring = panel.restoring /\ p.cursor = panel.cursor /\ p.cards = after
    BY <1>1, <2>3, <2>4, <2>7 DEF PanelFields
  <2>9. QED
    BY <1>1, <1>3, <2>1, <2>6, <2>7, <2>8, RestRight
<1>7. QED
  BY <1>4, <1>5, <1>6

\* A panel that is mounted has nothing yet, and no loop.
LEMMA OpenedRight ==
  ASSUME DrawerInv, Drawer!OpenDrawer \/ Drawer!LeaveStudio
  PROVE  DrawerInv'
<1>1. panel' = Drawer!Opened /\ UNCHANGED <<runs, saved, loops, call, verdict>> /\ ~panel.mounted
  BY DEF Drawer!OpenDrawer, Drawer!LeaveStudio, DrawerInv, PanelTyped
<1>2. PICK p, none : p = panel' /\ none = <<>>
  OBVIOUS
<1>3. none \in Seq(Cards) /\ DOMAIN none = {}
  BY <1>2
<1>4. /\ DOMAIN p = PanelFields /\ p.run = saved /\ p.cursor = 0 /\ p.cards = none /\ p.mounted = TRUE /\ p.open = TRUE
      /\ p.restoring = (saved # 0)
  BY <1>1, <1>2 DEF Drawer!Opened, Drawer!Empty, PanelFields
<1>5. RunsPlayed' /\ Len(runs) \in Nat /\ DOMAIN runs = 1 .. Len(runs)
  BY <1>1 DEF DrawerInv, RunsPlayed
<1>6. PanelTyped'
  <2>1. p.run \in 0 .. Len(runs) /\ p.cards \in Seq(Cards) /\ (\A i \in DOMAIN p.cards : p.cards[i].run \in 1 .. Len(runs)) /\ saved \in 0 .. Len(runs)
    BY <1>3, <1>4 DEF DrawerInv, PanelTyped
  <2>2. VerdictTyped'
    BY <1>1 DEF DrawerInv, PanelTyped, VerdictTyped
  <2>3. /\ p.mounted \in BOOLEAN /\ p.open \in BOOLEAN /\ p.restoring \in BOOLEAN /\ p.mounted /\ p.open
        /\ p.restoring => p.run # 0
    BY <1>4
  <2>4. panel' = p /\ runs' = runs /\ saved' = saved /\ p.cursor \in Nat /\ DOMAIN p = PanelFields
    BY <1>1, <1>2, <1>4
  <2>5. QED
    BY <2>1, <2>2, <2>3, <2>4 DEF PanelTyped
<1>7. LoopsTyped'
  BY <1>1, <1>2, <1>4 DEF DrawerInv, LoopsTyped
<1>8. Unheard'
  BY <1>1, <1>2, <1>3, <1>4 DEF DrawerInv, Unheard
<1>9. PanelRight'
  <2>1. ASSUME saved # 0
        PROVE  CardsRight(none, 0, runs[saved].log, saved)
    <3>1. saved \in DOMAIN runs
      BY <1>5, <2>1 DEF DrawerInv, PanelTyped
    <3>2. Len(runs[saved].log) \in Nat
      BY <3>1, RunIs DEF DrawerInv
    <3>3. QED
      BY <1>3, <3>2 DEF CardsRight
  <2>2. QED
    BY <1>1, <1>2, <1>4, <2>1 DEF PanelRight
<1>10. QED
  BY <1>5, <1>6, <1>7, <1>8, <1>9 DEF DrawerInv

\* What was made for a panel that goes, goes with it, or goes on for nobody.
LEMMA UnmountedRight ==
  ASSUME DrawerInv, Drawer!CloseDrawer \/ Drawer!EnterStudio
  PROVE  DrawerInv'
<1>1. PICK open \in BOOLEAN : Drawer!Unmounted(open)
  BY DEF Drawer!CloseDrawer, Drawer!EnterStudio
<1>2. /\ \E n : panel' = [Drawer!Empty EXCEPT !.open = open, !.visits = panel.visits, !.gone = n]
      /\ loops' = Drawer!Orphaned
      /\ call' = (CASE call = "sent" -> "orphan sent" [] call = "made" -> "orphan made" [] OTHER -> call)
      /\ verdict' = [verdict EXCEPT !.st = "idle"] /\ UNCHANGED <<runs, saved>>
  BY <1>1 DEF Drawer!Unmounted
<1>3. PICK p, none : p = panel' /\ none = <<>>
  OBVIOUS
<1>4. none \in Seq(Cards) /\ DOMAIN none = {}
  BY <1>3
<1>5. /\ DOMAIN p = PanelFields /\ p.run = 0 /\ p.cursor = 0 /\ p.cards = none /\ p.mounted = FALSE /\ p.open = open
      /\ p.restoring = FALSE
  BY <1>2, <1>3 DEF Drawer!Empty, PanelFields
<1>6. \A l \in Drawer!Loops : Follows(loops'[l], loops[l]) /\ ~loops'[l].mine
  <2>1. TAKE l \in Drawer!Loops
  <2>2. PICK old, new : old = Drawer!Aborted[l] /\ new = [old EXCEPT !.mine = FALSE]
    OBVIOUS
  <2>3. loops'[l] = new
    BY <1>2, <2>2 DEF Drawer!Orphaned
  <2>4. Follows(old, loops[l]) /\ old \in LoopKinds
    BY <2>2, AbortedIs DEF DrawerInv, Follows
  <2>5. new \in LoopKinds /\ new.st = old.st /\ new.run = old.run /\ new.mine = FALSE
    BY <2>2, <2>4 DEF LoopKinds
  <2>6. Follows(new, loops[l])
    BY <2>4, <2>5 DEF Follows
  <2>7. QED
    BY <2>3, <2>5, <2>6
<1>7. loops' = [l \in Drawer!Loops |-> loops'[l]]
  BY <1>2 DEF Drawer!Orphaned
<1>8. loops' \in [Drawer!Loops -> LoopKinds]
  BY <1>6, <1>7 DEF Follows
<1>9. RunsPlayed' /\ Len(runs) \in Nat
  <2>1. runs' = runs
    BY <1>1 DEF Drawer!Unmounted
  <2>2. QED
    BY <2>1 DEF DrawerInv, RunsPlayed
<1>10. PanelTyped'
  <2>1. call' \notin {"sent", "made"}
    BY <1>2
  <2>2. VerdictTyped'
    BY <1>1 DEF Drawer!Unmounted, DrawerInv, PanelTyped, VerdictTyped
  <2>3. runs' = runs /\ saved' = saved /\ saved \in 0 .. Len(runs)
    BY <1>1 DEF Drawer!Unmounted, DrawerInv, PanelTyped
  <2>4. p.mounted \in BOOLEAN /\ p.open \in BOOLEAN /\ p.restoring \in BOOLEAN /\ ~p.mounted /\ ~p.restoring
    BY <1>5
  <2>5. /\ panel' = p /\ DOMAIN p = PanelFields /\ p.run \in 0 .. Len(runs) /\ p.cursor \in Nat /\ p.cards \in Seq(Cards)
        /\ \A i \in DOMAIN p.cards : p.cards[i].run \in 1 .. Len(runs)
    BY <1>3, <1>4, <1>5, <1>9
  <2>6. QED
    BY <2>1, <2>2, <2>3, <2>4, <2>5 DEF PanelTyped
<1>11. LoopsTyped'
  <2>1. runs' = runs
    BY <1>1 DEF Drawer!Unmounted
  <2>2. \A l \in Drawer!Loops : loops'[l].run \in 0 .. Len(runs) /\ (loops'[l].st # "idle" => loops'[l].run # 0)
    BY <1>6, <1>9 DEF DrawerInv, LoopsTyped, Follows
  <2>3. QED
    BY <1>6, <1>8, <2>1, <2>2 DEF LoopsTyped
<1>12. Unheard'
  <2>1. SUFFICES ASSUME call' \in {"made", "orphan made"} PROVE Unheard'
    BY DEF Unheard
  <2>2. call \in {"made", "orphan made"}
    BY <1>2, <2>1
  <2>3. Len(runs) # 0 /\ saved # Len(runs) /\ \A l \in Drawer!Loops : loops[l].run # Len(runs)
    BY <2>2 DEF DrawerInv, Unheard
  <2>4. \A l \in Drawer!Loops : loops'[l].run # Len(runs)
    BY <1>6, <2>3 DEF Follows
  <2>5. QED
    BY <1>2, <1>3, <1>4, <1>5, <2>3, <2>4 DEF Unheard
<1>13. PanelRight'
  BY <1>3, <1>5 DEF PanelRight
<1>14. QED
  BY <1>9, <1>10, <1>11, <1>12, <1>13 DEF DrawerInv

\* The panel watches its run, from where it is or from the beginning.
LEMMA WatchedRight ==
  ASSUME DrawerInv, Drawer!Restored \/ Drawer!Resume
  PROVE  DrawerInv'
<1>1. /\ LoopsTyped /\ panel.run \in Nat /\ panel.run # 0 /\ panel.run \in DOMAIN runs /\ panel.mounted /\ Len(runs) \in Nat
      /\ DOMAIN panel = PanelFields /\ panel.cards \in Seq(Cards) /\ VerdictTyped
  <2>1. LoopsTyped /\ DOMAIN panel = PanelFields /\ panel.cards \in Seq(Cards) /\ VerdictTyped /\ panel.run \in 0 .. Len(runs)
    BY DEF DrawerInv, PanelTyped
  <2>2. Len(runs) \in Nat /\ DOMAIN runs = 1 .. Len(runs)
    BY DEF DrawerInv, RunsPlayed
  <2>3. panel.mounted /\ panel.run # 0
    BY DEF DrawerInv, PanelTyped, Drawer!Restored, Drawer!Resume
  <2>4. QED
    BY <2>1, <2>2, <2>3
<1>2. loops' = Drawer!Watching(panel.run, TRUE) /\ UNCHANGED <<runs, saved, call, verdict>>
  BY DEF Drawer!Restored, Drawer!Resume
<1>3. PICK p, none : p = panel' /\ none = <<>>
  OBVIOUS
<1>4. none \in Seq(Cards) /\ DOMAIN none = {}
  BY <1>3
<1>5. /\ DOMAIN p = PanelFields /\ p.run = panel.run /\ p.mounted = panel.mounted /\ p.open = panel.open
      /\ p.restoring \in {FALSE, panel.restoring}
      /\ (p.cursor = panel.cursor /\ p.cards = panel.cards) \/ (p.cursor = 0 /\ p.cards = none)
  BY <1>1, <1>3 DEF Drawer!Restored, Drawer!Resume, PanelFields
<1>6. /\ loops' \in [Drawer!Loops -> LoopKinds]
      /\ \A l \in Drawer!Loops :
           \/ Follows(loops'[l], loops[l])
           \/ loops'[l].st = "stream" /\ loops'[l].run = panel.run /\ loops'[l].live /\ loops'[l].mine = TRUE
  <2>1. PICK r, mine : r = panel.run /\ mine = TRUE
    OBVIOUS
  <2>2. r \in Nat /\ r # 0 /\ mine \in BOOLEAN /\ loops' = Drawer!Watching(r, mine)
    BY <1>1, <1>2, <2>1
  <2>3. /\ loops' \in [Drawer!Loops -> LoopKinds]
        /\ \A l \in Drawer!Loops :
             \/ Follows(loops'[l], loops[l]) /\ (mine => ~(loops'[l].mine /\ loops'[l].live))
             \/ loops'[l].st = "stream" /\ loops'[l].run = r /\ loops'[l].live /\ loops'[l].mine = mine
    BY <1>1, <2>2, WatchingIs
  <2>4. QED
    BY <2>1, <2>3
<1>7. RunsPlayed'
  BY <1>2 DEF DrawerInv, RunsPlayed
<1>8. VerdictTyped'
  BY <1>1, <1>2 DEF VerdictTyped
<1>9. PanelTyped'
  <2>1. p.cursor \in Nat /\ p.cards \in Seq(Cards) /\ \A i \in DOMAIN p.cards : p.cards[i].run \in 1 .. Len(runs)
    <3>1. panel.cursor \in Nat /\ panel.cards \in Seq(Cards) /\ \A i \in DOMAIN panel.cards : panel.cards[i].run \in 1 .. Len(runs)
      BY DEF DrawerInv, PanelTyped
    <3>2. CASE p.cursor = panel.cursor /\ p.cards = panel.cards
      BY <3>1, <3>2
    <3>3. CASE p.cursor = 0 /\ p.cards = none
      BY <1>4, <3>3
    <3>4. QED
      BY <1>5, <3>2, <3>3
  <2>2. p.restoring \in BOOLEAN /\ (p.restoring => p.mounted /\ p.run # 0)
    BY <1>5 DEF DrawerInv, PanelTyped
  <2>3. panel' = p /\ runs' = runs /\ saved' = saved /\ call' = call
    BY <1>2, <1>3
  <2>4. QED
    BY <1>5, <1>8, <2>1, <2>2, <2>3 DEF DrawerInv, PanelTyped
<1>10. LoopsTyped'
  <2>1. ASSUME NEW l \in Drawer!Loops
        PROVE  /\ loops'[l].run \in 0 .. Len(runs)
               /\ loops'[l].st # "idle" => loops'[l].run # 0
               /\ loops'[l].mine => p.mounted
               /\ loops'[l].mine /\ loops'[l].st \in {"stream", "pause"} => loops'[l].live
               /\ loops'[l].mine /\ loops'[l].live => p.run \in {0, loops'[l].run}
    <3>1. CASE Follows(loops'[l], loops[l])
      BY <1>1, <1>5, <3>1 DEF Follows, DrawerInv, LoopsTyped
    <3>2. CASE loops'[l].st = "stream" /\ loops'[l].run = panel.run /\ loops'[l].live /\ loops'[l].mine = TRUE
      BY <1>1, <1>5, <3>2 DEF DrawerInv, PanelTyped
    <3>3. QED
      BY <1>6, <3>1, <3>2
  <2>2. runs' = runs /\ panel' = p
    BY <1>2, <1>3
  <2>3. QED
    BY <1>6, <2>1, <2>2 DEF LoopsTyped
<1>11. Unheard'
  <2>1. SUFFICES ASSUME call \in {"made", "orphan made"} PROVE Unheard'
    BY <1>2 DEF Unheard
  <2>2. /\ Len(runs) # 0 /\ saved # Len(runs) /\ panel.run # Len(runs)
        /\ \A l \in Drawer!Loops : loops[l].run # Len(runs)
        /\ \A i \in DOMAIN panel.cards : panel.cards[i].run # Len(runs)
    BY <2>1 DEF DrawerInv, Unheard
  <2>3. \A l \in Drawer!Loops : loops'[l].run # Len(runs)
    BY <1>6, <2>2 DEF Follows
  <2>4. p.run # Len(runs) /\ \A i \in DOMAIN p.cards : p.cards[i].run # Len(runs)
    BY <1>4, <1>5, <2>2
  <2>5. runs' = runs /\ panel' = p /\ saved' = saved
    BY <1>2, <1>3
  <2>6. QED
    BY <2>2, <2>3, <2>4, <2>5 DEF Unheard
<1>12. PanelRight'
  <2>1. Len(runs[panel.run].log) \in Nat
    BY <1>1, RunIs DEF DrawerInv
  <2>2. CardsRight(none, 0, runs[panel.run].log, panel.run)
    BY <1>4, <2>1 DEF CardsRight
  <2>3. CardsRight(p.cards, p.cursor, runs[p.run].log, p.run)
    BY <1>1, <1>5, <2>2 DEF DrawerInv, PanelRight
  <2>4. QED
    BY <1>2, <1>3, <2>3 DEF PanelRight
<1>13. QED
  BY <1>7, <1>9, <1>10, <1>11, <1>12 DEF DrawerInv

\* A run that the page hears of is shown from its beginning, by the panel that
\* started it, or by nobody.
LEMMA CreatedRight ==
  ASSUME DrawerInv, Drawer!RunCreated
  PROVE  DrawerInv'
<1>1. PICK r : r = Len(runs)
  OBVIOUS
<1>2. /\ call \in {"made", "orphan made"} /\ saved' = r /\ loops' = Drawer!Watching(r, call \notin Drawer!Gone)
      /\ panel' = (IF call \in Drawer!Gone THEN panel ELSE [panel EXCEPT !.run = r, !.cursor = 0, !.phase = "running"])
      /\ call' = "idle" /\ UNCHANGED <<runs, verdict>>
  BY <1>1 DEF Drawer!RunCreated
<1>3. /\ r \in Nat /\ r # 0 /\ r \in DOMAIN runs /\ panel.run # r
      /\ \A i \in DOMAIN panel.cards : panel.cards[i].run # r
  <2>1. r \in Nat /\ DOMAIN runs = 1 .. r
    BY <1>1 DEF DrawerInv, RunsPlayed
  <2>2. /\ Len(runs) # 0 /\ panel.run # Len(runs)
        /\ \A i \in DOMAIN panel.cards : panel.cards[i].run # Len(runs)
    BY <1>2 DEF DrawerInv, Unheard
  <2>3. QED
    BY <1>1, <2>1, <2>2
<1>4. /\ LoopsTyped /\ VerdictTyped /\ DOMAIN panel = PanelFields /\ panel.cards \in Seq(Cards) /\ panel.cursor \in Nat
      /\ call = "made" => panel.mounted
  BY DEF DrawerInv, PanelTyped
<1>5. PICK mine \in BOOLEAN : mine = (call \notin Drawer!Gone)
  OBVIOUS
<1>6. mine <=> call = "made"
  BY <1>2, <1>5 DEF Drawer!Gone
<1>7. PICK p : p = panel'
  OBVIOUS
<1>8. /\ DOMAIN p = PanelFields /\ p.mounted = panel.mounted /\ p.open = panel.open /\ p.restoring = panel.restoring
      /\ p.cards = panel.cards
      /\ mine => p.run = r /\ p.cursor = 0
      /\ ~mine => p.run = panel.run /\ p.cursor = panel.cursor
  BY <1>2, <1>4, <1>5, <1>7 DEF PanelFields
<1>9. /\ loops' \in [Drawer!Loops -> LoopKinds]
      /\ \A l \in Drawer!Loops :
           \/ Follows(loops'[l], loops[l]) /\ (mine => ~(loops'[l].mine /\ loops'[l].live))
           \/ loops'[l].st = "stream" /\ loops'[l].run = r /\ loops'[l].live /\ loops'[l].mine = mine
  <2>1. loops' = Drawer!Watching(r, mine)
    BY <1>2, <1>5
  <2>2. QED
    BY <1>3, <1>4, <2>1, WatchingIs
<1>10. RunsPlayed'
  BY <1>2 DEF DrawerInv, RunsPlayed
<1>11. VerdictTyped'
  BY <1>2, <1>4 DEF VerdictTyped
<1>12. PanelTyped'
  <2>1. p.run \in 0 .. Len(runs) /\ r \in 0 .. Len(runs) /\ p.cursor \in Nat
    BY <1>1, <1>3, <1>4, <1>8 DEF DrawerInv, PanelTyped
  <2>2. p.restoring \in BOOLEAN /\ (p.restoring => p.mounted /\ p.run # 0)
    BY <1>3, <1>8 DEF DrawerInv, PanelTyped
  <2>3. panel' = p /\ runs' = runs /\ saved' = r /\ call' = "idle"
    BY <1>2, <1>7
  <2>4. QED
    BY <1>8, <1>11, <2>1, <2>2, <2>3 DEF DrawerInv, PanelTyped
<1>13. LoopsTyped'
  <2>1. ASSUME NEW l \in Drawer!Loops
        PROVE  /\ loops'[l].run \in 0 .. Len(runs)
               /\ loops'[l].st # "idle" => loops'[l].run # 0
               /\ loops'[l].mine => p.mounted
               /\ loops'[l].mine /\ loops'[l].st \in {"stream", "pause"} => loops'[l].live
               /\ loops'[l].mine /\ loops'[l].live => p.run \in {0, loops'[l].run}
    <3>1. CASE Follows(loops'[l], loops[l]) /\ (mine => ~(loops'[l].mine /\ loops'[l].live))
      BY <1>1, <1>3, <1>4, <1>8, <3>1 DEF Follows, LoopsTyped
    <3>2. CASE loops'[l].st = "stream" /\ loops'[l].run = r /\ loops'[l].live /\ loops'[l].mine = mine
      BY <1>1, <1>3, <1>4, <1>6, <1>8, <3>2
    <3>3. QED
      BY <1>9, <3>1, <3>2
  <2>2. runs' = runs /\ panel' = p
    BY <1>2, <1>7
  <2>3. QED
    BY <1>9, <2>1, <2>2 DEF LoopsTyped
<1>14. Unheard'
  BY <1>2 DEF Unheard
<1>15. PanelRight'
  <2>1. Len(runs[r].log) \in Nat
    BY <1>3, RunIs DEF DrawerInv
  <2>2. mine => CardsRight(p.cards, p.cursor, runs[p.run].log, p.run)
    BY <1>3, <1>8, <2>1 DEF CardsRight
  <2>3. ~mine /\ p.run # 0 => CardsRight(p.cards, p.cursor, runs[p.run].log, p.run)
    BY <1>8 DEF DrawerInv, PanelRight
  <2>4. QED
    BY <1>2, <1>7, <2>2, <2>3 DEF PanelRight
<1>16. QED
  BY <1>10, <1>12, <1>13, <1>14, <1>15 DEF DrawerInv

-----------------------------------------------------------------------------
LEMMA InitDrawer == Init => DrawerInv
<1> SUFFICES ASSUME Init PROVE DrawerInv
  OBVIOUS
<1>1. /\ runs = <<>> /\ saved = 0 /\ panel = Drawer!Empty /\ loops = [l \in Drawer!Loops |-> Drawer!NoLoop]
      /\ call = "idle" /\ verdict = [st |-> "idle", run |-> 0]
  BY DEF Init, Drawer!Init
<1>2. PICK none : none = <<>>
  OBVIOUS
<1>3. none \in Seq(Record) /\ none \in Seq(Cards) /\ Len(none) = 0 /\ DOMAIN none = {}
  BY <1>2
<1>4. RunsPlayed /\ Len(runs) = 0
  BY <1>1, <1>2, <1>3 DEF RunsPlayed
<1>5. VerdictTyped
  BY <1>1 DEF VerdictTyped
<1>6. /\ DOMAIN panel = PanelFields /\ panel.run = 0 /\ panel.cursor = 0 /\ panel.cards = none
      /\ panel.mounted = FALSE /\ panel.open = FALSE /\ panel.restoring = FALSE
  BY <1>1, <1>2 DEF Drawer!Empty, PanelFields
<1>7. PanelTyped
  <2>1. panel.run \in 0 .. Len(runs) /\ saved \in 0 .. Len(runs) /\ panel.cursor \in Nat /\ panel.cards \in Seq(Cards)
    BY <1>1, <1>3, <1>4, <1>6
  <2>2. /\ panel.mounted \in BOOLEAN /\ panel.open \in BOOLEAN /\ panel.restoring \in BOOLEAN
        /\ ~panel.mounted /\ ~panel.restoring /\ call \notin {"sent", "made"}
    BY <1>1, <1>6
  <2>3. DOMAIN panel = PanelFields /\ DOMAIN panel.cards = {}
    BY <1>3, <1>6
  <2>4. QED
    BY <1>5, <2>1, <2>2, <2>3 DEF PanelTyped
<1>8. Drawer!NoLoop \in LoopKinds /\ Drawer!NoLoop.st = "idle" /\ Drawer!NoLoop.run = 0 /\ ~Drawer!NoLoop.mine
  BY DEF Drawer!NoLoop, LoopKinds
<1>9. LoopsTyped
  BY <1>1, <1>4, <1>8 DEF LoopsTyped
<1>10. Unheard /\ PanelRight
  BY <1>1, <1>6 DEF Unheard, PanelRight
<1>11. QED
  BY <1>4, <1>7, <1>9, <1>10 DEF DrawerInv

LEMMA NextDrawer == DrawerInv /\ [Next]_consoleVars => DrawerInv'
<1> SUFFICES ASSUME DrawerInv, [Next]_consoleVars PROVE DrawerInv'
  OBVIOUS
<1>1. CASE Drawer!Assist
  <2>1. CASE \E l \in Drawer!Loops : Drawer!Watch(l)
    BY <2>1, DeliverRight, LoopRight DEF Drawer!Watch
  <2>2. CASE \/ Drawer!NotRestored \/ Drawer!LookupEnds \/ Drawer!Submit \/ Drawer!RunNotCreated \/ Drawer!Background
             \/ Drawer!VerdictTaken \/ Drawer!VerdictFailed \/ \E i \in DOMAIN panel.cards : Drawer!Decide(i)
    BY <2>2, PanelRightAfter
  <2>3. CASE (\E r \in DOMAIN runs : Drawer!Emit(r) \/ Drawer!Finish(r)) \/ Drawer!ServeVerdict
    BY <2>3, ServedRight
  <2>4. CASE \/ Drawer!OpenDrawer \/ Drawer!CloseDrawer \/ Drawer!EnterStudio \/ Drawer!LeaveStudio \/ Drawer!Restored
             \/ Drawer!ServeRun \/ Drawer!RunCreated \/ Drawer!Resume
    BY <2>4, OpenedRight, UnmountedRight, WatchedRight, NewRunRight, CreatedRight
  <2>5. QED
    BY <1>1, <2>1, <2>2, <2>3, <2>4 DEF Drawer!Assist
<1>2. CASE UNCHANGED panelVars
  <2>1. UNCHANGED <<runs, saved, panel, loops, call, verdict>>
    BY <1>2 DEF panelVars
  <2>2. QED
    BY <2>1 DEF DrawerInv, RunsPlayed, PanelTyped, VerdictTyped, LoopsTyped, Unheard, PanelRight
<1>3. QED
  BY <1>1, <1>2 DEF Next, consoleVars

\* The card of a tool runs until what answers its call has been taken in, and
\* no longer, however the stream is cut, left, resumed or taken up again.
THEOREM CardsForever == Spec => []CardsMatchEvents
<1>1. DrawerInv => CardsMatchEvents
  <2>1. SUFFICES ASSUME DrawerInv, NEW i \in DOMAIN panel.cards, panel.cards[i].kind = "tool", panel.cards[i].run = panel.run
                 PROVE  panel.cards[i].phase = "running" <=> ~Replied(runs[panel.run].log, panel.cursor, panel.cards[i].id)
    BY DEF CardsMatchEvents, Replied
  <2>2. panel.run # 0
    BY <2>1 DEF DrawerInv, PanelTyped
  <2>3. QED
    BY <2>1, <2>2 DEF DrawerInv, PanelRight, CardsRight
<1>2. QED
  BY <1>1, InitDrawer, NextDrawer, PTL DEF Spec

-----------------------------------------------------------------------------
(* What is chosen from a list.                                             *)

IsSeq(q) == \E S : q \in Seq(S)

LEMMA SeqIs ==
  ASSUME NEW q, IsSeq(q)
  PROVE  Len(q) \in Nat /\ DOMAIN q = 1 .. Len(q)
BY DEF IsSeq

LEMMA SeqOfIs ==
  ASSUME NEW n \in Nat, NEW q, DOMAIN q = 1 .. n, q = [k \in 1 .. n |-> q[k]]
  PROVE  IsSeq(q) /\ Len(q) = n
<1>1. PICK S : S = {q[k] : k \in 1 .. n}
  OBVIOUS
<1>2. \A k \in 1 .. n : q[k] \in S
  BY <1>1
<1>3. q \in [1 .. n -> S]
  BY <1>2
<1>4. q \in Seq(S)
  BY <1>3, SeqDef
<1>5. Len(q) = n
  <2>1. Len(q) \in Nat /\ DOMAIN q = 1 .. Len(q)
    BY <1>4
  <2>2. PICK m : m = Len(q)
    OBVIOUS
  <2>3. m \in Nat /\ 1 .. m = 1 .. n
    BY <2>1, <2>2
  <2>4. m = n
    BY <2>3
  <2>5. QED
    BY <2>2, <2>4
<1>6. QED
  BY <1>4, <1>5 DEF IsSeq

\* The places of two lists in the list that they make together.
Joined(h, q, r) ==
  LET a == Len(q)
      b == Len(r)
  IN  /\ IsSeq(h) /\ Len(h) = a + b /\ DOMAIN h = 1 .. a + b
      /\ \A p \in 1 .. a : h[p] = q[p]
      /\ \A c \in 1 .. b : h[a + c] = r[c]
      /\ \A p \in 1 .. a + b : p \in 1 .. a \/ \E k \in 1 .. b : p = a + k

LEMMA JoinIs ==
  ASSUME NEW q, NEW r, IsSeq(q), IsSeq(r)
  PROVE  Joined(q \o r, q, r)
<1> SUFFICES ASSUME NEW a, NEW b, a = Len(q), b = Len(r), NEW h, h = q \o r PROVE Joined(h, q, r)
  OBVIOUS
<1>1. PICK S, U : q \in Seq(S) /\ r \in Seq(U)
  BY DEF IsSeq
<1>2. q \in Seq(S \union U) /\ r \in Seq(S \union U) /\ a \in Nat /\ b \in Nat
  BY <1>1
<1>3. /\ h \in Seq(S \union U) /\ Len(h) = a + b
      /\ \A i \in 1 .. a + b : h[i] = IF i <= a THEN q[i] ELSE r[i - a]
  BY <1>2, ConcatProperties
<1>4. DOMAIN h = 1 .. a + b
  BY <1>3
<1>5. \A p \in 1 .. a : h[p] = q[p]
  BY <1>2, <1>3
<1>6. ASSUME NEW c \in 1 .. b PROVE h[a + c] = r[c]
  <2>1. a + c \in 1 .. a + b /\ ~ (a + c <= a) /\ (a + c) - a = c
    BY <1>2
  <2>2. QED
    BY <1>3, <2>1
<1>7. ASSUME NEW p \in 1 .. a + b PROVE p \in 1 .. a \/ \E k \in 1 .. b : p = a + k
  <2>1. p <= a \/ (p - a \in 1 .. b /\ p = a + (p - a))
    BY <1>2
  <2>2. QED
    BY <1>2, <2>1
<1>8. QED
  BY <1>3, <1>4, <1>5, <1>6, <1>7 DEF IsSeq, Joined

LEMMA Induction ==
  ASSUME NEW T, T \subseteq Nat, 0 \in T, \A n \in T : n + 1 \in T
  PROVE  T = Nat
<1>1. PICK R : R = OpToRel(<, Nat)
  OBVIOUS
<1>2. \A x, y \in Nat : x < y => <<x, y>> \in R
  BY <1>1 DEF OpToRel
<1>3. IsWellFoundedOn(R, Nat)
  BY <1>1, NatLessThanWellFounded
<1>4. ASSUME Nat \ T # {} PROVE FALSE
  <2>1. PICK x \in Nat \ T : \A y \in Nat \ T : <<y, x>> \notin R
    BY <1>3, <1>4, WFMin
  <2>2. x # 0 /\ x - 1 \in Nat /\ x - 1 < x
    OBVIOUS
  <2>3. x - 1 \in T
    BY <1>2, <2>1, <2>2
  <2>4. QED
    BY <2>1, <2>2, <2>3
<1>5. QED
  BY <1>4

LEMMA LeastOf ==
  ASSUME NEW S, S \subseteq Nat, S # {}
  PROVE  Min(S) \in S /\ \A y \in S : Min(S) <= y
<1>1. PICK R : R = OpToRel(<, Nat)
  OBVIOUS
<1>2. \A x, y \in Nat : x < y => <<x, y>> \in R
  BY <1>1 DEF OpToRel
<1>3. IsWellFoundedOn(R, Nat)
  BY <1>1, NatLessThanWellFounded
<1>4. PICK x \in S : \A y \in S : <<y, x>> \notin R
  BY <1>3, WFMin
<1>5. ASSUME NEW y \in S PROVE x <= y
  <2>1. x \in Nat /\ y \in Nat
    OBVIOUS
  <2>2. ~ (y < x)
    BY <1>2, <1>4, <2>1
  <2>3. QED
    BY <2>1, <2>2
<1>6. QED
  BY <1>5 DEF Min

\* The first place of a list that is in some set of places.
LEMMA PlaceIs ==
  ASSUME NEW list, IsSeq(list), NEW S, S \subseteq DOMAIN list
  PROVE  LET n == IF S # {} THEN Min(S) ELSE 0
         IN  IF S = {} THEN n = 0 ELSE n \in S /\ n # 0
<1>1. S \subseteq Nat /\ 0 \notin S
  BY SeqIs
<1>2. QED
  BY <1>1, LeastOf

\* One number more.
NextUp(f, S, n) ==
  IF n = 0 THEN <<>> ELSE IF n \in S THEN Append(f[n - 1], n) ELSE f[n - 1]
IsClimb(f, S, k) == f = [n \in 0 .. k |-> NextUp(f, S, n)]

LEMMA ClimbExists ==
  ASSUME NEW S, NEW k \in Nat
  PROVE  \E f : IsClimb(f, S, k)
<1>1. PICK T : T = {n \in Nat : \E f : IsClimb(f, S, n)}
  OBVIOUS
<1>2. 0 \in T
  <2>1. PICK f : f = [n \in 0 .. 0 |-> <<>>]
    OBVIOUS
  <2>2. IsClimb(f, S, 0)
    BY <2>1 DEF IsClimb, NextUp
  <2>3. QED
    BY <1>1, <2>2
<1>3. ASSUME NEW n \in T PROVE n + 1 \in T
  <2>1. n \in Nat /\ \E f : IsClimb(f, S, n)
    BY <1>1
  <2>2. PICK f : IsClimb(f, S, n)
    BY <2>1
  <2>3. PICK g : g = [m \in 0 .. n + 1 |-> IF m = n + 1 THEN NextUp(f, S, m) ELSE f[m]]
    OBVIOUS
  <2>4. \A m \in 0 .. n : g[m] = f[m]
    BY <2>1, <2>3
  <2>5. \A m \in 0 .. n : f[m] = NextUp(f, S, m)
    BY <2>2 DEF IsClimb
  <2>6. \A m \in 0 .. n + 1 : NextUp(g, S, m) = NextUp(f, S, m)
    <3>1. ASSUME NEW m \in 0 .. n + 1, m # 0 PROVE g[m - 1] = f[m - 1]
      BY <2>1, <2>4, <3>1
    <3>2. QED
      BY <3>1 DEF NextUp
  <2>7. \A m \in 0 .. n + 1 : g[m] = NextUp(g, S, m)
    <3>1. ASSUME NEW m \in 0 .. n + 1 PROVE g[m] = NextUp(f, S, m)
      <4>1. CASE m = n + 1
        BY <2>3, <4>1
      <4>2. CASE m # n + 1
        BY <2>1, <2>3, <2>5, <4>2
      <4>3. QED
        BY <4>1, <4>2
    <3>2. QED
      BY <2>6, <3>1
  <2>8. g = [m \in 0 .. n + 1 |-> NextUp(g, S, m)]
    BY <2>3, <2>7
  <2>9. QED
    BY <1>1, <2>1, <2>8 DEF IsClimb
<1>4. T = Nat
  BY <1>1, <1>2, <1>3, Induction
<1>5. QED
  BY <1>1, <1>4

\* The numbers of T, in ascending order.
Rises(a, T) ==
  /\ IsSeq(a)
  /\ \A i \in DOMAIN a : a[i] \in T
  /\ \A x \in T : \E i \in DOMAIN a : a[i] = x
  /\ \A i, j \in DOMAIN a : i < j => a[i] < a[j]

LEMMA RisesOneMore ==
  ASSUME NEW a, NEW S, NEW n \in Nat, Rises(a, S \cap 1 .. n)
  PROVE  Rises(IF n + 1 \in S THEN Append(a, n + 1) ELSE a, S \cap 1 .. n + 1)
<1>1. CASE n + 1 \notin S
  <2>1. S \cap 1 .. n + 1 = S \cap 1 .. n
    BY <1>1
  <2>2. QED
    BY <1>1, <2>1
<1>2. CASE n + 1 \in S
  <2>1. PICK p : p = Append(a, n + 1)
    OBVIOUS
  <2>2. PICK W : a \in Seq(W)
    BY DEF Rises, IsSeq
  <2>3. PICK k : k = Len(a)
    OBVIOUS
  <2>4. /\ p \in Seq(W \union {n + 1}) /\ k \in Nat
        /\ DOMAIN a = 1 .. k /\ DOMAIN p = 1 .. k + 1
        /\ \A i \in 1 .. k : p[i] = a[i]
        /\ p[k + 1] = n + 1
    <3>1. a \in Seq(W \union {n + 1}) /\ n + 1 \in W \union {n + 1}
      BY <2>2
    <3>2. QED
      BY <2>1, <2>2, <2>3, <3>1, AppendProperties
  <2>5. \A i \in DOMAIN p : i = k + 1 \/ i \in DOMAIN a
    BY <2>4
  <2>6. \A i \in DOMAIN a : i \in DOMAIN p /\ p[i] = a[i] /\ p[i] \in S \cap 1 .. n /\ i < k + 1
    BY <2>4 DEF Rises
  <2>7. \A i \in DOMAIN p : p[i] \in S \cap 1 .. n + 1
    BY <1>2, <2>4, <2>5, <2>6
  <2>8. ASSUME NEW x \in S \cap 1 .. n + 1 PROVE \E i \in DOMAIN p : p[i] = x
    <3>1. x = n + 1 \/ x \in S \cap 1 .. n
      OBVIOUS
    <3>2. k + 1 \in DOMAIN p
      BY <2>4
    <3>3. QED
      BY <2>4, <2>6, <3>1, <3>2 DEF Rises
  <2>9. ASSUME NEW i \in DOMAIN p, NEW j \in DOMAIN p, i < j PROVE p[i] < p[j]
    <3>1. i \in DOMAIN a
      BY <2>4, <2>9
    <3>2. CASE j = k + 1
      BY <2>4, <2>6, <3>1, <3>2
    <3>3. CASE j \in DOMAIN a
      BY <2>6, <2>9, <3>1, <3>3 DEF Rises
    <3>4. QED
      BY <2>5, <3>2, <3>3
  <2>10. Rises(p, S \cap 1 .. n + 1)
    BY <2>4, <2>7, <2>8, <2>9 DEF Rises, IsSeq
  <2>11. QED
    BY <1>2, <2>1, <2>10
<1>3. QED
  BY <1>1, <1>2

LEMMA AscendingIs ==
  ASSUME NEW S, NEW k \in Nat
  PROVE  Evidence!Ascending(S, k) = (CHOOSE f : IsClimb(f, S, k))[k]
BY DEF Evidence!Ascending, IsClimb, NextUp

LEMMA AscendingRises ==
  ASSUME NEW S, NEW k \in Nat
  PROVE  Rises(Evidence!Ascending(S, k), S \cap 1 .. k)
<1>1. PICK f : f = CHOOSE h : IsClimb(h, S, k)
  OBVIOUS
<1>2. IsClimb(f, S, k)
  BY <1>1, ClimbExists
<1>3. \A n \in 0 .. k : f[n] = NextUp(f, S, n)
  BY <1>2 DEF IsClimb
<1>4. PICK T : T = {n \in Nat : n <= k => Rises(f[n], S \cap 1 .. n)}
  OBVIOUS
<1>5. 0 \in T
  <2>1. f[0] = <<>>
    BY <1>3 DEF NextUp
  <2>2. <<>> \in Seq({}) /\ DOMAIN <<>> = {} /\ S \cap 1 .. 0 = {}
    OBVIOUS
  <2>3. Rises(<<>>, S \cap 1 .. 0)
    BY <2>2 DEF Rises, IsSeq
  <2>4. QED
    BY <1>4, <2>1, <2>3
<1>6. ASSUME NEW n \in T PROVE n + 1 \in T
  <2>1. n \in Nat
    BY <1>4
  <2>2. ASSUME n + 1 <= k PROVE Rises(f[n + 1], S \cap 1 .. n + 1)
    <3>1. n + 1 \in 0 .. k /\ n + 1 # 0 /\ (n + 1) - 1 = n /\ n <= k
      BY <2>1, <2>2
    <3>2. Rises(f[n], S \cap 1 .. n)
      BY <1>4, <3>1
    <3>3. f[n + 1] = IF n + 1 \in S THEN Append(f[n], n + 1) ELSE f[n]
      BY <1>3, <3>1 DEF NextUp
    <3>4. QED
      BY <2>1, <3>2, <3>3, RisesOneMore
  <2>3. QED
    BY <1>4, <2>1, <2>2
<1>7. T = Nat
  BY <1>4, <1>5, <1>6, Induction
<1>8. Rises(f[k], S \cap 1 .. k)
  BY <1>4, <1>7
<1>9. QED
  BY <1>1, <1>8, AscendingIs

\* The elements of a list at the places P, in their order.
Drawn(r, list, P) ==
  /\ IsSeq(r)
  /\ \E g : Rises(g, P) /\ DOMAIN g = DOMAIN r /\ \A k \in DOMAIN r : r[k] = list[g[k]]

LEMMA AtIs ==
  ASSUME NEW list, IsSeq(list), NEW P, P \subseteq DOMAIN list
  PROVE  Drawn(Evidence!At(list, P), list, P)
<1>1. Len(list) \in Nat /\ P \cap 1 .. Len(list) = P
  BY SeqIs
<1>2. PICK a : a = Evidence!Ascending(P, Len(list))
  OBVIOUS
<1>3. Rises(a, P)
  BY <1>1, <1>2, AscendingRises
<1>4. PICK r : r = Evidence!At(list, P)
  OBVIOUS
<1>5. r = [k \in DOMAIN a |-> list[a[k]]]
  BY <1>2, <1>4 DEF Evidence!At
<1>6. IsSeq(r)
  <2>1. PICK n : n = Len(a)
    OBVIOUS
  <2>2. n \in Nat /\ DOMAIN a = 1 .. n
    BY <1>3, <2>1, SeqIs DEF Rises
  <2>3. DOMAIN r = 1 .. n /\ r = [k \in 1 .. n |-> r[k]]
    BY <1>5, <2>2
  <2>4. QED
    BY <2>2, <2>3, SeqOfIs
<1>7. QED
  BY <1>3, <1>4, <1>5, <1>6 DEF Drawn

Earlier(list, n) == \E m \in 1 .. n - 1 : list[m] = list[n]

LEMMA DistinctIs ==
  ASSUME NEW list, IsSeq(list)
  PROVE  Drawn(Evidence!Distinct(list), list, {n \in DOMAIN list : ~Earlier(list, n)})
<1>1. PICK P : P = {n \in DOMAIN list : ~Earlier(list, n)}
  OBVIOUS
<1>2. Evidence!Distinct(list) = Evidence!At(list, P)
  BY <1>1 DEF Evidence!Distinct, Earlier
<1>3. P \subseteq DOMAIN list
  BY <1>1
<1>4. QED
  BY <1>1, <1>2, <1>3, AtIs

\* Each element of a list has a first place.
LEMMA FirstPlace ==
  ASSUME NEW list, IsSeq(list), NEW n \in DOMAIN list
  PROVE  \E m \in DOMAIN list : list[m] = list[n] /\ ~Earlier(list, m) /\ m <= n
<1>1. PICK S : S = {m \in DOMAIN list : list[m] = list[n]}
  OBVIOUS
<1>2. DOMAIN list = 1 .. Len(list) /\ Len(list) \in Nat
  BY SeqIs
<1>3. S \subseteq Nat /\ n \in S
  BY <1>1, <1>2
<1>4. PICK m \in S : \A k \in S : m <= k
  BY <1>3, LeastOf
<1>5. ~Earlier(list, m)
  <2>1. ASSUME NEW k \in 1 .. m - 1, list[k] = list[m] PROVE FALSE
    <3>1. m \in 1 .. Len(list) /\ list[m] = list[n]
      BY <1>1, <1>2
    <3>2. k \in DOMAIN list /\ ~ (m <= k)
      BY <1>2, <2>1, <3>1
    <3>3. k \in S
      BY <1>1, <2>1, <3>1, <3>2
    <3>4. QED
      BY <1>4, <3>2, <3>3
  <2>2. QED
    BY <2>1 DEF Earlier
<1>6. QED
  BY <1>1, <1>3, <1>4, <1>5

\* A list of numbers that rises and leaves none out counts from one.
LEMMA RisesAll ==
  ASSUME NEW n \in Nat, NEW a, Rises(a, 1 .. n)
  PROVE  Len(a) = n /\ a = [k \in 1 .. n |-> k]
<1>1. PICK m : m = Len(a)
  OBVIOUS
<1>2. m \in Nat /\ DOMAIN a = 1 .. m
  BY <1>1, SeqIs DEF Rises
<1>3. /\ \A i \in 1 .. m : a[i] \in 1 .. n
      /\ \A x \in 1 .. n : \E i \in 1 .. m : a[i] = x
      /\ \A i, j \in 1 .. m : i < j => a[i] < a[j]
  BY <1>2 DEF Rises
<1>4. PICK T : T = {k \in Nat : \A j \in 1 .. k : j <= m => a[j] = j}
  OBVIOUS
<1>5. 0 \in T
  BY <1>4
<1>6. ASSUME NEW k \in T PROVE k + 1 \in T
  <2>1. k \in Nat /\ \A j \in 1 .. k : j <= m => a[j] = j
    BY <1>4
  <2>2. ASSUME k + 1 <= m PROVE a[k + 1] = k + 1
    <3>1. k + 1 \in 1 .. m /\ a[k + 1] \in 1 .. n
      BY <1>2, <1>3, <2>1, <2>2
    <3>2. a[k + 1] > k
      <4>1. CASE k = 0
        BY <3>1, <4>1
      <4>2. CASE k # 0
        <5>1. k \in 1 .. m /\ k < k + 1 /\ a[k] = k
          BY <1>2, <2>1, <2>2, <4>2
        <5>2. a[k] < a[k + 1]
          BY <1>3, <3>1, <5>1
        <5>3. QED
          BY <2>1, <3>1, <5>1, <5>2
      <4>3. QED
        BY <4>1, <4>2
    <3>3. PICK c : c = a[k + 1]
      OBVIOUS
    <3>4. ASSUME c # k + 1 PROVE FALSE
      <4>1. c \in 1 .. n /\ c > k + 1 /\ k + 1 \in 1 .. n
        BY <2>1, <3>1, <3>2, <3>3, <3>4
      <4>2. PICK i \in 1 .. m : a[i] = k + 1
        BY <1>3, <4>1
      <4>3. i # k + 1
        BY <3>3, <3>4, <4>2
      <4>4. CASE i <= k
        <5>1. a[i] = i
          BY <2>1, <4>4
        <5>2. QED
          BY <2>1, <4>2, <4>4, <5>1
      <4>5. CASE i > k + 1
        <5>1. c < a[i]
          BY <1>3, <3>1, <3>3, <4>5
        <5>2. QED
          BY <2>1, <4>1, <4>2, <5>1
      <4>6. QED
        BY <2>1, <4>3, <4>4, <4>5
    <3>5. QED
      BY <3>3, <3>4
  <2>3. \A j \in 1 .. k + 1 : j \in 1 .. k \/ j = k + 1
    BY <2>1
  <2>4. \A j \in 1 .. k + 1 : j <= m => a[j] = j
    BY <2>1, <2>2, <2>3
  <2>5. QED
    BY <1>4, <2>1, <2>4
<1>7. T = Nat
  BY <1>4, <1>5, <1>6, Induction
<1>8. \A j \in 1 .. m : a[j] = j
  <2>1. m \in T
    BY <1>2, <1>7
  <2>2. \A j \in 1 .. m : j <= m => a[j] = j
    BY <1>4, <2>1
  <2>3. QED
    BY <1>2, <2>2
<1>9. m = n
  <2>1. n # 0 => \E i \in 1 .. m : a[i] = n
    BY <1>3
  <2>2. n # 0 => n \in 1 .. m
    BY <1>8, <2>1
  <2>3. m # 0 => m \in 1 .. n
    BY <1>2, <1>3, <1>8
  <2>4. QED
    BY <1>2, <2>2, <2>3
<1>10. a = [k \in DOMAIN a |-> a[k]]
  BY DEF Rises, IsSeq
<1>11. QED
  BY <1>1, <1>2, <1>8, <1>9, <1>10

\* One list more.
FlatTo(f, lists, n) == IF n = 1 THEN lists[n] ELSE f[n - 1] \o lists[n]
IsFlat(f, lists, k) == f = [n \in 1 .. k |-> FlatTo(f, lists, n)]

LEMMA FlatExists ==
  ASSUME NEW lists, NEW k \in Nat
  PROVE  \E f : IsFlat(f, lists, k)
<1>1. PICK T : T = {n \in Nat : \E f : IsFlat(f, lists, n)}
  OBVIOUS
<1>2. 0 \in T
  <2>1. PICK f : f = [n \in 1 .. 0 |-> <<>>]
    OBVIOUS
  <2>2. 1 .. 0 = {}
    OBVIOUS
  <2>3. IsFlat(f, lists, 0)
    BY <2>1, <2>2 DEF IsFlat
  <2>4. QED
    BY <1>1, <2>3
<1>3. ASSUME NEW n \in T PROVE n + 1 \in T
  <2>1. n \in Nat /\ \E f : IsFlat(f, lists, n)
    BY <1>1
  <2>2. PICK f : IsFlat(f, lists, n)
    BY <2>1
  <2>3. PICK g : g = [m \in 1 .. n + 1 |-> IF m = n + 1 THEN FlatTo(f, lists, m) ELSE f[m]]
    OBVIOUS
  <2>4. \A m \in 1 .. n : g[m] = f[m]
    BY <2>1, <2>3
  <2>5. \A m \in 1 .. n : f[m] = FlatTo(f, lists, m)
    BY <2>2 DEF IsFlat
  <2>6. \A m \in 1 .. n + 1 : FlatTo(g, lists, m) = FlatTo(f, lists, m)
    <3>1. ASSUME NEW m \in 1 .. n + 1, m # 1 PROVE g[m - 1] = f[m - 1]
      BY <2>1, <2>4, <3>1
    <3>2. QED
      BY <3>1 DEF FlatTo
  <2>7. \A m \in 1 .. n + 1 : g[m] = FlatTo(g, lists, m)
    <3>1. ASSUME NEW m \in 1 .. n + 1 PROVE g[m] = FlatTo(f, lists, m)
      <4>1. CASE m = n + 1
        BY <2>3, <4>1
      <4>2. CASE m # n + 1
        BY <2>1, <2>3, <2>5, <4>2
      <4>3. QED
        BY <4>1, <4>2
    <3>2. QED
      BY <2>6, <3>1
  <2>8. g = [m \in 1 .. n + 1 |-> FlatTo(g, lists, m)]
    BY <2>3, <2>7
  <2>9. QED
    BY <1>1, <2>1, <2>8 DEF IsFlat
<1>4. T = Nat
  BY <1>1, <1>2, <1>3, Induction
<1>5. QED
  BY <1>1, <1>4

\* Each place of f is a place of one of the first n lists, in their order.
Before(r, c, s, d) == r < s \/ (r = s /\ c < d)

Places(f, lists, n, row, col) ==
  /\ DOMAIN row = DOMAIN f /\ DOMAIN col = DOMAIN f
  /\ \A p \in DOMAIN f :
       row[p] \in 1 .. n /\ col[p] \in DOMAIN lists[row[p]] /\ f[p] = lists[row[p]][col[p]]
  /\ \A p, q \in DOMAIN f : p < q => Before(row[p], col[p], row[q], col[q])
  /\ \A r \in 1 .. n : \A c \in DOMAIN lists[r] : \E p \in DOMAIN f : row[p] = r /\ col[p] = c

Laid(f, lists, n) == IsSeq(f) /\ \E row, col : Places(f, lists, n, row, col)

LEMMA LaidOneMore ==
  ASSUME NEW f, NEW lists, NEW n \in Nat, Laid(f, lists, n), IsSeq(lists[n + 1])
  PROVE  Laid(f \o lists[n + 1], lists, n + 1)
<1>1. PICK row, col : Places(f, lists, n, row, col)
  BY DEF Laid
<1>2. PICK h : h = f \o lists[n + 1]
  OBVIOUS
<1>3. PICK s : s = lists[n + 1]
  OBVIOUS
<1>4. PICK a, b : a = Len(f) /\ b = Len(s)
  OBVIOUS
<1>5. /\ a \in Nat /\ b \in Nat /\ DOMAIN f = 1 .. a /\ DOMAIN s = 1 .. b
  BY <1>3, <1>4, SeqIs DEF Laid
<1>6. /\ IsSeq(h) /\ DOMAIN h = 1 .. a + b
      /\ \A p \in 1 .. a : h[p] = f[p]
      /\ \A c \in 1 .. b : h[a + c] = s[c]
  <2>1. Joined(h, f, s)
    BY <1>2, <1>3, JoinIs DEF Laid
  <2>2. QED
    BY <1>4, <2>1 DEF Joined
<1>7. PICK r : r = [p \in 1 .. a + b |-> IF p <= a THEN row[p] ELSE n + 1]
  OBVIOUS
<1>8. PICK c : c = [p \in 1 .. a + b |-> IF p <= a THEN col[p] ELSE p - a]
  OBVIOUS
<1>9. ASSUME NEW p \in 1 .. a
      PROVE  /\ p \in 1 .. a + b /\ r[p] = row[p] /\ c[p] = col[p] /\ row[p] \in 1 .. n
             /\ col[p] \in DOMAIN lists[row[p]] /\ h[p] = lists[row[p]][col[p]]
  <2>1. p \in 1 .. a + b /\ p <= a /\ p \in DOMAIN f
    BY <1>5
  <2>2. r[p] = row[p] /\ c[p] = col[p]
    BY <1>7, <1>8, <2>1
  <2>3. h[p] = f[p]
    BY <1>6
  <2>4. QED
    BY <1>1, <2>1, <2>2, <2>3 DEF Places
<1>10. ASSUME NEW k \in 1 .. b
       PROVE  a + k \in 1 .. a + b /\ r[a + k] = n + 1 /\ c[a + k] = k /\ h[a + k] = s[k]
  <2>1. a + k \in 1 .. a + b /\ ~ (a + k <= a) /\ (a + k) - a = k
    BY <1>5
  <2>2. r[a + k] = n + 1 /\ c[a + k] = k
    BY <1>7, <1>8, <2>1
  <2>3. QED
    BY <1>6, <2>1, <2>2
<1>11. \A p \in 1 .. a + b : p \in 1 .. a \/ \E k \in 1 .. b : p = a + k
  <2>1. Joined(h, f, s)
    BY <1>2, <1>3, JoinIs DEF Laid
  <2>2. QED
    BY <1>4, <2>1 DEF Joined
<1>12. ASSUME NEW p \in DOMAIN h
       PROVE  r[p] \in 1 .. n + 1 /\ c[p] \in DOMAIN lists[r[p]] /\ h[p] = lists[r[p]][c[p]]
  <2>1. CASE p \in 1 .. a
    <3>1. row[p] \in 1 .. n + 1
      BY <1>9, <2>1
    <3>2. QED
      BY <1>9, <2>1, <3>1
  <2>2. CASE \E k \in 1 .. b : p = a + k
    <3>1. PICK k \in 1 .. b : p = a + k
      BY <2>2
    <3>2. n + 1 \in 1 .. n + 1
      OBVIOUS
    <3>3. QED
      BY <1>3, <1>5, <1>10, <3>1, <3>2
  <2>3. QED
    BY <1>6, <1>11, <2>1, <2>2
<1>13. ASSUME NEW p \in DOMAIN h, NEW q \in DOMAIN h, p < q PROVE Before(r[p], c[p], r[q], c[q])
  <2>1. p \in 1 .. a + b /\ q \in 1 .. a + b
    BY <1>6
  <2>2. CASE q \in 1 .. a
    <3>1. p \in 1 .. a
      BY <1>5, <1>13, <2>1, <2>2
    <3>2. Before(row[p], col[p], row[q], col[q])
      BY <1>1, <1>5, <1>13, <2>2, <3>1 DEF Places
    <3>3. QED
      BY <1>9, <2>2, <3>1, <3>2
  <2>3. CASE \E k \in 1 .. b : q = a + k
    <3>1. PICK k \in 1 .. b : q = a + k
      BY <2>3
    <3>2. r[q] = n + 1 /\ c[q] = k
      BY <1>10, <3>1
    <3>3. CASE p \in 1 .. a
      <4>1. r[p] \in 1 .. n
        BY <1>9, <3>3
      <4>2. r[p] < r[q]
        BY <3>2, <4>1
      <4>3. QED
        BY <4>2 DEF Before
    <3>4. CASE \E j \in 1 .. b : p = a + j
      <4>1. PICK j \in 1 .. b : p = a + j
        BY <3>4
      <4>2. r[p] = n + 1 /\ c[p] = j
        BY <1>10, <4>1
      <4>3. j < k
        BY <1>5, <1>13, <3>1, <4>1
      <4>4. QED
        BY <3>2, <4>2, <4>3 DEF Before
    <3>5. QED
      BY <1>11, <2>1, <3>3, <3>4
  <2>4. QED
    BY <1>11, <2>1, <2>2, <2>3
<1>14. ASSUME NEW i \in 1 .. n + 1, NEW k \in DOMAIN lists[i] PROVE \E p \in DOMAIN h : r[p] = i /\ c[p] = k
  <2>1. CASE i = n + 1
    <3>1. k \in 1 .. b
      BY <1>3, <1>5, <2>1
    <3>2. QED
      BY <1>6, <1>10, <2>1, <3>1
  <2>2. CASE i \in 1 .. n
    <3>1. PICK p \in DOMAIN f : row[p] = i /\ col[p] = k
      BY <1>1, <2>2 DEF Places
    <3>2. QED
      BY <1>5, <1>6, <1>9, <3>1
  <2>3. QED
    BY <2>1, <2>2
<1>15. DOMAIN r = DOMAIN h /\ DOMAIN c = DOMAIN h
  BY <1>6, <1>7, <1>8
<1>16. Places(h, lists, n + 1, r, c)
  BY <1>12, <1>13, <1>14, <1>15 DEF Places
<1>17. QED
  BY <1>2, <1>6, <1>16 DEF Laid

LEMMA FlattenIs ==
  ASSUME NEW lists, IsSeq(lists), \A n \in DOMAIN lists : IsSeq(lists[n])
  PROVE  Laid(FlattenSeq(lists), lists, Len(lists))
<1>1. PICK k : k = Len(lists)
  OBVIOUS
<1>2. k \in Nat /\ DOMAIN lists = 1 .. k
  BY <1>1, SeqIs
<1>3. Laid(<<>>, lists, 0)
  <2>1. DOMAIN <<>> = {} /\ <<>> \in Seq({}) /\ 1 .. 0 = {}
    OBVIOUS
  <2>2. PICK r : r = <<>>
    OBVIOUS
  <2>3. Places(<<>>, lists, 0, r, r)
    BY <2>1, <2>2 DEF Places
  <2>4. QED
    BY <2>1, <2>3 DEF Laid, IsSeq
<1>4. CASE k = 0
  <2>1. FlattenSeq(lists) = lists
    BY <1>1, <1>4 DEF FlattenSeq
  <2>2. lists = <<>>
    <3>1. PICK S : lists \in Seq(S)
      BY DEF IsSeq
    <3>2. QED
      BY <1>1, <1>4, <3>1, EmptySeq
  <2>3. QED
    BY <1>1, <1>3, <1>4, <2>1, <2>2
<1>5. CASE k # 0
  <2>1. PICK f : f = CHOOSE h : IsFlat(h, lists, k)
    OBVIOUS
  <2>2. FlattenSeq(lists) = f[k]
    <3>1. FlattenSeq(lists) = (CHOOSE h : IsFlat(h, lists, Len(lists)))[Len(lists)]
      BY <1>1, <1>5 DEF FlattenSeq, IsFlat, FlatTo
    <3>2. QED
      BY <1>1, <2>1, <3>1
  <2>3. IsFlat(f, lists, k)
    BY <1>2, <2>1, FlatExists
  <2>4. \A n \in 1 .. k : f[n] = FlatTo(f, lists, n)
    BY <2>3 DEF IsFlat
  <2>5. PICK T : T = {n \in Nat : n + 1 <= k => Laid(f[n + 1], lists, n + 1)}
    OBVIOUS
  <2>6. 0 \in T
    <3>1. 1 \in 1 .. k
      BY <1>2, <1>5
    <3>2. f[1] = lists[1]
      BY <2>4, <3>1 DEF FlatTo
    <3>3. IsSeq(lists[1]) /\ 0 \in Nat /\ 0 + 1 = 1
      BY <1>2, <3>1
    <3>4. Laid(<<>> \o lists[1], lists, 1)
      <4>1. PICK z : z = 0
        OBVIOUS
      <4>2. z \in Nat /\ z + 1 = 1 /\ Laid(<<>>, lists, z) /\ IsSeq(lists[z + 1])
        BY <1>3, <3>3, <4>1
      <4>3. Laid(<<>> \o lists[z + 1], lists, z + 1)
        BY <4>2, LaidOneMore
      <4>4. QED
        BY <4>2, <4>3
    <3>5. <<>> \o lists[1] = lists[1]
      BY <3>3, ConcatEmptySeq DEF IsSeq
    <3>6. Laid(f[0 + 1], lists, 0 + 1)
      BY <3>2, <3>3, <3>4, <3>5
    <3>7. QED
      BY <2>5, <3>6
  <2>7. ASSUME NEW n \in T PROVE n + 1 \in T
    <3>1. n \in Nat /\ (n + 1 <= k => Laid(f[n + 1], lists, n + 1))
      BY <2>5
    <3>2. ASSUME (n + 1) + 1 <= k PROVE Laid(f[(n + 1) + 1], lists, (n + 1) + 1)
      <4>1. (n + 1) + 1 \in 1 .. k /\ (n + 1) + 1 # 1 /\ ((n + 1) + 1) - 1 = n + 1 /\ n + 1 <= k /\ n + 1 \in Nat
        BY <1>2, <3>1, <3>2
      <4>2. f[(n + 1) + 1] = f[n + 1] \o lists[(n + 1) + 1]
        BY <2>4, <4>1 DEF FlatTo
      <4>3. Laid(f[n + 1], lists, n + 1) /\ IsSeq(lists[(n + 1) + 1])
        BY <1>2, <3>1, <4>1
      <4>4. QED
        BY <4>1, <4>2, <4>3, LaidOneMore
    <3>3. n + 1 \in Nat
      BY <3>1
    <3>4. QED
      BY <2>5, <3>2, <3>3
  <2>8. T = Nat
    BY <2>5, <2>6, <2>7, Induction
  <2>9. k - 1 \in T /\ (k - 1) + 1 = k
    BY <1>2, <1>5, <2>8
  <2>10. Laid(f[k], lists, k)
    BY <2>5, <2>9
  <2>11. QED
    BY <1>1, <2>2, <2>10
<1>6. QED
  BY <1>4, <1>5
-----------------------------------------------------------------------------
(* Numbers as a reader meets them.                                         *)

\* Before each number come all that are smaller; none up to n is left out.
InTurn(met, n) ==
  /\ IsSeq(met)
  /\ \A p \in DOMAIN met : met[p] \in 1 .. n
  /\ \A x \in 1 .. n : \E p \in DOMAIN met : met[p] = x
  /\ \A p \in DOMAIN met : \A u \in 1 .. n : u < met[p] => \E q \in DOMAIN met : q < p /\ met[q] = u

LEMMA InTurnCounts ==
  ASSUME NEW n \in Nat, NEW met, InTurn(met, n)
  PROVE  Evidence!Distinct(met) = [k \in 1 .. n |-> k]
<1>1. PICK a : a = Evidence!Distinct(met)
  OBVIOUS
<1>2. PICK P : P = {k \in DOMAIN met : ~Earlier(met, k)}
  OBVIOUS
<1>3. Drawn(a, met, P)
  BY <1>1, <1>2, DistinctIs DEF InTurn
<1>4. PICK g : Rises(g, P) /\ DOMAIN g = DOMAIN a /\ \A k \in DOMAIN a : a[k] = met[g[k]]
  BY <1>3 DEF Drawn
<1>5. DOMAIN met = 1 .. Len(met) /\ Len(met) \in Nat
  BY SeqIs DEF InTurn
<1>6. \A i \in DOMAIN a : g[i] \in P /\ g[i] \in DOMAIN met
  BY <1>2, <1>4 DEF Rises
<1>7. \A i \in DOMAIN a : a[i] \in 1 .. n
  BY <1>4, <1>6 DEF InTurn
<1>8. ASSUME NEW x \in 1 .. n PROVE \E i \in DOMAIN a : a[i] = x
  <2>1. PICK p \in DOMAIN met : met[p] = x
    BY DEF InTurn
  <2>2. PICK m \in DOMAIN met : met[m] = met[p] /\ ~Earlier(met, m)
    BY <2>1, FirstPlace DEF InTurn
  <2>3. m \in P
    BY <1>2, <2>2
  <2>4. PICK i \in DOMAIN g : g[i] = m
    BY <1>4, <2>3 DEF Rises
  <2>5. QED
    BY <1>4, <2>1, <2>2, <2>4
<1>9. ASSUME NEW i \in DOMAIN a, NEW j \in DOMAIN a, i < j PROVE a[i] < a[j]
  <2>1. PICK v, w : v = g[i] /\ w = g[j]
    OBVIOUS
  <2>2. v \in DOMAIN met /\ w \in DOMAIN met /\ v < w /\ a[i] = met[v] /\ a[j] = met[w]
    BY <1>4, <1>6, <1>9, <2>1 DEF Rises
  <2>3. ASSUME NEW q \in DOMAIN met, q < w PROVE met[q] # met[w]
    <3>1. q \in 1 .. w - 1
      BY <1>5, <2>2, <2>3
    <3>2. ~Earlier(met, w)
      BY <1>2, <1>6, <2>1
    <3>3. QED
      BY <3>1, <3>2 DEF Earlier
  <2>4. met[v] # met[w]
    BY <2>2, <2>3
  <2>5. ~ (met[w] < met[v])
    <3>1. ASSUME met[w] < met[v] PROVE FALSE
      <4>1. PICK q \in DOMAIN met : q < v /\ met[q] = met[w]
        BY <2>2, <3>1 DEF InTurn
      <4>2. q < w
        BY <1>5, <2>2, <4>1
      <4>3. QED
        BY <2>3, <4>1, <4>2
    <3>2. QED
      BY <3>1
  <2>6. met[v] \in Nat /\ met[w] \in Nat
    BY <2>2 DEF InTurn
  <2>7. QED
    BY <2>2, <2>4, <2>5, <2>6
<1>10. Rises(a, 1 .. n)
  BY <1>3, <1>7, <1>8, <1>9 DEF Rises, Drawn
<1>11. QED
  BY <1>1, <1>10, RisesAll

\* An index has every element of a list once, in the order of first use.
Indexes(index, ids) ==
  /\ IsSeq(index)
  /\ \A i, j \in DOMAIN index : i # j => index[i] # index[j]
  /\ \A i \in DOMAIN index : \E p \in DOMAIN ids : ids[p] = index[i]
  /\ \A p \in DOMAIN ids : \E i \in DOMAIN index : index[i] = ids[p]
  /\ \A u, v \in DOMAIN index : \A p \in DOMAIN ids :
       u < v /\ ids[p] = index[v] => \E q \in DOMAIN ids : q < p /\ ids[q] = index[u]

LEMMA DistinctIndexes ==
  ASSUME NEW ids, IsSeq(ids)
  PROVE  Indexes(Evidence!Distinct(ids), ids)
<1>1. PICK a : a = Evidence!Distinct(ids)
  OBVIOUS
<1>2. PICK P : P = {k \in DOMAIN ids : ~Earlier(ids, k)}
  OBVIOUS
<1>3. Drawn(a, ids, P)
  BY <1>1, <1>2, DistinctIs
<1>4. PICK g : Rises(g, P) /\ DOMAIN g = DOMAIN a /\ \A k \in DOMAIN a : a[k] = ids[g[k]]
  BY <1>3 DEF Drawn
<1>5. DOMAIN ids = 1 .. Len(ids) /\ Len(ids) \in Nat
  BY SeqIs
<1>6. \A i \in DOMAIN a : g[i] \in P /\ g[i] \in DOMAIN ids /\ a[i] = ids[g[i]]
  BY <1>2, <1>4 DEF Rises
<1>7. ASSUME NEW v \in DOMAIN a, NEW q \in DOMAIN ids, q < g[v] PROVE ids[q] # a[v]
  <2>1. PICK w : w = g[v]
    OBVIOUS
  <2>2. w \in DOMAIN ids /\ ~Earlier(ids, w) /\ a[v] = ids[w]
    BY <1>2, <1>6, <2>1
  <2>3. q \in 1 .. w - 1
    BY <1>5, <1>7, <2>1, <2>2
  <2>4. QED
    BY <2>2, <2>3 DEF Earlier
<1>8. ASSUME NEW u \in DOMAIN a, NEW v \in DOMAIN a, u < v PROVE g[u] < g[v] /\ a[u] # a[v]
  <2>1. g[u] < g[v]
    BY <1>4, <1>8 DEF Rises
  <2>2. QED
    BY <1>6, <1>7, <2>1
<1>9. ASSUME NEW i \in DOMAIN a, NEW j \in DOMAIN a, i # j PROVE a[i] # a[j]
  <2>1. i \in Nat /\ j \in Nat
    BY <1>3, SeqIs DEF Drawn
  <2>2. i < j \/ j < i
    BY <1>9, <2>1
  <2>3. QED
    BY <1>8, <2>2
<1>10. ASSUME NEW p \in DOMAIN ids PROVE \E i \in DOMAIN a : a[i] = ids[p]
  <2>1. PICK m \in DOMAIN ids : ids[m] = ids[p] /\ ~Earlier(ids, m)
    BY FirstPlace
  <2>2. m \in P
    BY <1>2, <2>1
  <2>3. PICK i \in DOMAIN g : g[i] = m
    BY <1>4, <2>2 DEF Rises
  <2>4. QED
    BY <1>4, <2>1, <2>3
<1>11. ASSUME NEW u \in DOMAIN a, NEW v \in DOMAIN a, NEW p \in DOMAIN ids, u < v, ids[p] = a[v]
       PROVE  \E q \in DOMAIN ids : q < p /\ ids[q] = a[u]
  <2>1. g[u] < g[v] /\ g[u] \in DOMAIN ids /\ g[v] \in DOMAIN ids /\ ids[g[u]] = a[u]
    BY <1>6, <1>8, <1>11
  <2>2. ~ (p < g[v])
    BY <1>7, <1>11
  <2>3. PICK b, c : b = g[u] /\ c = g[v]
    OBVIOUS
  <2>4. b < p
    BY <1>5, <2>1, <2>2, <2>3
  <2>5. QED
    BY <2>1, <2>3, <2>4
<1>12. \A i \in DOMAIN a : \E p \in DOMAIN ids : ids[p] = a[i]
  BY <1>6
<1>13. QED
  BY <1>1, <1>3, <1>9, <1>10, <1>11, <1>12 DEF Indexes, Drawn

\* An index of a list with no element twice is as long.
LEMMA IndexLength ==
  ASSUME NEW index, NEW ids, NEW own, IsSeq(own), Indexes(index, ids),
         \A i, j \in DOMAIN own : i # j => own[i] # own[j],
         \A i \in DOMAIN own : \E p \in DOMAIN ids : ids[p] = own[i],
         \A p \in DOMAIN ids : \E i \in DOMAIN own : own[i] = ids[p]
  PROVE  Len(index) = Len(own)
<1>1. PICK m, n : m = Len(index) /\ n = Len(own)
  OBVIOUS
<1>2. m \in Nat /\ n \in Nat /\ DOMAIN index = 1 .. m /\ DOMAIN own = 1 .. n
  BY <1>1, SeqIs DEF Indexes
<1>3. PICK A, B : A = 1 .. m /\ B = 1 .. n
  OBVIOUS
<1>4. IsFiniteSet(A) /\ IsFiniteSet(B) /\ Cardinality(A) = m /\ Cardinality(B) = n
  <2>1. 1 \in Int /\ m \in Int /\ n \in Int
    BY <1>2
  <2>2. /\ IsFiniteSet(1 .. m) /\ Cardinality(1 .. m) = IF 1 > m THEN 0 ELSE m - 1 + 1
        /\ IsFiniteSet(1 .. n) /\ Cardinality(1 .. n) = IF 1 > n THEN 0 ELSE n - 1 + 1
    BY <2>1, FS_Interval
  <2>3. QED
    BY <1>2, <1>3, <2>2
<1>5. ASSUME NEW i \in A PROVE \E j \in B : own[j] = index[i]
  <2>1. PICK p \in DOMAIN ids : ids[p] = index[i]
    BY <1>2, <1>3 DEF Indexes
  <2>2. QED
    BY <1>2, <1>3, <2>1
<1>6. \A j \in B : \E i \in A : own[j] = index[i]
  BY <1>2, <1>3 DEF Indexes
<1>7. PICK f : f = [i \in A |-> CHOOSE j \in B : own[j] = index[i]]
  OBVIOUS
<1>8. \A i \in A : f[i] \in B /\ own[f[i]] = index[i]
  BY <1>5, <1>7
<1>9. f \in [A -> B]
  BY <1>7, <1>8
<1>10. \A i, j \in A : f[i] = f[j] => i = j
  BY <1>2, <1>3, <1>8 DEF Indexes
<1>11. ASSUME NEW j \in B PROVE \E i \in A : f[i] = j
  <2>1. PICK i \in A : own[j] = index[i]
    BY <1>6
  <2>2. own[f[i]] = own[j] /\ f[i] \in B
    BY <1>8, <2>1
  <2>3. QED
    BY <1>2, <1>3, <2>2
<1>12. f \in Bijection(A, B)
  BY <1>9, <1>10, <1>11 DEF Bijection, Injection, IsInjective, Surjection
<1>13. Cardinality(A) = Cardinality(B)
  BY <1>4, <1>12, FS_Bijection DEF ExistsBijection
<1>14. QED
  BY <1>1, <1>4, <1>13

LEMMA NumberIs ==
  ASSUME NEW index, NEW ids, Indexes(index, ids), NEW x, \E p \in DOMAIN ids : ids[p] = x
  PROVE  Evidence!Number(index, x) \in DOMAIN index /\ index[Evidence!Number(index, x)] = x
<1>1. PICK S : S = {k \in 1 .. Len(index) : index[k] = x}
  OBVIOUS
<1>2. IsSeq(index) /\ DOMAIN index = 1 .. Len(index)
  BY SeqIs DEF Indexes
<1>3. S # {} /\ S \subseteq DOMAIN index
  <2>1. PICK i \in DOMAIN index : index[i] = x
    BY DEF Indexes
  <2>2. QED
    BY <1>1, <1>2, <2>1
<1>4. Evidence!Number(index, x) = IF S # {} THEN Min(S) ELSE 0
  BY <1>1 DEF Evidence!Number, Evidence!SelectInSeq, Evidence!Min, Min
<1>5. Evidence!Number(index, x) \in S
  BY <1>2, <1>3, <1>4, PlaceIs
<1>6. QED
  BY <1>1, <1>2, <1>5

\* The citations of the first n findings, and their marks.
Numbers(index, cited) == {Evidence!Number(index, cited[c].id) : c \in DOMAIN cited}

LEMMA NumbersIs ==
  ASSUME NEW index, NEW ids, Indexes(index, ids), NEW cited, NEW v,
         \A c \in DOMAIN cited : \E p \in DOMAIN ids : ids[p] = cited[c].id
  PROVE  v \in Numbers(index, cited) <=> v \in DOMAIN index /\ \E c \in DOMAIN cited : cited[c].id = index[v]
<1>1. ASSUME NEW c \in DOMAIN cited
      PROVE  /\ Evidence!Number(index, cited[c].id) \in DOMAIN index
             /\ index[Evidence!Number(index, cited[c].id)] = cited[c].id
  <2>1. PICK x : x = cited[c].id
    OBVIOUS
  <2>2. \E p \in DOMAIN ids : ids[p] = x
    BY <2>1
  <2>3. QED
    BY <2>1, <2>2, NumberIs
<1>2. ASSUME v \in Numbers(index, cited)
      PROVE  v \in DOMAIN index /\ \E c \in DOMAIN cited : cited[c].id = index[v]
  BY <1>1, <1>2 DEF Numbers
<1>3. ASSUME v \in DOMAIN index, NEW c \in DOMAIN cited, cited[c].id = index[v]
      PROVE  v \in Numbers(index, cited)
  <2>1. Evidence!Number(index, cited[c].id) = v
    BY <1>1, <1>3 DEF Indexes
  <2>2. QED
    BY <2>1 DEF Numbers
<1>4. QED
  BY <1>2, <1>3

\* A report: the lists of citations of its findings, one after the other in f,
\* then all citations; and the lists of marks, one after the other in h.
Report(index, ids, cites, n, f, marks, h) ==
  /\ n \in Nat /\ IsSeq(ids) /\ Indexes(index, ids)
  /\ Laid(f, cites, n) /\ Laid(h, marks, n)
  /\ DOMAIN f \subseteq DOMAIN ids
  /\ \A p \in DOMAIN f : ids[p] = f[p].id
  /\ \A p \in DOMAIN ids : p \notin DOMAIN f => \A q \in DOMAIN f : q < p
  /\ \A r \in 1 .. n : Rises(marks[r], Numbers(index, cites[r]))

LEMMA MarkBefore ==
  ASSUME NEW index, NEW ids, NEW cites, NEW n, NEW f, NEW marks, NEW h,
         Report(index, ids, cites, n, f, marks, h),
         NEW p \in DOMAIN h
  PROVE  /\ h[p] \in DOMAIN index
         /\ \A u \in DOMAIN index : u < h[p] => \E q \in DOMAIN h : q < p /\ h[q] = u
<1>1. PICK row, col : Places(f, cites, n, row, col)
  BY DEF Report, Laid
<1>2. PICK line, at : Places(h, marks, n, line, at)
  BY DEF Report, Laid
<1>3. PICK r, c, v : r = line[p] /\ c = at[p] /\ v = h[p]
  OBVIOUS
<1>4. r \in 1 .. n /\ c \in DOMAIN marks[r] /\ v = marks[r][c]
  BY <1>2, <1>3 DEF Places
<1>5. ASSUME NEW s \in 1 .. n, NEW d \in DOMAIN cites[s]
      PROVE  \E k \in DOMAIN f : row[k] = s /\ col[k] = d /\ k \in DOMAIN ids /\ ids[k] = cites[s][d].id
  <2>1. PICK k \in DOMAIN f : row[k] = s /\ col[k] = d
    BY <1>1 DEF Places
  <2>2. f[k] = cites[s][d] /\ ids[k] = f[k].id /\ k \in DOMAIN ids
    BY <1>1, <2>1 DEF Places, Report
  <2>3. QED
    BY <2>1, <2>2
<1>6. ASSUME NEW s \in 1 .. n, NEW w
      PROVE  w \in Numbers(index, cites[s]) <=> w \in DOMAIN index /\ \E d \in DOMAIN cites[s] : cites[s][d].id = index[w]
  <2>1. PICK cited : cited = cites[s]
    OBVIOUS
  <2>2. \A d \in DOMAIN cited : \E k \in DOMAIN ids : ids[k] = cited[d].id
    BY <1>5, <2>1
  <2>3. Indexes(index, ids)
    BY DEF Report
  <2>4. QED
    BY <2>1, <2>2, <2>3, NumbersIs
<1>7. ASSUME NEW s \in 1 .. n PROVE Rises(marks[s], Numbers(index, cites[s]))
  BY DEF Report
<1>8. v \in Numbers(index, cites[r])
  BY <1>4, <1>7 DEF Rises
<1>9. v \in DOMAIN index
  BY <1>4, <1>6, <1>8
<1>10. PICK d \in DOMAIN cites[r] : cites[r][d].id = index[v]
  BY <1>4, <1>6, <1>8
<1>11. ASSUME NEW u \in DOMAIN index, u < v PROVE \E q \in DOMAIN h : q < p /\ h[q] = u
  <2>1. PICK k \in DOMAIN f : row[k] = r /\ k \in DOMAIN ids /\ ids[k] = index[v]
    <3>1. PICK k \in DOMAIN f : row[k] = r /\ col[k] = d /\ k \in DOMAIN ids /\ ids[k] = cites[r][d].id
      BY <1>4, <1>5
    <3>2. QED
      BY <1>10, <3>1
  <2>2. PICK j \in DOMAIN ids : j < k /\ ids[j] = index[u]
    BY <1>9, <1>11, <2>1 DEF Report, Indexes
  <2>3. /\ DOMAIN f = 1 .. Len(f) /\ Len(f) \in Nat /\ DOMAIN h = 1 .. Len(h) /\ Len(h) \in Nat
    <3>1. IsSeq(f) /\ IsSeq(h)
      BY DEF Report, Laid
    <3>2. QED
      BY <3>1, SeqIs
  <2>4. j \in DOMAIN f
    <3>1. ASSUME j \notin DOMAIN f PROVE FALSE
      <4>1. k < j
        BY <2>1, <2>2, <3>1 DEF Report
      <4>2. k \in Nat /\ j \in Nat
        BY <2>1, <2>2, SeqIs DEF Report
      <4>3. QED
        BY <2>2, <4>1, <4>2
    <3>2. QED
      BY <3>1
  <2>5. PICK s, e : s = row[j] /\ e = col[j]
    OBVIOUS
  <2>6. /\ s \in 1 .. n /\ e \in DOMAIN cites[s] /\ cites[s][e].id = index[u]
    BY <1>1, <2>2, <2>4, <2>5 DEF Places, Report
  <2>7. Before(s, e, r, col[k])
    BY <1>1, <2>1, <2>2, <2>4, <2>5 DEF Places
  <2>8. s < r \/ s = r
    BY <2>7 DEF Before
  <2>9. u \in Numbers(index, cites[s])
    BY <1>6, <2>6
  <2>10. PICK b \in DOMAIN marks[s] : marks[s][b] = u
    BY <1>7, <2>6, <2>9 DEF Rises
  <2>11. PICK q \in DOMAIN h : line[q] = s /\ at[q] = b
    BY <1>2, <2>6, <2>10 DEF Places
  <2>12. h[q] = u
    BY <1>2, <2>10, <2>11 DEF Places
  <2>13. ~ (p < q)
    <3>1. ASSUME p < q PROVE FALSE
      <4>1. Before(r, c, s, b)
        BY <1>2, <1>3, <2>11, <3>1 DEF Places
      <4>2. s = r /\ c < b
        BY <1>4, <2>6, <2>8, <4>1 DEF Before
      <4>3. v < u
        BY <1>4, <1>7, <2>10, <4>2 DEF Rises
      <4>4. u \in Nat /\ v \in Nat
        <5>1. DOMAIN index = 1 .. Len(index) /\ Len(index) \in Nat
          BY SeqIs DEF Report, Indexes
        <5>2. QED
          BY <1>9, <5>1
      <4>5. QED
        BY <1>11, <4>3, <4>4
    <3>2. QED
      BY <3>1
  <2>14. q # p
    <3>1. u # v
      <4>1. DOMAIN index = 1 .. Len(index) /\ Len(index) \in Nat
        BY SeqIs DEF Report, Indexes
      <4>2. QED
        BY <1>9, <1>11, <4>1
    <3>2. QED
      BY <1>3, <2>12, <3>1
  <2>15. q < p
    BY <2>3, <2>13, <2>14
  <2>16. QED
    BY <2>12, <2>15
<1>12. QED
  BY <1>3, <1>9, <1>11

\* However the findings share their citations, the marks and then the notes are
\* numbered as they are met.
LEMMA ReportInTurn ==
  ASSUME NEW index, NEW ids, NEW cites, NEW n, NEW f, NEW marks, NEW h,
         Report(index, ids, cites, n, f, marks, h),
         NEW count, count = [k \in 1 .. Len(index) |-> k]
  PROVE  InTurn(h \o count, Len(index))
<1>1. PICK m, a : m = Len(index) /\ a = Len(h)
  OBVIOUS
<1>2. IsSeq(h) /\ IsSeq(index)
  BY DEF Report, Laid, Indexes
<1>3. m \in Nat /\ a \in Nat /\ DOMAIN h = 1 .. a /\ DOMAIN index = 1 .. m
  BY <1>1, <1>2, SeqIs
<1>4. PICK met : met = h \o count
  OBVIOUS
<1>5. IsSeq(count) /\ Len(count) = m /\ \A k \in 1 .. m : count[k] = k
  <2>1. DOMAIN count = 1 .. m /\ count = [k \in 1 .. m |-> count[k]] /\ \A k \in 1 .. m : count[k] = k
    BY <1>1
  <2>2. QED
    BY <1>3, <2>1, SeqOfIs
<1>6. /\ IsSeq(met) /\ DOMAIN met = 1 .. a + m
      /\ \A p \in 1 .. a : met[p] = h[p]
      /\ \A k \in 1 .. m : met[a + k] = k
      /\ \A p \in 1 .. a + m : p \in 1 .. a \/ \E k \in 1 .. m : p = a + k
  <2>1. Joined(met, h, count)
    BY <1>2, <1>4, <1>5, JoinIs
  <2>2. QED
    BY <1>1, <1>5, <2>1 DEF Joined
<1>7. \A k \in 1 .. m : a + k \in 1 .. a + m
  BY <1>3
<1>8. ASSUME NEW p \in 1 .. a
      PROVE  h[p] \in 1 .. m /\ \A u \in 1 .. m : u < h[p] => \E q \in 1 .. a : q < p /\ h[q] = u
  <2>1. p \in DOMAIN h
    BY <1>3
  <2>2. /\ h[p] \in DOMAIN index
        /\ \A u \in DOMAIN index : u < h[p] => \E q \in DOMAIN h : q < p /\ h[q] = u
    BY <2>1, MarkBefore
  <2>3. QED
    BY <1>3, <2>2
<1>9. ASSUME NEW p \in DOMAIN met
      PROVE  met[p] \in 1 .. m /\ \A u \in 1 .. m : u < met[p] => \E q \in DOMAIN met : q < p /\ met[q] = u
  <2>1. p \in 1 .. a + m
    BY <1>6
  <2>2. CASE p \in 1 .. a
    <3>1. met[p] = h[p] /\ \A q \in 1 .. a : q \in DOMAIN met /\ met[q] = h[q]
      BY <1>3, <1>6, <2>2
    <3>2. QED
      BY <1>8, <2>2, <3>1
  <2>3. CASE \E k \in 1 .. m : p = a + k
    <3>1. PICK k \in 1 .. m : p = a + k
      BY <2>3
    <3>2. met[p] = k
      BY <1>6, <3>1
    <3>3. ASSUME NEW u \in 1 .. m, u < met[p] PROVE \E q \in DOMAIN met : q < p /\ met[q] = u
      <4>1. a + u \in DOMAIN met /\ met[a + u] = u
        BY <1>6, <1>7
      <4>2. a + u < p
        BY <1>3, <3>1, <3>2, <3>3
      <4>3. QED
        BY <4>1, <4>2
    <3>4. QED
      BY <3>2, <3>3
  <2>4. QED
    BY <1>6, <2>1, <2>2, <2>3
<1>10. ASSUME NEW x \in 1 .. m PROVE \E p \in DOMAIN met : met[p] = x
  BY <1>6, <1>7
<1>11. InTurn(met, m)
  BY <1>6, <1>9, <1>10 DEF InTurn
<1>12. QED
  BY <1>1, <1>4, <1>11
-----------------------------------------------------------------------------
(* The graph and its report.                                               *)

\* Citations have ids of their own, and what supports an insight is one of them.
GraphOK(g) ==
  /\ IsSeq(g.citations) /\ IsSeq(g.insights)
  /\ \A i, j \in DOMAIN g.citations : i # j => g.citations[i].id # g.citations[j].id
  /\ \A n \in DOMAIN g.insights :
       /\ IsSeq(g.insights[n].evidence)
       /\ \A c \in DOMAIN g.insights[n].evidence :
            \E k \in DOMAIN g.citations : g.citations[k] = g.insights[n].evidence[c]

Among(q, list) == IsSeq(q) /\ \A k \in DOMAIN q : \E n \in DOMAIN list : q[k] = list[n]

LEMMA AtAmong ==
  ASSUME NEW list, IsSeq(list), NEW P, P \subseteq DOMAIN list
  PROVE  Among(Evidence!At(list, P), list)
<1>1. PICK r : r = Evidence!At(list, P)
  OBVIOUS
<1>2. Drawn(r, list, P)
  BY <1>1, AtIs
<1>3. PICK g : Rises(g, P) /\ DOMAIN g = DOMAIN r /\ \A k \in DOMAIN r : r[k] = list[g[k]]
  BY <1>2 DEF Drawn
<1>4. \A k \in DOMAIN r : g[k] \in DOMAIN list
  BY <1>3 DEF Rises
<1>5. Among(r, list)
  BY <1>2, <1>3, <1>4 DEF Among, Drawn
<1>6. QED
  BY <1>1, <1>5

LEMMA SameFlatten == \A lists : Evidence!FlattenSeq(lists) = FlattenSeq(lists)
BY DEF FlattenSeq, Evidence!FlattenSeq

LEMMA ThemesAmong ==
  ASSUME NEW g, IsSeq(g.insights)
  PROVE  Among(Evidence!Themes(g), g.insights)
<1>1. PICK P : P = {n \in DOMAIN g.insights : g.insights[n].kind = "theme"}
  OBVIOUS
<1>2. Evidence!Themes(g) = Evidence!At(g.insights, P)
  BY <1>1 DEF Evidence!Themes, Evidence!Kept
<1>3. P \subseteq DOMAIN g.insights
  BY <1>1
<1>4. PICK list : list = g.insights
  OBVIOUS
<1>5. Among(Evidence!At(list, P), list)
  BY <1>3, <1>4, AtAmong
<1>6. QED
  BY <1>2, <1>4, <1>5

LEMMA FindingsAmong ==
  ASSUME NEW g, IsSeq(g.insights)
  PROVE  Among(Evidence!ReportInsights(g), g.insights)
<1>1. PICK list : list = g.insights
  OBVIOUS
<1>2. PICK kinds : kinds = Evidence!Ranked
  OBVIOUS
<1>3. DOMAIN kinds = 1 .. 4
  BY <1>2 DEF Evidence!Ranked
<1>4. PICK kept : kept = [r \in DOMAIN kinds |-> Evidence!At(list, {n \in DOMAIN list : list[n].kind = kinds[r]})]
  OBVIOUS
<1>5. Evidence!ReportInsights(g) = Evidence!FlattenSeq(kept)
  BY <1>1, <1>2, <1>4 DEF Evidence!ReportInsights, Evidence!Kept
<1>6. ASSUME NEW r \in 1 .. 4 PROVE Among(kept[r], list)
  <2>1. PICK P : P = {n \in DOMAIN list : list[n].kind = kinds[r]}
    OBVIOUS
  <2>2. P \subseteq DOMAIN list /\ IsSeq(list)
    BY <1>1, <2>1
  <2>3. kept[r] = Evidence!At(list, P)
    BY <1>3, <1>4, <2>1
  <2>4. QED
    BY <2>2, <2>3, AtAmong
<1>7. IsSeq(kept) /\ Len(kept) = 4
  <2>1. DOMAIN kept = 1 .. 4 /\ kept = [r \in 1 .. 4 |-> kept[r]]
    BY <1>3, <1>4
  <2>2. 4 \in Nat
    OBVIOUS
  <2>3. QED
    BY <2>1, <2>2, SeqOfIs
<1>8. DOMAIN kept = 1 .. 4
  BY <1>3, <1>4
<1>9. PICK f : f = FlattenSeq(kept)
  OBVIOUS
<1>10. Laid(f, kept, 4)
  <2>1. \A r \in DOMAIN kept : IsSeq(kept[r])
    BY <1>6, <1>8 DEF Among
  <2>2. QED
    BY <1>7, <1>9, <2>1, FlattenIs
<1>11. PICK row, col : Places(f, kept, 4, row, col)
  BY <1>10 DEF Laid
<1>12. ASSUME NEW p \in DOMAIN f PROVE \E n \in DOMAIN list : f[p] = list[n]
  <2>1. row[p] \in 1 .. 4 /\ col[p] \in DOMAIN kept[row[p]] /\ f[p] = kept[row[p]][col[p]]
    BY <1>11 DEF Places
  <2>2. PICK r, c : r = row[p] /\ c = col[p]
    OBVIOUS
  <2>3. Among(kept[r], list)
    BY <1>6, <2>1, <2>2
  <2>4. QED
    BY <2>1, <2>2, <2>3 DEF Among
<1>13. Among(f, list)
  BY <1>10, <1>12 DEF Among, Laid
<1>14. QED
  BY <1>1, <1>5, <1>9, <1>13, SameFlatten

LEMMA JoinAmong ==
  ASSUME NEW q, NEW r, NEW list, Among(q, list), Among(r, list)
  PROVE  Among(q \o r, list)
<1>1. PICK a, b, h : a = Len(q) /\ b = Len(r) /\ h = q \o r
  OBVIOUS
<1>2. IsSeq(q) /\ IsSeq(r)
  BY DEF Among
<1>3. DOMAIN q = 1 .. a /\ DOMAIN r = 1 .. b
  BY <1>1, <1>2, SeqIs
<1>4. /\ IsSeq(h) /\ DOMAIN h = 1 .. a + b
      /\ \A p \in 1 .. a : h[p] = q[p]
      /\ \A c \in 1 .. b : h[a + c] = r[c]
      /\ \A p \in 1 .. a + b : p \in 1 .. a \/ \E k \in 1 .. b : p = a + k
  <2>1. Joined(h, q, r)
    BY <1>1, <1>2, JoinIs
  <2>2. QED
    BY <1>1, <2>1 DEF Joined
<1>5. ASSUME NEW p \in DOMAIN h PROVE \E n \in DOMAIN list : h[p] = list[n]
  <2>1. CASE p \in 1 .. a
    BY <1>3, <1>4, <2>1 DEF Among
  <2>2. CASE \E k \in 1 .. b : p = a + k
    BY <1>3, <1>4, <2>2 DEF Among
  <2>3. QED
    BY <1>4, <2>1, <2>2
<1>6. Among(h, list)
  BY <1>4, <1>5 DEF Among
<1>7. QED
  BY <1>1, <1>6

\* Marking two lists of findings marks what they make together.
LEMMA MarkedJoin ==
  ASSUME NEW index, NEW q, NEW r, IsSeq(q), IsSeq(r)
  PROVE  Evidence!Marked(index, q) \o Evidence!Marked(index, r) = Evidence!Marked(index, q \o r)
<1>1. PICK a, b, h : a = Len(q) /\ b = Len(r) /\ h = q \o r
  OBVIOUS
<1>2. DOMAIN q = 1 .. a /\ DOMAIN r = 1 .. b /\ a \in Nat /\ b \in Nat
  BY <1>1, SeqIs
<1>3. /\ IsSeq(h) /\ DOMAIN h = 1 .. a + b
      /\ \A p \in 1 .. a : h[p] = q[p]
      /\ \A c \in 1 .. b : h[a + c] = r[c]
      /\ \A p \in 1 .. a + b : p \in 1 .. a \/ \E k \in 1 .. b : p = a + k
  <2>1. Joined(h, q, r)
    BY <1>1, JoinIs
  <2>2. QED
    BY <1>1, <2>1 DEF Joined
<1>4. PICK u, v, w : u = Evidence!Marked(index, q) /\ v = Evidence!Marked(index, r) /\ w = Evidence!Marked(index, h)
  OBVIOUS
<1>5. PICK z : z = u \o v
  OBVIOUS
<1>6. DOMAIN u = 1 .. a /\ DOMAIN v = 1 .. b /\ DOMAIN w = 1 .. a + b
  BY <1>2, <1>3, <1>4 DEF Evidence!Marked
<1>7. u = [p \in 1 .. a |-> u[p]] /\ v = [p \in 1 .. b |-> v[p]] /\ w = [p \in 1 .. a + b |-> w[p]]
  BY <1>2, <1>3, <1>4 DEF Evidence!Marked
<1>8. IsSeq(u) /\ IsSeq(v) /\ Len(u) = a /\ Len(v) = b
  BY <1>2, <1>6, <1>7, SeqOfIs
<1>9. /\ IsSeq(z) /\ DOMAIN z = 1 .. a + b
      /\ \A p \in 1 .. a : z[p] = u[p]
      /\ \A c \in 1 .. b : z[a + c] = v[c]
  <2>1. Joined(z, u, v)
    BY <1>5, <1>8, JoinIs
  <2>2. QED
    BY <1>8, <2>1 DEF Joined
<1>10. ASSUME NEW p \in 1 .. a + b PROVE z[p] = w[p]
  <2>1. w[p] = [id |-> h[p].id, markers |-> Evidence!Markers(index, h[p])]
    BY <1>3, <1>4 DEF Evidence!Marked
  <2>2. CASE p \in 1 .. a
    <3>1. u[p] = [id |-> q[p].id, markers |-> Evidence!Markers(index, q[p])]
      BY <1>2, <1>4, <2>2 DEF Evidence!Marked
    <3>2. QED
      BY <1>3, <1>9, <2>1, <2>2, <3>1
  <2>3. CASE \E k \in 1 .. b : p = a + k
    <3>1. PICK k \in 1 .. b : p = a + k
      BY <2>3
    <3>2. v[k] = [id |-> r[k].id, markers |-> Evidence!Markers(index, r[k])]
      BY <1>2, <1>4, <3>1 DEF Evidence!Marked
    <3>3. h[p] = r[k] /\ z[p] = v[k]
      BY <1>3, <1>9, <3>1
    <3>4. QED
      BY <2>1, <3>2, <3>3
  <2>4. QED
    BY <1>3, <2>2, <2>3
<1>11. z = w
  <2>1. z = [p \in 1 .. a + b |-> z[p]]
    BY <1>9 DEF IsSeq
  <2>2. QED
    BY <1>7, <1>10, <2>1
<1>12. QED
  BY <1>1, <1>4, <1>5, <1>11

\* What NotesMatchTheText says of a page.
CountsUp(view) ==
  LET text == view.findings \o view.analysis
      met  == FlattenSeq([n \in DOMAIN text |-> text[n].markers]) \o [n \in DOMAIN view.notes |-> view.notes[n].num]
  IN Evidence!Distinct(met) = [n \in 1 .. view.quotes |-> n]

LEMMA MarkersRise ==
  ASSUME NEW index, NEW ids, Indexes(index, ids), NEW i,
         \A c \in DOMAIN i.evidence : \E p \in DOMAIN ids : ids[p] = i.evidence[c].id
  PROVE  Rises(Evidence!Markers(index, i), Numbers(index, i.evidence))
<1>1. PICK cited : cited = i.evidence
  OBVIOUS
<1>2. PICK S : S = Numbers(index, cited)
  OBVIOUS
<1>3. Evidence!Markers(index, i) = Evidence!Ascending(S, Len(index))
  BY <1>1, <1>2 DEF Evidence!Markers, Numbers
<1>4. Len(index) \in Nat /\ DOMAIN index = 1 .. Len(index)
  BY SeqIs DEF Indexes
<1>5. S \subseteq 1 .. Len(index)
  <2>1. ASSUME NEW v \in S PROVE v \in DOMAIN index
    BY <1>1, <1>2, NumbersIs
  <2>2. QED
    BY <1>4, <2>1
<1>6. S \cap 1 .. Len(index) = S
  BY <1>5
<1>7. Rises(Evidence!Ascending(S, Len(index)), S)
  BY <1>4, <1>6, AscendingRises
<1>8. QED
  BY <1>1, <1>2, <1>3, <1>7

\* The notes bear the numbers 1, 2, 3.
LEMMA NotesCount ==
  ASSUME NEW g, NEW index, NEW ids, Indexes(index, ids),
         \A c \in DOMAIN g.citations : \E p \in DOMAIN ids : ids[p] = g.citations[c].id,
         \A p \in DOMAIN ids : \E c \in DOMAIN g.citations : ids[p] = g.citations[c].id,
         NEW notes, notes = Evidence!Appendix(g, index)
  PROVE  [n \in DOMAIN notes |-> notes[n].num] = [k \in 1 .. Len(index) |-> k]
<1>1. PICK own, m : own = g.citations /\ m = Len(index)
  OBVIOUS
<1>2. m \in Nat /\ DOMAIN index = 1 .. m
  BY <1>1, SeqIs DEF Indexes
<1>3. PICK S : S = Numbers(index, own)
  OBVIOUS
<1>4. S = 1 .. m
  <2>1. \A v : v \in S <=> v \in DOMAIN index /\ \E c \in DOMAIN own : own[c].id = index[v]
    BY <1>1, <1>3, NumbersIs
  <2>2. ASSUME NEW v \in DOMAIN index PROVE \E c \in DOMAIN own : own[c].id = index[v]
    <3>1. PICK p \in DOMAIN ids : ids[p] = index[v]
      BY DEF Indexes
    <3>2. QED
      BY <1>1, <3>1
  <2>3. QED
    BY <1>2, <2>1, <2>2
<1>5. PICK a : a = Evidence!Ascending(S, m)
  OBVIOUS
<1>6. Rises(a, 1 .. m)
  <2>1. S \cap 1 .. m = 1 .. m
    BY <1>4
  <2>2. QED
    BY <1>2, <1>5, <2>1, AscendingRises
<1>7. a = [k \in 1 .. m |-> k]
  BY <1>2, <1>6, RisesAll
<1>8. DOMAIN notes = DOMAIN a /\ \A n \in DOMAIN a : notes[n].num = a[n]
  <2>1. a = Evidence!Ascending({Evidence!Number(index, g.citations[n].id) : n \in DOMAIN g.citations}, Len(index))
    BY <1>1, <1>3, <1>5 DEF Numbers
  <2>2. QED
    BY <2>1 DEF Evidence!Appendix
<1>9. QED
  BY <1>1, <1>7, <1>8

LEMMA GraphCountsUp ==
  ASSUME NEW g, GraphOK(g)
  PROVE  CountsUp(Evidence!View(g))
<1>1. PICK view : view = Evidence!View(g)
  OBVIOUS
<1>2. PICK own : own = g.citations
  OBVIOUS
<1>3. PICK list : list = g.insights
  OBVIOUS
<1>4. PICK found, themes : found = Evidence!ReportInsights(g) /\ themes = Evidence!Themes(g)
  OBVIOUS
<1>5. PICK all : all = found \o themes
  OBVIOUS
<1>6. Among(all, list) /\ IsSeq(found) /\ IsSeq(themes)
  <2>1. IsSeq(g.insights)
    BY DEF GraphOK
  <2>2. Among(found, list) /\ Among(themes, list)
    BY <1>3, <1>4, <2>1, ThemesAmong, FindingsAmong
  <2>3. Among(all, list)
    BY <1>5, <2>2, JoinAmong
  <2>4. QED
    BY <2>2, <2>3 DEF Among
<1>7. PICK n : n = Len(all)
  OBVIOUS
<1>8. n \in Nat /\ DOMAIN all = 1 .. n
  BY <1>6, <1>7, SeqIs DEF Among
<1>9. ASSUME NEW r \in 1 .. n
      PROVE  IsSeq(all[r].evidence) /\ \A c \in DOMAIN all[r].evidence : \E k \in DOMAIN own : own[k] = all[r].evidence[c]
  <2>1. PICK k \in DOMAIN list : all[r] = list[k]
    BY <1>6, <1>8 DEF Among
  <2>2. QED
    BY <1>2, <1>3, <2>1 DEF GraphOK
<1>10. PICK cites : cites = [r \in DOMAIN all |-> all[r].evidence]
  OBVIOUS
<1>11. \A r \in 1 .. n : cites[r] = all[r].evidence
  BY <1>8, <1>10
<1>12. IsSeq(cites) /\ Len(cites) = n /\ DOMAIN cites = 1 .. n
  <2>1. DOMAIN cites = 1 .. n /\ cites = [r \in 1 .. n |-> cites[r]]
    BY <1>8, <1>10
  <2>2. QED
    BY <1>8, <2>1, SeqOfIs
<1>13. PICK f : f = FlattenSeq(cites)
  OBVIOUS
<1>14. Laid(f, cites, n)
  <2>1. \A r \in DOMAIN cites : IsSeq(cites[r])
    BY <1>9, <1>11, <1>12
  <2>2. QED
    BY <1>12, <1>13, <2>1, FlattenIs
<1>15. PICK each : each = f \o own
  OBVIOUS
<1>16. Joined(each, f, own) /\ IsSeq(f) /\ IsSeq(own)
  BY <1>2, <1>14, <1>15, JoinIs DEF Laid, GraphOK
<1>17. PICK a, b : a = Len(f) /\ b = Len(own)
  OBVIOUS
<1>18. a \in Nat /\ b \in Nat /\ DOMAIN f = 1 .. a /\ DOMAIN own = 1 .. b
  BY <1>16, <1>17, SeqIs
<1>19. /\ DOMAIN each = 1 .. a + b
       /\ \A p \in 1 .. a : each[p] = f[p]
       /\ \A c \in 1 .. b : each[a + c] = own[c]
       /\ \A p \in 1 .. a + b : p \in 1 .. a \/ \E k \in 1 .. b : p = a + k
  BY <1>16, <1>17 DEF Joined
<1>20. PICK ids : ids = [p \in DOMAIN each |-> each[p].id]
  OBVIOUS
<1>21. IsSeq(ids) /\ DOMAIN ids = 1 .. a + b /\ \A p \in 1 .. a + b : ids[p] = each[p].id
  <2>1. DOMAIN ids = 1 .. a + b /\ ids = [p \in 1 .. a + b |-> ids[p]]
    BY <1>19, <1>20
  <2>2. a + b \in Nat
    BY <1>18
  <2>3. IsSeq(ids)
    BY <2>1, <2>2, SeqOfIs
  <2>4. QED
    BY <1>19, <1>20, <2>1, <2>3
<1>22. PICK index : index = Evidence!Distinct(ids)
  OBVIOUS
<1>23. Indexes(index, ids)
  BY <1>21, <1>22, DistinctIndexes
<1>24. index = Evidence!Numbered(g)
  <2>1. Evidence!Cited(all) = f
    <3>1. Evidence!Cited(all) = Evidence!FlattenSeq(cites)
      BY <1>10 DEF Evidence!Cited
    <3>2. QED
      BY <1>13, <3>1, SameFlatten
  <2>2. Evidence!Numbered(g) = Evidence!Distinct(Evidence!Ids(each))
    BY <1>2, <1>4, <1>5, <1>15, <2>1 DEF Evidence!Numbered
  <2>3. Evidence!Ids(each) = ids
    BY <1>20 DEF Evidence!Ids
  <2>4. QED
    BY <1>22, <2>2, <2>3
<1>25. \A c \in DOMAIN own : \E p \in DOMAIN ids : ids[p] = own[c].id
  <2>1. ASSUME NEW c \in 1 .. b PROVE a + c \in 1 .. a + b /\ ids[a + c] = own[c].id
    <3>1. a + c \in 1 .. a + b
      BY <1>18
    <3>2. QED
      BY <1>19, <1>21, <3>1
  <2>2. QED
    BY <1>18, <1>21, <2>1
<1>26. \A r \in 1 .. n : \A c \in DOMAIN cites[r] : \E k \in DOMAIN own : own[k] = cites[r][c]
  BY <1>9, <1>11
<1>27. \A p \in DOMAIN ids : \E c \in DOMAIN own : ids[p] = own[c].id
  <2>1. ASSUME NEW p \in 1 .. a PROVE \E c \in DOMAIN own : ids[p] = own[c].id
    <3>1. PICK row, col : Places(f, cites, n, row, col)
      BY <1>14 DEF Laid
    <3>2. row[p] \in 1 .. n /\ col[p] \in DOMAIN cites[row[p]] /\ f[p] = cites[row[p]][col[p]]
      BY <1>18, <3>1 DEF Places
    <3>3. PICK k \in DOMAIN own : own[k] = f[p]
      BY <1>26, <3>2
    <3>4. p \in 1 .. a + b
      BY <1>18
    <3>5. ids[p] = f[p].id
      BY <1>19, <1>21, <3>4
    <3>6. QED
      BY <3>3, <3>5
  <2>2. ASSUME NEW p \in 1 .. a + b, NEW k \in 1 .. b, p = a + k PROVE ids[p] = own[k].id
    BY <1>19, <1>21, <2>2
  <2>3. QED
    BY <1>18, <1>19, <1>21, <2>1, <2>2
<1>28. PICK marks : marks = [r \in 1 .. n |-> Evidence!Markers(index, all[r])]
  OBVIOUS
<1>29. ASSUME NEW r \in 1 .. n PROVE Rises(marks[r], Numbers(index, cites[r]))
  <2>1. PICK i : i = all[r]
    OBVIOUS
  <2>2. \A c \in DOMAIN i.evidence : \E p \in DOMAIN ids : ids[p] = i.evidence[c].id
    <3>1. ASSUME NEW c \in DOMAIN i.evidence PROVE \E p \in DOMAIN ids : ids[p] = i.evidence[c].id
      <4>1. PICK k \in DOMAIN own : own[k] = i.evidence[c]
        BY <1>9, <2>1
      <4>2. QED
        BY <1>25, <4>1
    <3>2. QED
      BY <3>1
  <2>3. Rises(Evidence!Markers(index, i), Numbers(index, i.evidence))
    BY <1>23, <2>2, MarkersRise
  <2>4. QED
    BY <1>11, <1>28, <2>1, <2>3
<1>30. PICK h : h = FlattenSeq(marks)
  OBVIOUS
<1>31. Laid(h, marks, n)
  <2>1. DOMAIN marks = 1 .. n /\ marks = [r \in 1 .. n |-> marks[r]]
    BY <1>28
  <2>2. IsSeq(marks) /\ Len(marks) = n
    BY <1>8, <2>1, SeqOfIs
  <2>3. \A r \in DOMAIN marks : IsSeq(marks[r])
    BY <1>29, <2>1 DEF Rises
  <2>4. QED
    BY <1>30, <2>2, <2>3, FlattenIs
<1>32. Report(index, ids, cites, n, f, marks, h)
  <2>1. DOMAIN f \subseteq DOMAIN ids
    BY <1>18, <1>21
  <2>2. \A p \in DOMAIN f : ids[p] = f[p].id
    BY <1>18, <1>19, <1>21, <2>1
  <2>3. \A p \in DOMAIN ids : p \notin DOMAIN f => \A q \in DOMAIN f : q < p
    BY <1>18, <1>21
  <2>4. QED
    BY <1>8, <1>14, <1>21, <1>23, <1>29, <1>31, <2>1, <2>2, <2>3 DEF Report
<1>33. PICK count : count = [k \in 1 .. Len(index) |-> k]
  OBVIOUS
<1>34. InTurn(h \o count, Len(index))
  BY <1>32, <1>33, ReportInTurn
<1>35. Evidence!Distinct(h \o count) = [k \in 1 .. Len(index) |-> k]
  <2>1. Len(index) \in Nat
    BY <1>23, SeqIs DEF Indexes
  <2>2. QED
    BY <1>34, <2>1, InTurnCounts
<1>36. Len(index) = Len(own)
  <2>1. PICK names : names = [c \in DOMAIN own |-> own[c].id]
    OBVIOUS
  <2>2. DOMAIN names = 1 .. b /\ names = [c \in 1 .. b |-> names[c]] /\ \A c \in 1 .. b : names[c] = own[c].id
    BY <1>18, <2>1
  <2>3. IsSeq(names) /\ Len(names) = b
    BY <1>18, <2>2, SeqOfIs
  <2>4. \A i, j \in DOMAIN names : i # j => names[i] # names[j]
    BY <1>2, <1>18, <2>2 DEF GraphOK
  <2>5. \A i \in DOMAIN names : \E p \in DOMAIN ids : ids[p] = names[i]
    BY <1>18, <1>25, <2>2
  <2>6. \A p \in DOMAIN ids : \E i \in DOMAIN names : names[i] = ids[p]
    BY <1>18, <1>27, <2>2
  <2>7. Len(index) = Len(names)
    BY <1>23, <2>3, <2>4, <2>5, <2>6, IndexLength
  <2>8. QED
    BY <1>17, <2>3, <2>7
<1>37. view.quotes = Len(own)
  BY <1>1, <1>2 DEF Evidence!View
<1>38. PICK text : text = view.findings \o view.analysis
  OBVIOUS
<1>39. text = Evidence!Marked(index, all)
  <2>1. view.findings = Evidence!Marked(index, found) /\ view.analysis = Evidence!Marked(index, themes)
    BY <1>1, <1>4, <1>24 DEF Evidence!View
  <2>2. QED
    BY <1>5, <1>6, <1>38, <2>1, MarkedJoin
<1>40. [k \in DOMAIN text |-> text[k].markers] = marks
  BY <1>8, <1>28, <1>39 DEF Evidence!Marked
<1>41. PICK notes : notes = view.notes
  OBVIOUS
<1>42. [k \in DOMAIN notes |-> notes[k].num] = count
  <2>1. notes = Evidence!Appendix(g, index)
    BY <1>1, <1>24, <1>41 DEF Evidence!View
  <2>2. QED
    BY <1>2, <1>23, <1>25, <1>27, <1>33, <2>1, NotesCount
<1>43. Evidence!Distinct(FlattenSeq([k \in DOMAIN text |-> text[k].markers]) \o [k \in DOMAIN notes |-> notes[k].num])
         = [k \in 1 .. view.quotes |-> k]
  BY <1>30, <1>35, <1>36, <1>37, <1>40, <1>42
<1>44. CountsUp(view)
  BY <1>38, <1>41, <1>43 DEF CountsUp
<1>45. QED
  BY <1>1, <1>44
-----------------------------------------------------------------------------
(* The document.                                                           *)

\* A quote of the document is on record: it is a turn of a respondent.
OnRecord(d, c) ==
  \E i \in DOMAIN d.insights : Evidence!Grounded(d, d.insights[i]) /\ c = Evidence!Citation(d, d.insights[i])

LEMMA DocumentIs ==
  ASSUME NEW d \in Documents
  PROVE  /\ IsSeq(d.insights) /\ IsSeq(d.interviews)
         /\ \A n \in DOMAIN d.interviews : IsSeq(d.interviews[n].turns)
         /\ \A m, n \in DOMAIN d.insights : d.insights[m].id = d.insights[n].id => m = n
<1>1. /\ d.insights \in Seq(ToSet(d.insights)) /\ d.interviews \in Seq(ToSet(d.interviews))
      /\ \A n \in DOMAIN d.interviews : d.interviews[n].turns \in Seq(ToSet(d.interviews[n].turns))
      /\ \A m, n \in DOMAIN d.insights : d.insights[m].id = d.insights[n].id => m = n
  BY DocumentsAssumption
<1>2. QED
  BY <1>1 DEF IsSeq

LEMMA CitationsAre ==
  ASSUME NEW d \in Documents, NEW own, own = Evidence!Citations(d)
  PROVE  /\ IsSeq(own)
         /\ \A i, j \in DOMAIN own : i # j => own[i].id # own[j].id
         /\ \A k \in DOMAIN own : OnRecord(d, own[k])
<1>1. PICK list : list = d.insights
  OBVIOUS
<1>2. PICK P : P = {n \in DOMAIN list : Evidence!Grounded(d, list[n])}
  OBVIOUS
<1>3. PICK r : r = Evidence!At(list, P)
  OBVIOUS
<1>4. own = [n \in DOMAIN r |-> Evidence!Citation(d, r[n])]
  BY <1>1, <1>2, <1>3 DEF Evidence!Citations, Evidence!Kept
<1>5. /\ IsSeq(list) /\ P \subseteq DOMAIN list
      /\ \A m, n \in DOMAIN list : list[m].id = list[n].id => m = n
  BY <1>1, <1>2, DocumentIs
<1>6. Drawn(r, list, P)
  BY <1>3, <1>5, AtIs
<1>7. PICK g : Rises(g, P) /\ DOMAIN g = DOMAIN r /\ \A k \in DOMAIN r : r[k] = list[g[k]]
  BY <1>6 DEF Drawn
<1>8. PICK n : n = Len(r)
  OBVIOUS
<1>9. n \in Nat /\ DOMAIN r = 1 .. n
  BY <1>6, <1>8, SeqIs DEF Drawn
<1>10. IsSeq(own)
  <2>1. DOMAIN own = 1 .. n /\ own = [k \in 1 .. n |-> own[k]]
    BY <1>4, <1>9
  <2>2. QED
    BY <1>9, <2>1, SeqOfIs
<1>11. ASSUME NEW k \in DOMAIN r PROVE g[k] \in DOMAIN list /\ Evidence!Grounded(d, list[g[k]]) /\ own[k] = Evidence!Citation(d, list[g[k]])
  <2>1. g[k] \in P
    BY <1>7 DEF Rises
  <2>2. own[k] = Evidence!Citation(d, r[k])
    BY <1>4
  <2>3. QED
    BY <1>2, <1>7, <2>1, <2>2
<1>12. \A k \in DOMAIN own : OnRecord(d, own[k])
  BY <1>1, <1>4, <1>11 DEF OnRecord
<1>13. ASSUME NEW i \in DOMAIN own, NEW j \in DOMAIN own, i # j PROVE own[i].id # own[j].id
  <2>1. PICK a, b : a = g[i] /\ b = g[j]
    OBVIOUS
  <2>2. i \in 1 .. n /\ j \in 1 .. n /\ i \in DOMAIN g /\ j \in DOMAIN g
    BY <1>4, <1>7, <1>9
  <2>3. a \in DOMAIN list /\ b \in DOMAIN list
    BY <1>4, <1>11, <2>1
  <2>4. a \in Nat /\ b \in Nat
    BY <1>5, <2>3, SeqIs
  <2>5. a # b
    <3>1. i < j \/ j < i
      BY <1>9, <1>13, <2>2
    <3>2. a < b \/ b < a
      BY <1>7, <2>1, <2>2, <3>1 DEF Rises
    <3>3. QED
      BY <2>4, <3>2
  <2>6. own[i].id = list[a].id /\ own[j].id = list[b].id
    <3>1. own[i] = Evidence!Citation(d, list[a]) /\ own[j] = Evidence!Citation(d, list[b])
      BY <1>4, <1>11, <2>1
    <3>2. QED
      BY <3>1 DEF Evidence!Citation
  <2>7. QED
    BY <1>5, <2>3, <2>5, <2>6
<1>14. QED
  BY <1>10, <1>12, <1>13

LEMMA GraphIsOK ==
  ASSUME NEW d \in Documents
  PROVE  GraphOK(Evidence!Graph(d))
<1>1. PICK g : g = Evidence!Graph(d)
  OBVIOUS
<1>2. PICK own : own = Evidence!Citations(d)
  OBVIOUS
<1>3. /\ g.citations = own
      /\ g.insights = [n \in DOMAIN d.insights |-> Evidence!Insight(d, d.insights[n])]
  BY <1>1, <1>2 DEF Evidence!Graph
<1>4. IsSeq(own) /\ \A i, j \in DOMAIN own : i # j => own[i].id # own[j].id
  BY <1>2, CitationsAre
<1>5. IsSeq(g.insights)
  <2>1. PICK n, q : n = Len(d.insights) /\ q = g.insights
    OBVIOUS
  <2>2. n \in Nat /\ DOMAIN d.insights = 1 .. n
    BY <2>1, DocumentIs, SeqIs
  <2>3. DOMAIN q = 1 .. n /\ q = [k \in 1 .. n |-> q[k]]
    BY <1>3, <2>1, <2>2
  <2>4. IsSeq(q)
    BY <2>2, <2>3, SeqOfIs
  <2>5. QED
    BY <2>1, <2>4
<1>6. ASSUME NEW n \in DOMAIN g.insights
      PROVE  /\ IsSeq(g.insights[n].evidence)
             /\ \A c \in DOMAIN g.insights[n].evidence : \E k \in DOMAIN g.citations : g.citations[k] = g.insights[n].evidence[c]
  <2>1. PICK i : i = d.insights[n]
    OBVIOUS
  <2>2. PICK P : P = {k \in DOMAIN own : own[k].id = i.id \/ (own[k].theme # "" /\ own[k].theme = i.label)}
    OBVIOUS
  <2>3. g.insights[n] = Evidence!Insight(d, i)
    BY <1>3, <2>1
  <2>4. g.insights[n].evidence = Evidence!At(own, P)
    <3>1. Evidence!Insight(d, i).evidence = Evidence!Kept(Evidence!Citations(d), LAMBDA c : c.id = i.id \/ (c.theme # "" /\ c.theme = i.label))
      BY DEF Evidence!Insight
    <3>2. Evidence!Insight(d, i).evidence = Evidence!Kept(own, LAMBDA c : c.id = i.id \/ (c.theme # "" /\ c.theme = i.label))
      BY <1>2, <3>1 DEF Evidence!Kept
    <3>3. QED
      BY <2>2, <2>3, <3>2 DEF Evidence!Kept
  <2>5. P \subseteq DOMAIN own
    BY <2>2
  <2>6. Among(Evidence!At(own, P), own)
    BY <1>4, <2>5, AtAmong
  <2>7. PICK e : e = g.insights[n].evidence
    OBVIOUS
  <2>8. Among(e, own)
    BY <2>4, <2>6, <2>7
  <2>9. IsSeq(e) /\ \A c \in DOMAIN e : \E k \in DOMAIN own : own[k] = e[c]
    BY <2>8 DEF Among
  <2>10. QED
    BY <1>3, <2>7, <2>9
<1>7. GraphOK(g)
  BY <1>3, <1>4, <1>5, <1>6 DEF GraphOK
<1>8. QED
  BY <1>1, <1>7

LEMMA NoGraphIsOK == GraphOK(Evidence!NoGraph)
<1>1. IsSeq(<<>>) /\ DOMAIN <<>> = {}
  BY DEF IsSeq
<1>2. Evidence!NoGraph.citations = <<>> /\ Evidence!NoGraph.insights = <<>>
  BY DEF Evidence!NoGraph
<1>3. QED
  BY <1>1, <1>2 DEF GraphOK
\* Where the first element is that has an id.
FirstWith(list, id) == LET S == {n \in 1 .. Len(list) : list[n].id = id} IN IF S # {} THEN Min(S) ELSE 0

LEMMA FirstWithIs ==
  ASSUME NEW list, IsSeq(list), NEW id
  PROVE  IF \E n \in DOMAIN list : list[n].id = id
         THEN FirstWith(list, id) \in DOMAIN list /\ list[FirstWith(list, id)].id = id
         ELSE FirstWith(list, id) = 0
<1>1. PICK S : S = {n \in 1 .. Len(list) : list[n].id = id}
  OBVIOUS
<1>2. DOMAIN list = 1 .. Len(list)
  BY SeqIs
<1>3. S \subseteq DOMAIN list /\ (S = {} <=> ~\E n \in DOMAIN list : list[n].id = id)
  BY <1>1, <1>2
<1>4. FirstWith(list, id) = IF S # {} THEN Min(S) ELSE 0
  BY <1>1 DEF FirstWith
<1>5. IF S = {} THEN FirstWith(list, id) = 0 ELSE FirstWith(list, id) \in S
  BY <1>3, <1>4, PlaceIs
<1>6. QED
  BY <1>1, <1>3, <1>5

LEMMA SelectIs ==
  /\ \A d, id : Evidence!Interview(d, id) = FirstWith(d.interviews, id)
  /\ Evidence!Highlighted =
       LET c == read.graph.citations[FirstWith(read.graph.citations, leaf.cited)]
           v == read.graph.respondents[FirstWith(read.graph.respondents, c.interview)]
       IN  v.turns[c.turn]
BY DEF FirstWith, Min, Evidence!Interview, Evidence!Highlighted, Evidence!SelectInSeq, Evidence!Min

\* The turn that a quote was found in is the respondent's.
LEMMA CitedTurnIs ==
  ASSUME NEW v, IsSeq(v.turns), NEW quote, Evidence!CitedTurn(v, quote) # 0
  PROVE  v.turns[Evidence!CitedTurn(v, quote)].role = "respondent"
<1>1. PICK list : list = v.turns
  OBVIOUS
<1>2. PICK S : S = {n \in 1 .. Len(list) : list[n].role = "respondent"
                                             /\ (quote \subseteq list[n].text \/ list[n].text \subseteq quote)}
  OBVIOUS
<1>3. DOMAIN list = 1 .. Len(list) /\ IsSeq(list)
  BY <1>1, SeqIs
<1>4. S \subseteq DOMAIN list
  BY <1>2, <1>3
<1>5. Evidence!CitedTurn(v, quote) = IF S # {} THEN Min(S) ELSE 0
  BY <1>1, <1>2 DEF Min, Evidence!CitedTurn, Evidence!SelectInSeq, Evidence!Min
<1>6. Evidence!CitedTurn(v, quote) \in S
  BY <1>3, <1>4, <1>5, PlaceIs
<1>7. QED
  BY <1>1, <1>2, <1>6

LEMMA HighlightedIs ==
  ASSUME NEW d \in Documents, read.graph = Evidence!Graph(d),
         \E k \in DOMAIN read.graph.citations : read.graph.citations[k].id = leaf.cited
  PROVE  Evidence!Highlighted.role = "respondent"
<1>1. PICK own, held : own = Evidence!Citations(d) /\ held = d.interviews
  OBVIOUS
<1>2. read.graph.citations = own /\ read.graph.respondents = held
  BY <1>1 DEF Evidence!Graph
<1>3. IsSeq(own) /\ \A k \in DOMAIN own : OnRecord(d, own[k])
  BY <1>1, CitationsAre
<1>4. PICK c : c = own[FirstWith(own, leaf.cited)]
  OBVIOUS
<1>5. OnRecord(d, c)
  <2>1. FirstWith(own, leaf.cited) \in DOMAIN own
    BY <1>2, <1>3, FirstWithIs
  <2>2. QED
    BY <1>3, <1>4, <2>1
<1>6. PICK i : Evidence!Grounded(d, i) /\ c = Evidence!Citation(d, i)
  BY <1>5 DEF OnRecord
<1>7. PICK n : n = FirstWith(held, i.interview)
  OBVIOUS
<1>8. Evidence!Interview(d, i.interview) = n
  BY <1>1, <1>7, SelectIs
<1>9. PICK v : v = held[n]
  OBVIOUS
<1>10. n # 0 /\ Evidence!CitedTurn(v, i.quote) # 0
  BY <1>1, <1>6, <1>8, <1>9 DEF Evidence!Grounded
<1>11. IsSeq(held) /\ \A m \in DOMAIN held : IsSeq(held[m].turns)
  BY <1>1, DocumentIs
<1>12. n \in DOMAIN held /\ v.id = i.interview
  BY <1>7, <1>9, <1>10, <1>11, FirstWithIs
<1>13. c.interview = v.id /\ c.turn = Evidence!CitedTurn(v, i.quote)
  BY <1>1, <1>6, <1>8, <1>9 DEF Evidence!Citation
<1>14. IsSeq(v.turns)
  BY <1>9, <1>11, <1>12
<1>15. v.turns[c.turn].role = "respondent"
  BY <1>10, <1>13, <1>14, CitedTurnIs
<1>16. Evidence!Highlighted = v.turns[c.turn]
  BY <1>2, <1>4, <1>7, <1>9, <1>12, <1>13, SelectIs
<1>17. QED
  BY <1>15, <1>16
-----------------------------------------------------------------------------
(* Reading.                                                                *)

\* The report is that of the document; a citation is open only on a report that
\* has been read, and is one of its.
ReadInv ==
  /\ doc \in Documents /\ read.graph \in {Evidence!NoGraph, Evidence!Graph(doc)}
  /\ DOMAIN read = {"graph", "loading", "failed"} /\ DOMAIN leaf = {"cited", "file", "chapter"}
  /\ read.loading \/ read.failed => leaf.cited = "none"
  /\ leaf.cited # "none" => \E k \in DOMAIN read.graph.citations : read.graph.citations[k].id = leaf.cited

LEMMA InitRead == Init => ReadInv
<1> SUFFICES ASSUME Init PROVE ReadInv
  OBVIOUS
<1>1. doc \in Documents /\ leaf = Evidence!NoLeaf /\ read = [graph |-> Evidence!NoGraph, loading |-> TRUE, failed |-> FALSE]
  BY DEF Init, Evidence!ReportInit
<1>2. DOMAIN leaf = {"cited", "file", "chapter"} /\ leaf.cited = "none"
  BY <1>1 DEF Evidence!NoLeaf
<1>3. DOMAIN read = {"graph", "loading", "failed"} /\ read.graph = Evidence!NoGraph
  BY <1>1
<1>4. QED
  BY <1>1, <1>2, <1>3 DEF ReadInv

LEMMA LoadingRead ==
  ASSUME ReadInv, Evidence!Loaded \/ Evidence!NotLoaded \/ Evidence!ReadAgain
  PROVE  ReadInv'
<1>1. UNCHANGED <<doc, leaf>> /\ leaf.cited = "none" /\ DOMAIN read = {"graph", "loading", "failed"}
  BY DEF ReadInv, Evidence!Loaded, Evidence!NotLoaded, Evidence!ReadAgain
<1>2. read'.graph \in {Evidence!NoGraph, Evidence!Graph(doc)} /\ DOMAIN read' = {"graph", "loading", "failed"}
  <2>1. CASE Evidence!Loaded
    <3>1. read' = [graph |-> Evidence!Graph(doc), loading |-> FALSE, failed |-> FALSE]
      BY <2>1 DEF Evidence!Loaded
    <3>2. QED
      BY <3>1
  <2>2. CASE Evidence!NotLoaded
    <3>1. read' = [graph |-> Evidence!NoGraph, loading |-> FALSE, failed |-> TRUE]
      BY <2>2 DEF Evidence!NotLoaded
    <3>2. QED
      BY <3>1
  <2>3. CASE Evidence!ReadAgain
    <3>1. read' = [read EXCEPT !.loading = TRUE, !.failed = FALSE]
      BY <2>3 DEF Evidence!ReadAgain
    <3>2. read'.graph = read.graph /\ DOMAIN read' = DOMAIN read
      BY <1>1, <3>1
    <3>3. QED
      BY <1>1, <3>2 DEF ReadInv
  <2>4. QED
    BY <2>1, <2>2, <2>3
<1>3. QED
  BY <1>1, <1>2 DEF ReadInv

LEMMA OpenedRead ==
  ASSUME ReadInv, NEW n \in DOMAIN read.graph.citations, Evidence!OpenCitation(read.graph.citations[n].id)
  PROVE  ReadInv'
<1>1. PICK id : id = read.graph.citations[n].id
  OBVIOUS
<1>2. UNCHANGED <<doc, read>> /\ leaf' = [leaf EXCEPT !.cited = id] /\ ~read.loading /\ ~read.failed
  BY <1>1 DEF Evidence!OpenCitation, Evidence!Shown
<1>3. leaf'.cited = id /\ DOMAIN leaf' = DOMAIN leaf
  BY <1>2 DEF ReadInv
<1>4. QED
  BY <1>1, <1>2, <1>3 DEF ReadInv

\* Whatever else is done leaves the citation open, or closes it.
LEMMA OthersRead ==
  ASSUME ReadInv, UNCHANGED <<doc, read>>, leaf'.cited \in {leaf.cited, "none"}, DOMAIN leaf' = DOMAIN leaf
  PROVE  ReadInv'
BY DEF ReadInv

LEMMA NextRead == ReadInv /\ [Next]_consoleVars => ReadInv'
<1> SUFFICES ASSUME ReadInv, [Next]_consoleVars PROVE ReadInv'
  OBVIOUS
<1>1. DOMAIN leaf = {"cited", "file", "chapter"}
  BY DEF ReadInv
<1>2. ASSUME NEW f \in {"cited", "file", "chapter"}, NEW v, leaf' = [leaf EXCEPT ![f] = v],
             UNCHANGED <<doc, read>>, f = "cited" => v = "none"
      PROVE  ReadInv'
  <2>1. DOMAIN leaf' = DOMAIN leaf /\ leaf'.cited = IF f = "cited" THEN v ELSE leaf.cited
    BY <1>1, <1>2
  <2>2. QED
    BY <1>2, <2>1, OthersRead
<1>3. CASE Evidence!ReadReport
  <2>1. CASE Evidence!Loaded \/ Evidence!NotLoaded \/ Evidence!ReadAgain
    BY <2>1, LoadingRead
  <2>2. CASE \E n \in DOMAIN read.graph.citations : Evidence!OpenCitation(read.graph.citations[n].id)
    BY <2>2, OpenedRead
  <2>3. CASE Evidence!CloseCitation \/ Evidence!ExportMarkdown \/ \E n \in DOMAIN Evidence!Chapters(read.graph) : Evidence!GoTo(Evidence!Chapters(read.graph)[n])
    BY <1>2, <2>3 DEF Evidence!CloseCitation, Evidence!ExportMarkdown, Evidence!GoTo
  <2>4. QED
    BY <1>3, <2>1, <2>2, <2>3 DEF Evidence!ReadReport
<1>4. CASE Evidence!BrowseResponses
  <2>1. CASE Evidence!ExportResponses
    BY <1>2, <2>1 DEF Evidence!ExportResponses
  <2>2. CASE Evidence!Search \/ Evidence!Filter \/ \E key \in {"respondent", "channel", "duration", "coverage"} : Evidence!Sort(key)
    <3>1. UNCHANGED <<doc, read, leaf>>
      BY <2>2 DEF Evidence!Search, Evidence!Filter, Evidence!Sort, Evidence!Control
    <3>2. QED
      BY <3>1, OthersRead
  <2>3. QED
    BY <1>4, <2>1, <2>2 DEF Evidence!BrowseResponses
<1>5. CASE UNCHANGED reportVars
  <2>1. UNCHANGED <<doc, read, leaf>>
    BY <1>5 DEF reportVars
  <2>2. QED
    BY <2>1, OthersRead
<1>6. QED
  BY <1>3, <1>4, <1>5 DEF Next, consoleVars

LEMMA ViewIs ==
  ASSUME NEW g
  PROVE  /\ Evidence!View(g).findings = Evidence!Markdown(g).findings
         /\ Evidence!View(g).notes = Evidence!Markdown(g).notes
<1>1. PICK index : index = Evidence!Numbered(g)
  OBVIOUS
<1>2. /\ Evidence!View(g).findings = Evidence!Marked(index, Evidence!ReportInsights(g))
      /\ Evidence!View(g).notes = Evidence!Appendix(g, index)
  BY <1>1 DEF Evidence!View
<1>3. /\ Evidence!Markdown(g).findings = Evidence!Marked(index, Evidence!ReportInsights(g))
      /\ Evidence!Markdown(g).notes = Evidence!Appendix(g, index)
  BY <1>1 DEF Evidence!Markdown
<1>4. QED
  BY <1>2, <1>3

\* The notes of a report are numbered 1, 2, 3 in the order in which a reader
\* meets them, in the page and in its file, whatever the document cites where,
\* and a note opens on a turn of the respondent.
THEOREM NotesInOrder == Spec => []NotesMatchTheText
<1>1. ReadInv => NotesMatchTheText
  <2> SUFFICES ASSUME ReadInv PROVE NotesMatchTheText
    OBVIOUS
  <2>1. GraphOK(read.graph)
    BY NoGraphIsOK, GraphIsOK DEF ReadInv
  <2>2. PICK view : view = Evidence!View(read.graph)
    OBVIOUS
  <2>3. CountsUp(view)
    BY <2>1, <2>2, GraphCountsUp
  <2>4. PICK file : file = Evidence!Markdown(read.graph)
    OBVIOUS
  <2>5. ToSet(view.findings) = ToSet(file.findings) /\ view.notes = file.notes
    BY <2>2, <2>4, ViewIs
  <2>6. ASSUME leaf.cited # "none" PROVE Evidence!Highlighted.role = "respondent"
    <3>1. \E k \in DOMAIN read.graph.citations : read.graph.citations[k].id = leaf.cited
      BY <2>6 DEF ReadInv
    <3>2. read.graph # Evidence!NoGraph
      <4>1. Evidence!NoGraph.citations = <<>> /\ DOMAIN <<>> = {}
        BY DEF Evidence!NoGraph
      <4>2. QED
        BY <3>1, <4>1
    <3>3. doc \in Documents /\ read.graph = Evidence!Graph(doc)
      BY <3>2 DEF ReadInv
    <3>4. QED
      BY <3>1, <3>3, HighlightedIs
  <2>7. QED
    BY <2>2, <2>3, <2>4, <2>5, <2>6 DEF NotesMatchTheText, CountsUp
<1>2. QED
  BY <1>1, InitRead, NextRead, PTL DEF Spec
=============================================================================
