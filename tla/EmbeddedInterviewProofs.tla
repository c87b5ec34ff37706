----------------------- MODULE EmbeddedInterviewProofs -----------------------
(***************************************************************************)
(* Proofs about EmbeddedInterview, for any guide, any surfaces and any     *)
(* number of replies, interviews and faults.                               *)
(*                                                                         *)
(* What the element shows rests on what is on its way to it, so the        *)
(* invariant (SiteInv) follows a message back to where it comes from: the  *)
(* frames of the sockets and of those being decoded (Frames), the page,    *)
(* the messages posted and the element.  What the headless client lists    *)
(* rests on which answer it waits for and on what is on its way over the   *)
(* one connection it holds (ClientInv).                                    *)
(*                                                                         *)
(* What the page's log says rests on the interview the page follows: which *)
(* replies are under way, recorded or given up (TalkInv), that every reply *)
(* has a number of its own and every interview opens with its first        *)
(* question, and that what is queued for the page comes after what is on   *)
(* it (OrderTalkInv).                                                      *)
(***************************************************************************)
EXTENDS EmbeddedInterview, SequenceTheorems, WellFoundedInduction, TLAPS

\* An interview has been completed.
Over == \E i \in DOMAIN interviews : interviews[i].over

-----------------------------------------------------------------------------
(* Frames on their way to the page.                                        *)

\* A frame of a text interview that names one of n interviews; it says that an
\* interview is completed only if one is.
Truthful(f, n, over) ==
  /\ f.type \in {"hello", "turn", "error"}
  /\ f.type = "hello" => f.id \in 1 .. n
  /\ f.type = "turn" /\ f.kind = "wrap_up" => over
  /\ f.type = "error" /\ f.reason = "interview_already_completed" => over

Sound(kind, f, n, over) == IF kind = "text" THEN Truthful(f, n, over) ELSE f.binary

Frames(kind, q, n, over) == \E S : q \in Seq(S) /\ \A f \in S : Sound(kind, f, n, over)

\* What the page has sent: the first frame of a connection may name an interview.
Asks(q, n) ==
  \E S : /\ q \in Seq(S)
         /\ \A f \in S : f.type \in {"start", "resume", "reply"} /\ (f.type = "resume" => f.n \in 1 .. n)

\* There may be more interviews, or one that is over, when a frame arrives.
LEMMA FramesLast ==
  ASSUME NEW kind, NEW q, NEW n \in Nat, NEW m \in Nat, n <= m,
         NEW over \in BOOLEAN, NEW done \in BOOLEAN, over => done, Frames(kind, q, n, over)
  PROVE  Frames(kind, q, m, done)
<1>1. PICK S : q \in Seq(S) /\ \A f \in S : Sound(kind, f, n, over)
  BY DEF Frames
<1>2. \A f \in S : Sound(kind, f, m, done)
  BY <1>1 DEF Sound, Truthful
<1>3. QED
  BY <1>1, <1>2 DEF Frames

LEMMA NoFrames ==
  ASSUME NEW kind, NEW n, NEW over
  PROVE  Frames(kind, <<>>, n, over)
<1> DEFINE S == {}
<1>1. <<>> \in Seq(S) /\ \A f \in S : Sound(kind, f, n, over)
  OBVIOUS
<1> HIDE DEF S
<1>2. QED
  BY <1>1 DEF Frames

LEMMA FramesHead ==
  ASSUME NEW kind, NEW q, NEW n, NEW over, Frames(kind, q, n, over), q # <<>>
  PROVE  Sound(kind, Head(q), n, over) /\ Frames(kind, Tail(q), n, over)
<1>1. PICK S : q \in Seq(S) /\ \A f \in S : Sound(kind, f, n, over)
  BY DEF Frames
<1>2. Head(q) \in S /\ Tail(q) \in Seq(S)
  BY <1>1
<1>3. QED
  BY <1>1, <1>2 DEF Frames

LEMMA FramesJoin ==
  ASSUME NEW kind, NEW q, NEW r, NEW n, NEW over, Frames(kind, q, n, over), Frames(kind, r, n, over)
  PROVE  Frames(kind, q \o r, n, over)
<1>1. PICK S : q \in Seq(S) /\ \A f \in S : Sound(kind, f, n, over)
  BY DEF Frames
<1>2. PICK T : r \in Seq(T) /\ \A f \in T : Sound(kind, f, n, over)
  BY DEF Frames
<1>3. q \in Seq(S \union T) /\ r \in Seq(S \union T)
  BY <1>1, <1>2
<1>4. q \o r \in Seq(S \union T)
  BY <1>3
<1>5. QED
  BY <1>1, <1>2, <1>4 DEF Frames

LEMMA FramesPart ==
  ASSUME NEW kind, NEW q, NEW n, NEW over, Frames(kind, q, n, over), NEW k \in 0 .. Len(q)
  PROVE  Frames(kind, SubSeq(q, 1, k), n, over)
<1>1. PICK S : q \in Seq(S) /\ \A f \in S : Sound(kind, f, n, over)
  BY DEF Frames
<1>2. SubSeq(q, 1, k) \in Seq(S)
  BY <1>1
<1>3. QED
  BY <1>1, <1>2 DEF Frames

LEMMA OneFrame ==
  ASSUME NEW kind, NEW f, NEW n, NEW over, Sound(kind, f, n, over)
  PROVE  Frames(kind, <<f>>, n, over)
<1> DEFINE S == {f}
<1>1. <<f>> \in Seq(S) /\ \A g \in S : Sound(kind, g, n, over)
  OBVIOUS
<1> HIDE DEF S
<1>2. QED
  BY <1>1 DEF Frames

LEMMA FramesMore ==
  ASSUME NEW kind, NEW q, NEW f, NEW n, NEW over, Frames(kind, q, n, over), Sound(kind, f, n, over)
  PROVE  Frames(kind, Append(q, f), n, over)
<1>1. PICK S : q \in Seq(S) /\ \A g \in S : Sound(kind, g, n, over)
  BY DEF Frames
<1>2. Append(q, f) \in Seq(S \union {f})
  BY <1>1
<1>3. QED
  BY <1>1, <1>2 DEF Frames

\* What is asked of the server.
LEMMA NothingAsked ==
  ASSUME NEW n
  PROVE  Asks(<<>>, n)
<1> DEFINE S == {}
<1>1. <<>> \in Seq(S)
  OBVIOUS
<1>2. \A f \in S : f.type \in {"start", "resume", "reply"} /\ (f.type = "resume" => f.n \in 1 .. n)
  OBVIOUS
<1> HIDE DEF S
<1>3. QED
  BY <1>1, <1>2 DEF Asks

LEMMA AsksMore ==
  ASSUME NEW q, NEW n \in Nat, NEW m \in Nat, n <= m, Asks(q, n)
  PROVE  /\ Asks(q, m)
         /\ q # <<>> => /\ Asks(Tail(q), m)
                        /\ Head(q).type \in {"start", "resume", "reply"}
                        /\ Head(q).type = "resume" => Head(q).n \in 1 .. n
         /\ \A k : /\ Asks(Append(q, [type |-> "reply", n |-> k]), m)
                   /\ Append(q, [type |-> "reply", n |-> k]) # <<>>
                   /\ q # <<>> => Head(Append(q, [type |-> "reply", n |-> k])) = Head(q)
<1>1. PICK S : /\ q \in Seq(S)
               /\ \A f \in S : f.type \in {"start", "resume", "reply"} /\ (f.type = "resume" => f.n \in 1 .. n)
  BY DEF Asks
<1>2. \A f \in S : f.type = "resume" => f.n \in 1 .. m
  BY <1>1
<1>3. Asks(q, m)
  BY <1>1, <1>2 DEF Asks
<1>4. ASSUME q # <<>>
      PROVE  Head(q) \in S /\ Asks(Tail(q), m)
  BY <1>1, <1>2, <1>4 DEF Asks
<1>5. ASSUME NEW k
      PROVE  /\ Asks(Append(q, [type |-> "reply", n |-> k]), m)
             /\ Append(q, [type |-> "reply", n |-> k]) # <<>>
             /\ q # <<>> => Head(Append(q, [type |-> "reply", n |-> k])) = Head(q)
  <2> DEFINE r == [type |-> "reply", n |-> k]
  <2>1. r.type = "reply"
    OBVIOUS
  <2> HIDE DEF r
  <2>2. q \in Seq(S \union {r}) /\ r \in S \union {r}
    BY <1>1
  <2>3. Append(q, r) \in Seq(S \union {r}) /\ Append(q, r) # <<>> /\ (q # <<>> => Head(Append(q, r)) = Head(q))
    BY <2>2, AppendProperties, HeadTailAppend
  <2>4. \A f \in S \union {r} : f.type \in {"start", "resume", "reply"} /\ (f.type = "resume" => f.n \in 1 .. m)
    BY <1>1, <1>2, <2>1
  <2>5. QED
    BY <2>3, <2>4 DEF Asks, r
<1>6. QED
  BY <1>1, <1>3, <1>4, <1>5

LEMMA FirstAsked ==
  ASSUME NEW n, NEW f, f.type \in {"start", "resume", "reply"}, f.type = "resume" => f.n \in 1 .. n
  PROVE  Asks(<<f>>, n) /\ <<f>> # <<>> /\ Head(<<f>>) = f
<1> DEFINE S == {f}
<1>1. <<f>> \in Seq(S) /\ <<f>> # <<>> /\ Head(<<f>>) = f
  OBVIOUS
<1>2. \A g \in S : g.type \in {"start", "resume", "reply"} /\ (g.type = "resume" => g.n \in 1 .. n)
  OBVIOUS
<1> HIDE DEF S
<1>3. QED
  BY <1>1, <1>2 DEF Asks

-----------------------------------------------------------------------------
(* The interviews, which only become more and only become over.            *)

LedgerInv == \E S : interviews \in Seq(S)

Grown ==
  /\ LedgerInv' /\ Len(interviews) \in Nat /\ Len(interviews') \in Nat
  /\ Len(interviews) <= Len(interviews')
  /\ Over \in BOOLEAN /\ Over' \in BOOLEAN /\ (Over => Over')

LEMMA SameLedger ==
  ASSUME LedgerInv, UNCHANGED interviews
  PROVE  Grown
BY DEF LedgerInv, Grown, Over

LEMMA MoreInLedger ==
  ASSUME LedgerInv, NEW i, interviews' = Append(interviews, i)
  PROVE  Grown /\ Len(interviews') = Len(interviews) + 1
<1>1. PICK S : interviews \in Seq(S)
  BY DEF LedgerInv
<1>2. interviews \in Seq(S \union {i}) /\ i \in S \union {i}
  BY <1>1
<1>3. interviews' \in Seq(S \union {i}) /\ Len(interviews') = Len(interviews) + 1
  BY <1>2, AppendProperties
<1>4. \A k \in 1 .. Len(interviews) : interviews'[k] = interviews[k]
  BY <1>2, AppendProperties
<1>5. DOMAIN interviews = 1 .. Len(interviews) /\ DOMAIN interviews' = 1 .. Len(interviews')
      /\ Len(interviews) \in Nat
  BY <1>1, <1>3
<1>6. Over => Over'
  BY <1>3, <1>4, <1>5 DEF Over
<1>7. QED
  BY <1>3, <1>5, <1>6 DEF LedgerInv, Grown, Over

LEMMA TurnInLedger ==
  ASSUME LedgerInv, NEW i, NEW n, NEW kind, interviews' = WithTurn(i, n, kind)
  PROVE  /\ Grown /\ Len(interviews') = Len(interviews)
         /\ i \in DOMAIN interviews /\ kind = "wrap_up" => Over'
<1> DEFINE was == interviews[i]
           new == [lines |-> was.lines \o <<Line("respondent", n), Line("interviewer", n)>>,
                   order |-> was.order + (IF kind = "ask" THEN 1 ELSE 0),
                   over  |-> was.over \/ kind = "wrap_up"]
<1>1. PICK S : interviews \in Seq(S)
  BY DEF LedgerInv
<1>2. interviews' = [interviews EXCEPT ![i] = new]
  BY DEF WithTurn
<1>3. (new.over <=> was.over \/ kind = "wrap_up")
  OBVIOUS
<1> HIDE DEF new
<1>4. interviews' \in Seq(S \union {new}) /\ Len(interviews') = Len(interviews)
      /\ DOMAIN interviews' = DOMAIN interviews
  <2>1. interviews \in Seq(S \union {new}) /\ new \in S \union {new}
    BY <1>1
  <2>2. CASE i \in 1 .. Len(interviews)
    BY <1>2, <2>1, <2>2, ExceptSeq
  <2>3. CASE i \notin 1 .. Len(interviews)
    <3>1. DOMAIN interviews = 1 .. Len(interviews)
      BY <1>1
    <3>2. interviews' = interviews
      BY <1>1, <1>2, <2>3, <3>1
    <3>3. QED
      BY <2>1, <3>2
  <2>4. QED
    BY <2>2, <2>3
<1>5. \A k \in DOMAIN interviews : interviews'[k] = IF k = i THEN new ELSE interviews[k]
  BY <1>1, <1>2
<1>6. Over => Over'
  BY <1>3, <1>4, <1>5 DEF Over
<1>7. i \in DOMAIN interviews /\ kind = "wrap_up" => Over'
  BY <1>3, <1>4, <1>5 DEF Over
<1>8. QED
  BY <1>1, <1>4, <1>6, <1>7 DEF LedgerInv, Grown, Over

-----------------------------------------------------------------------------
(* The connection of the page.                                             *)

SockFields == {"kind", "st", "id", "up", "down"}

\* The token and the connection are for interviews there are, and the first frame
\* of a connection is not a reply.
SockInv ==
  /\ sock = [f \in SockFields |-> sock[f]]
  /\ sock.id \in 0 .. Len(interviews) /\ token \in 0 .. Len(interviews)
  /\ Frames(sock.kind, sock.down, Len(interviews), Over)
  /\ Frames("text", late, Len(interviews), Over)
  /\ Asks(sock.up, Len(interviews))
  /\ sock.st = "open" /\ sock.id = 0 => sock.up # <<>> /\ Head(sock.up).type \in {"start", "resume"}

LEMMA SockLasts ==
  ASSUME SockInv, Grown
  PROVE  /\ sock.id \in 0 .. Len(interviews') /\ token \in 0 .. Len(interviews')
         /\ Frames(sock.kind, sock.down, Len(interviews'), Over')
         /\ Frames("text", late, Len(interviews'), Over')
         /\ Asks(sock.up, Len(interviews'))
<1>1. Len(interviews) \in Nat /\ Len(interviews') \in Nat /\ Len(interviews) <= Len(interviews')
      /\ Over \in BOOLEAN /\ Over' \in BOOLEAN /\ (Over => Over')
  BY DEF Grown
<1>2. Asks(sock.up, Len(interviews'))
  BY <1>1, AsksMore DEF SockInv
<1>3. Frames(sock.kind, sock.down, Len(interviews'), Over') /\ Frames("text", late, Len(interviews'), Over')
  BY <1>1, FramesLast DEF SockInv
<1>4. QED
  BY <1>1, <1>2, <1>3 DEF SockInv

\* A connection that is closed or being dialled carries nothing.
LEMMA NewSock ==
  ASSUME SockInv, Grown, NEW k, sock' = [NoSock EXCEPT !.kind = k] \/ sock' = Dial(k) \/ sock' = NoSock,
         Frames("text", late', Len(interviews'), Over'), token' \in 0 .. Len(interviews')
  PROVE  SockInv'
<1>1. /\ sock' = [f \in SockFields |-> sock'[f]]
      /\ sock'.id = 0 /\ sock'.up = <<>> /\ sock'.down = <<>> /\ sock'.st # "open"
  <2>1. PICK kind, st : st # "open" /\ sock' = [kind |-> kind, st |-> st, id |-> 0, up |-> <<>>, down |-> <<>>]
    <3>1. CASE sock' = NoSock
      BY <3>1 DEF NoSock
    <3>2. CASE sock' = [NoSock EXCEPT !.kind = k]
      <4>1. sock' = [kind |-> k, st |-> "closed", id |-> 0, up |-> <<>>, down |-> <<>>]
        BY <3>2 DEF NoSock
      <4>2. QED
        BY <4>1
    <3>3. CASE sock' = Dial(k)
      <4>1. sock' = [kind |-> k, st |-> "connecting", id |-> 0, up |-> <<>>, down |-> <<>>]
        BY <3>3 DEF NoSock, Dial
      <4>2. QED
        BY <4>1
    <3>4. QED
      BY <3>1, <3>2, <3>3
  <2>2. QED
    BY <2>1 DEF SockFields
<1>2. Frames(sock'.kind, <<>>, Len(interviews'), Over') /\ Asks(<<>>, Len(interviews'))
  BY NoFrames, NothingAsked
<1>3. Len(interviews') \in Nat
  BY DEF Grown
<1>4. QED
  BY <1>1, <1>2, <1>3 DEF SockInv

\* What is kept of a connection that goes.
LEMMA KeptLate ==
  ASSUME SockInv, Grown, NEW k \in 0 .. Len(sock.down),
         late' = IF sock.kind = "text" THEN late \o SubSeq(sock.down, 1, k) ELSE late
  PROVE  Frames("text", late', Len(interviews'), Over')
<1>1. CASE sock.kind = "text"
  <2>1. Frames("text", SubSeq(sock.down, 1, k), Len(interviews'), Over')
    BY <1>1, SockLasts, FramesPart
  <2>2. QED
    BY <1>1, <2>1, SockLasts, FramesJoin
<1>2. CASE sock.kind # "text"
  BY <1>2, SockLasts
<1>3. QED
  BY <1>1, <1>2

\* The server's answer to the first frame.
LEMMA ShakeKept ==
  ASSUME LedgerInv, SockInv, Shake
  PROVE  Grown /\ SockInv'
<1> DEFINE f == Head(sock.up)
<1>1. /\ f.type = "resume" => f.n \in 1 .. Len(interviews)
      /\ sock = [g \in SockFields |-> sock[g]] /\ sock.st = "open" /\ sock.up # <<>>
      /\ f.type \in {"start", "resume"}
      /\ Len(interviews) \in Nat /\ DOMAIN interviews = 1 .. Len(interviews)
  <2>1. Len(interviews) \in Nat /\ DOMAIN interviews = 1 .. Len(interviews)
    BY DEF LedgerInv
  <2>2. Asks(sock.up, Len(interviews)) /\ sock.up # <<>>
    BY DEF SockInv, Shake
  <2>3. f.type = "resume" => f.n \in 1 .. Len(interviews)
    BY <2>1, <2>2, AsksMore
  <2>4. QED
    BY <2>1, <2>3 DEF SockInv, Shake
<1> HIDE DEF f
<1>2. UNCHANGED <<late, token>>
  BY DEF Shake
<1>3. ASSUME Grown, NEW i \in 1 .. Len(interviews'), NEW resumed, Joined(resumed, i)
      PROVE  SockInv'
  <2> DEFINE g == IF sock.kind = "text" THEN Hello(i, resumed) ELSE DrainSendJson("hello", 0)
  <2>1. Sound(sock.kind, g, Len(interviews'), Over')
    BY DEF Sound, Truthful, Hello, DrainSendJson
  <2>2. sock' = [sock EXCEPT !.up = Tail(sock.up), !.id = i, !.down = Append(sock.down, g)]
    BY <1>3 DEF Joined
  <2> HIDE DEF g
  <2>3. Frames(sock.kind, Append(sock.down, g), Len(interviews'), Over')
    BY <1>3, <2>1, SockLasts, FramesMore
  <2>4. Asks(Tail(sock.up), Len(interviews'))
    BY <1>1, <1>3, AsksMore DEF SockInv, Grown
  <2>5. /\ sock' = [h \in SockFields |-> sock'[h]]
        /\ sock'.kind = sock.kind /\ sock'.id = i /\ sock'.up = Tail(sock.up)
        /\ sock'.down = Append(sock.down, g)
    BY <1>1, <2>2 DEF SockFields
  <2>6. i \in Nat /\ i > 0 /\ i <= Len(interviews')
    BY <1>3 DEF Grown
  <2>7. QED
    BY <1>2, <1>3, <2>3, <2>4, <2>5, <2>6, SockLasts DEF SockInv
<1>4. ASSUME NEW reason, NEW what, UNCHANGED interviews, sock.kind = "text",
             sock' = [sock EXCEPT !.st = "ending", !.up = <<>>, !.down = <<ErrorFrame(reason, FALSE)>>],
             reason = "interview_already_completed" => Over
      PROVE  Grown /\ SockInv'
  <2>1. Grown
    BY <1>4, SameLedger
  <2>2. /\ sock' = [h \in SockFields |-> sock'[h]] /\ sock'.st = "ending"
        /\ sock'.kind = "text" /\ sock'.id = sock.id /\ sock'.up = <<>>
        /\ sock'.down = <<ErrorFrame(reason, FALSE)>>
    BY <1>1, <1>4 DEF SockFields
  <2>3. Sound("text", ErrorFrame(reason, FALSE), Len(interviews'), Over')
    BY <1>4, <2>1 DEF Sound, Truthful, ErrorFrame, Grown
  <2>4. Frames("text", <<ErrorFrame(reason, FALSE)>>, Len(interviews'), Over')
    BY <2>3, OneFrame
  <2>5. Asks(<<>>, Len(interviews'))
    BY NothingAsked
  <2>6. QED
    BY <1>2, <2>1, <2>2, <2>4, <2>5, SockLasts DEF SockInv
<1>5. CASE \E i : interviews' = Append(interviews, i) /\ Joined(FALSE, Len(interviews'))
  <2>1. Grown /\ Len(interviews') \in 1 .. Len(interviews')
    BY <1>1, <1>5, MoreInLedger
  <2>2. QED
    BY <1>3, <1>5, <2>1
<1>6. CASE f.type = "resume" /\ UNCHANGED interviews /\ Joined(TRUE, f.n)
  <2>1. Grown /\ f.n \in 1 .. Len(interviews')
    BY <1>1, <1>6, SameLedger
  <2>2. QED
    BY <1>3, <1>6, <2>1
<1>7. CASE /\ sock.kind = "text" /\ f.type = "resume" /\ interviews[f.n].over /\ UNCHANGED interviews
           /\ sock' = [sock EXCEPT !.st = "ending", !.up = <<>>,
                         !.down = <<ErrorFrame("interview_already_completed", FALSE)>>]
  <2>1. Over
    BY <1>1, <1>7 DEF Over
  <2>2. QED
    BY <1>4, <1>7, <2>1
<1>8. CASE /\ sock.kind = "text" /\ UNCHANGED interviews
           /\ \E reason \in Rejections(f.n) :
                sock' = [sock EXCEPT !.st = "ending", !.up = <<>>, !.down = <<ErrorFrame(reason, FALSE)>>]
  <2>1. PICK reason \in Rejections(f.n) :
          sock' = [sock EXCEPT !.st = "ending", !.up = <<>>, !.down = <<ErrorFrame(reason, FALSE)>>]
    BY <1>8
  <2>2. reason # "interview_already_completed"
    BY DEF Rejections
  <2>3. QED
    BY <1>4, <1>8, <2>1, <2>2
<1>9. QED
  BY <1>5, <1>6, <1>7, <1>8 DEF Shake, f

\* A reply is answered with a turn: the end of it is one of the interview.
LEMMA ServeKept ==
  ASSUME LedgerInv, SockInv, Serve \/ ServeVoice
  PROVE  Grown /\ SockInv'
<1> DEFINE n == Head(sock.up).n
<1>1. /\ sock = [g \in SockFields |-> sock[g]] /\ sock.up # <<>> /\ sock.id \in 1 .. Len(interviews)
      /\ Len(interviews) \in Nat /\ DOMAIN interviews = 1 .. Len(interviews)
      /\ UNCHANGED <<late, token>>
  <2>1. Len(interviews) \in Nat /\ DOMAIN interviews = 1 .. Len(interviews)
    BY DEF LedgerInv
  <2>2. sock.st = "open" /\ sock.up # <<>> /\ Head(sock.up).type = "reply" /\ UNCHANGED <<late, token>>
    BY DEF Serve, ServeVoice
  <2>3. sock.id # 0
    BY <2>2 DEF SockInv
  <2>4. QED
    BY <2>1, <2>2, <2>3 DEF SockInv
<1>2. ASSUME Grown, NEW q, Send(q), Frames(sock.kind, q, Len(interviews'), Over')
      PROVE  SockInv'
  <2>1. /\ sock' = [h \in SockFields |-> sock'[h]] /\ sock'.kind = sock.kind /\ sock'.id = sock.id
        /\ sock'.up = Tail(sock.up) /\ sock'.down = sock.down \o q
    BY <1>1, <1>2 DEF SockFields, Send
  <2>2. Frames(sock.kind, sock.down \o q, Len(interviews'), Over')
    BY <1>2, SockLasts, FramesJoin
  <2>3. Asks(Tail(sock.up), Len(interviews'))
    BY <1>1, <1>2, AsksMore DEF SockInv, Grown
  <2>4. sock.id # 0
    BY <1>1
  <2>5. QED
    BY <1>1, <1>2, <2>1, <2>2, <2>3, <2>4, SockLasts DEF SockInv
<1>3. ASSUME NEW kind, interviews' = WithTurn(sock.id, n, kind), sock.kind = "text",
             Send(<<TurnFrame(n, kind, sock.id)>>)
      PROVE  Grown /\ SockInv'
  <2>1. Grown /\ (kind = "wrap_up" => Over')
    BY <1>1, <1>3, TurnInLedger
  <2>2. Sound("text", TurnFrame(n, kind, sock.id), Len(interviews'), Over')
    BY <2>1 DEF Sound, Truthful, TurnFrame
  <2>3. QED
    BY <1>2, <1>3, <2>1, <2>2, OneFrame
<1>4. ASSUME UNCHANGED interviews, sock.kind = "text",
             Send(<<ErrorFrame("interviewer_unavailable", TRUE)>>)
      PROVE  Grown /\ SockInv'
  <2>1. Sound("text", ErrorFrame("interviewer_unavailable", TRUE), Len(interviews'), Over')
    BY DEF Sound, Truthful, ErrorFrame
  <2>2. QED
    BY <1>2, <1>4, <2>1, OneFrame, SameLedger
<1>5. ASSUME NEW kind, interviews' = WithTurn(sock.id, n, kind), sock.kind = "voice", Send(Spoken(n, kind))
      PROVE  Grown /\ SockInv'
  <2>1. Grown
    BY <1>1, <1>5, TurnInLedger
  <2>2. \A about, m : DrainSendJson(about, m).binary
    BY DEF DrainSendJson
  <2>3. PICK a, b, c, d, e : /\ a.binary /\ b.binary /\ c.binary /\ d.binary /\ e.binary
                             /\ Spoken(n, kind) = <<a, b, c, d, e>>
    BY <2>2 DEF Spoken
  <2> DEFINE S == {a, b, c, d, e}
  <2>4. Spoken(n, kind) \in Seq(S)
    <3>1. <<a, b, c, d, e>> \in Seq(S)
      OBVIOUS
    <3>2. QED
      BY <2>3, <3>1
  <2>5. \A f \in S : Sound("voice", f, Len(interviews'), Over')
    BY <2>3 DEF Sound
  <2> HIDE DEF S
  <2>6. Frames("voice", Spoken(n, kind), Len(interviews'), Over')
    BY <2>4, <2>5 DEF Frames
  <2>7. QED
    BY <1>2, <1>5, <2>1, <2>6
<1>6. QED
  BY <1>3, <1>4, <1>5 DEF Serve, ServeVoice

\* A frame is taken from the connection, or was left by an earlier one; the token
\* is that of an interview the server has greeted the page with.
LEMMA OnMessageKept ==
  ASSUME LedgerInv, SockInv, NEW f, Current(f) \/ Earlier(f),
         token' = TokenAfter(f, page'), UNCHANGED interviews
  PROVE  Grown /\ SockInv' /\ Truthful(f, Len(interviews), Over)
<1>1. Grown
  BY SameLedger
<1>2. /\ sock = [g \in SockFields |-> sock[g]] /\ Len(interviews) \in Nat
      /\ sock.st = "open" /\ sock.id = 0 => sock.up # <<>> /\ Head(sock.up).type \in {"start", "resume"}
      /\ Asks(sock.up, Len(interviews'))
  BY <1>1, SockLasts DEF SockInv, Grown
<1>3. ASSUME Truthful(f, Len(interviews), Over)
      PROVE  token' \in 0 .. Len(interviews')
  BY <1>2, <1>3 DEF TokenAfter, Truthful, SockInv
<1>4. CASE Current(f)
  <2>1. /\ sock.kind = "text" /\ sock.down # <<>> /\ f = Head(sock.down) /\ UNCHANGED late
        /\ \/ sock' = [sock EXCEPT !.st = "closing", !.down = <<>>]
           \/ sock' = NoSock
           \/ sock' = [sock EXCEPT !.down = Tail(sock.down)]
    BY <1>4 DEF Current
  <2>2. Sound("text", f, Len(interviews), Over) /\ Frames("text", Tail(sock.down), Len(interviews), Over)
    BY <2>1, FramesHead DEF SockInv
  <2>3. Truthful(f, Len(interviews), Over) /\ token' \in 0 .. Len(interviews')
    BY <1>3, <2>2 DEF Sound
  <2>4. Frames("text", late', Len(interviews'), Over')
    BY <1>1, <2>1, SockLasts
  <2>5. Frames("text", Tail(sock.down), Len(interviews'), Over') /\ Frames("text", <<>>, Len(interviews'), Over')
    BY <1>1, <2>2, FramesLast, NoFrames DEF Grown
  <2>6. CASE sock' = [sock EXCEPT !.st = "closing", !.down = <<>>]
    <3>1. /\ sock' = [g \in SockFields |-> sock'[g]] /\ sock'.kind = "text" /\ sock'.id = sock.id
          /\ sock'.up = sock.up /\ sock'.down = <<>> /\ sock'.st = "closing"
      BY <1>2, <2>1, <2>6 DEF SockFields
    <3>2. QED
      BY <1>1, <1>2, <2>3, <2>4, <2>5, <3>1, SockLasts DEF SockInv
  <2>7. CASE sock' = NoSock
    BY <1>1, <2>3, <2>4, <2>7, NewSock
  <2>8. CASE sock' = [sock EXCEPT !.down = Tail(sock.down)]
    <3>1. /\ sock' = [g \in SockFields |-> sock'[g]] /\ sock'.kind = "text" /\ sock'.id = sock.id
          /\ sock'.up = sock.up /\ sock'.down = Tail(sock.down) /\ sock'.st = sock.st
      BY <1>2, <2>1, <2>8 DEF SockFields
    <3>2. QED
      BY <1>1, <1>2, <2>3, <2>4, <2>5, <3>1, SockLasts DEF SockInv
  <2>9. QED
    BY <1>1, <2>1, <2>3, <2>6, <2>7, <2>8
<1>5. CASE Earlier(f)
  <2>1. Sound("text", f, Len(interviews), Over) /\ Frames("text", late', Len(interviews), Over)
    BY <1>5, FramesHead DEF SockInv, Earlier
  <2>2. Truthful(f, Len(interviews), Over) /\ token' \in 0 .. Len(interviews')
    BY <1>3, <2>1 DEF Sound
  <2>3. Frames("text", late', Len(interviews'), Over')
    BY <1>1, <2>1, FramesLast DEF Grown
  <2>4. CASE sock' = NoSock
    BY <1>1, <2>2, <2>3, <2>4, NewSock
  <2>5. CASE sock' = sock
    BY <1>1, <1>2, <2>2, <2>3, <2>5, SockLasts DEF SockInv
  <2>6. QED
    BY <1>1, <1>5, <2>2, <2>4, <2>5 DEF Earlier
<1>6. QED
  BY <1>4, <1>5

LEMMA SameSock ==
  ASSUME SockInv, Grown, UNCHANGED <<sock, late, token>>
  PROVE  SockInv'
BY SockLasts DEF SockInv

LEMMA StragglerGrows ==
  ASSUME LedgerInv, Straggler
  PROVE  Grown
BY TurnInLedger, SameLedger DEF Straggler

\* Whoever acts, the connection and the token stay sound.
LEMMA SockKept ==
  ASSUME LedgerInv, SockInv, [Next]_vars
  PROVE  Grown /\ SockInv'
<1> DEFINE Same == UNCHANGED <<sock, late, token>>
<1>1. /\ sock = [g \in SockFields |-> sock[g]] /\ Len(interviews) \in Nat
      /\ sock.st = "open" /\ sock.id = 0 => sock.up # <<>> /\ Head(sock.up).type \in {"start", "resume"}
  BY DEF SockInv, LedgerInv
<1>2. UNCHANGED interviews => Grown
  BY SameLedger
<1>3. ASSUME Same, UNCHANGED interviews PROVE Grown /\ SockInv'
  BY <1>2, <1>3, SameSock
<1>4. ASSUME UNCHANGED <<interviews, token>>, NEW k, sock' = Dial(k) \/ sock' = NoSock, NEW j \in 0 .. Len(sock.down),
             late' = IF sock.kind = "text" THEN late \o SubSeq(sock.down, 1, j) ELSE late
      PROVE  Grown /\ SockInv'
  BY <1>2, <1>4, KeptLate, SockLasts, NewSock
<1>5. ASSUME UNCHANGED <<interviews, token, late>>,
             \/ UNCHANGED sock
             \/ /\ sock.st = "open"
                /\ \E k : sock' = [sock EXCEPT !.up = Append(sock.up, [type |-> "reply", n |-> k])]
      PROVE  Grown /\ SockInv'
  <2>1. CASE UNCHANGED sock
    BY <1>3, <1>5, <2>1
  <2>2. ASSUME NEW k, sock.st = "open", sock' = [sock EXCEPT !.up = Append(sock.up, [type |-> "reply", n |-> k])]
        PROVE  Grown /\ SockInv'
    <3> DEFINE up == Append(sock.up, [type |-> "reply", n |-> k])
    <3>1. Asks(up, Len(interviews')) /\ up # <<>> /\ (sock.up # <<>> => Head(up) = Head(sock.up))
      BY <1>1, <1>5, AsksMore DEF SockInv
    <3>2. sock' = [sock EXCEPT !.up = up]
      BY <2>2
    <3> HIDE DEF up
    <3>3. /\ sock' = [g \in SockFields |-> sock'[g]] /\ sock'.kind = sock.kind /\ sock'.id = sock.id
          /\ sock'.up = up /\ sock'.down = sock.down /\ sock'.st = sock.st
      BY <1>1, <3>2 DEF SockFields
    <3>4. QED
      BY <1>1, <1>2, <1>5, <3>1, <3>3, SockLasts DEF SockInv
  <2>3. QED
    BY <1>5, <2>1, <2>2
<1>6. CASE Preflight \/ Align \/ Tick \/ StaleClose \/ Watchdog \/ Redirect
  BY <1>3, <1>6 DEF Preflight, Align, Tick, StaleClose, Watchdog, Redirect, serverVars
<1>7. CASE AudioEnds \/ MicAnswered \/ ToggleReadAloud
  BY <1>3, <1>7 DEF AudioEnds, MicAnswered, ToggleReadAloud, serverVars
<1>8. CASE HostOpen \/ ReadyTimeout \/ HandleMessage
  BY <1>3, <1>8 DEF HostOpen, ReadyTimeout, HandleMessage, serverVars, pageVars
<1>9. CASE \E mode \in {"text", "voice"} : Start(mode)
  <2>1. PICK mode : sock' = Dial(mode) /\ UNCHANGED <<interviews, token, late>>
    BY <1>9 DEF Start, serverVars
  <2>2. QED
    BY <1>2, <2>1, SockLasts, NewSock
<1>10. CASE Opened
  <2> DEFINE f == IF sock.kind = "text"
                  THEN [type |-> IF token = 0 THEN "start" ELSE "resume", n |-> token]
                  ELSE [type |-> "start", n |-> 0]
  <2>1. UNCHANGED <<interviews, late, token>> /\ token \in 0 .. Len(interviews')
    BY <1>10 DEF Opened, serverVars, SockInv
  <2>2. sock' = [sock EXCEPT !.st = "open", !.up = <<f>>]
    BY <1>10 DEF Opened
  <2>3. f.type \in {"start", "resume"} /\ (f.type = "resume" => f.n \in 1 .. Len(interviews'))
    BY <1>1, <2>1
  <2> HIDE DEF f
  <2>4. Asks(<<f>>, Len(interviews')) /\ <<f>> # <<>> /\ Head(<<f>>) = f
    BY <2>3, FirstAsked
  <2>5. /\ sock' = [g \in SockFields |-> sock'[g]] /\ sock'.kind = sock.kind /\ sock'.id = sock.id
        /\ sock'.up = <<f>> /\ sock'.down = sock.down
    BY <1>1, <2>2 DEF SockFields
  <2>6. QED
    BY <1>2, <2>1, <2>3, <2>4, <2>5, SockLasts DEF SockInv
<1>11. CASE Closed
  <2>1. PICK k \in 0 .. Len(sock.down) :
          late' = IF sock.kind = "text" THEN late \o SubSeq(sock.down, 1, k) ELSE late
    BY <1>11 DEF Closed
  <2>2. sock' = [NoSock EXCEPT !.kind = sock.kind] /\ UNCHANGED <<interviews, token>>
    BY <1>11 DEF Closed
  <2>3. QED
    BY <1>2, <2>1, <2>2, KeptLate, SockLasts, NewSock
<1>12. CASE Reconnect
  <2>1. PICK k \in 0 .. Len(sock.down) : Retired(sock, k)
    BY <1>12 DEF Reconnect
  <2>2. QED
    BY <1>4, <1>12, <2>1 DEF Reconnect, Retired, serverVars
<1>13. CASE Shake \/ Serve \/ ServeVoice
  BY <1>13, ShakeKept, ServeKept
<1>14. CASE OnMessage
  BY <1>14, OnMessageKept DEF OnMessage, serverVars
<1>15. CASE SendReply
  <2>1. UNCHANGED <<interviews, token, late>>
    BY <1>15 DEF SendReply
  <2>2. \/ UNCHANGED sock
        \/ /\ sock.st = "open"
           /\ sock' = [sock EXCEPT !.up = Append(sock.up, [type |-> "reply", n |-> replies'])]
    BY <1>15 DEF SendReply
  <2>3. QED
    BY <1>5, <2>1, <2>2
<1>16. CASE OrbTap
  BY <1>5, <1>16 DEF OrbTap
<1>17. CASE LingerEnds
  <2>1. PICK k \in 0 .. Len(sock.down) : Retired(sock, k)
    BY <1>17 DEF LingerEnds
  <2>2. sock' = NoSock /\ token' = 0 /\ UNCHANGED interviews
    BY <1>17 DEF LingerEnds
  <2>3. late' = IF sock.kind = "text" THEN late \o SubSeq(sock.down, 1, k) ELSE late
    BY <2>1 DEF Retired
  <2>4. Frames("text", late', Len(interviews'), Over')
    BY <1>2, <2>2, <2>3, KeptLate
  <2>5. token' \in 0 .. Len(interviews')
    BY <1>1, <2>2
  <2>6. QED
    BY <1>2, <2>2, <2>4, <2>5, NewSock
<1>18. CASE OnVoiceMessage
  <2>1. /\ sock' = [sock EXCEPT !.down = Tail(sock.down)] /\ sock.down # <<>>
        /\ UNCHANGED <<interviews, late, token>>
    BY <1>18 DEF OnVoiceMessage, serverVars
  <2>2. Grown /\ Frames(sock.kind, Tail(sock.down), Len(interviews'), Over')
    BY <1>2, <2>1, SockLasts, FramesHead
  <2>3. /\ sock' = [g \in SockFields |-> sock'[g]] /\ sock'.kind = sock.kind /\ sock'.id = sock.id
        /\ sock'.up = sock.up /\ sock'.down = Tail(sock.down) /\ sock'.st = sock.st
    BY <1>1, <2>1 DEF SockFields
  <2>4. QED
    BY <1>1, <2>1, <2>2, <2>3, SockLasts DEF SockInv
<1>19. CASE SwitchToText
  <2>1. Len(sock.down) \in Nat
    BY DEF SockInv, Frames
  <2>2. QED
    BY <1>4, <1>19, <2>1 DEF SwitchToText, Retired, serverVars
<1>20. CASE Reload \/ HostClose
  BY <1>2, <1>20, SockLasts, NoFrames, NewSock DEF Reload, HostClose
<1>21. CASE Straggler /\ UNCHANGED pageVars
  BY <1>21, StragglerGrows, SameSock DEF pageVars
<1>22. CASE Headless
  <2>1. Same
    BY <1>22 DEF Headless, pageVars
  <2>2. CASE SdkServe
    <3>1. CASE UNCHANGED interviews
      BY <1>3, <2>1, <3>1
    <3>2. CASE interviews' = Append(interviews, Begun)
      BY <2>1, <3>2, MoreInLedger, SameSock
    <3>3. ASSUME NEW n, NEW kind, interviews' = WithTurn(link.id, n, kind) PROVE Grown /\ SockInv'
      BY <2>1, <3>3, TurnInLedger, SameSock
    <3>4. QED
      BY <2>2, <3>1, <3>2, <3>3 DEF SdkServe
  <2>3. CASE Straggler
    BY <2>1, <2>3, StragglerGrows, SameSock
  <2>4. UNCHANGED interviews \/ SdkServe \/ Straggler
    BY <1>22 DEF Headless, SdkStep, Load, Loaded, SdkStart, StartSession, Restart, Authorized,
       SocketOpen, SocketClose, SdkMessage, SdkReply, SdkRetry, SdkClose, serverVars
  <2>5. QED
    BY <1>3, <2>1, <2>2, <2>3, <2>4
<1>23. CASE UNCHANGED vars
  BY <1>3, <1>23 DEF vars, pageVars, serverVars
<1>24. QED
  BY <1>6, <1>7, <1>8, <1>9, <1>10, <1>11, <1>12, <1>13, <1>14, <1>15, <1>16, <1>17, <1>18, <1>19,
     <1>20, <1>21, <1>22, <1>23
     DEF Next, Embedded, Direct, ElementStep, HostStep, PageStep

-----------------------------------------------------------------------------
(* The page and what it has posted.                                        *)

PageFields == {"info", "aligned", "embedded", "phase", "consented", "mode", "log", "connected",
               "dropped", "awaiting", "linger", "at", "voice"}

IsPage(p) == p = [g \in PageFields |-> p[g]]

Messages(over) == IF over THEN {"ready", "error", "complete"} ELSE {"ready", "error"}

\* A page comes to its farewell only when an interview is over.
PageInv ==
  /\ IsPage(page)
  /\ page.linger \/ page.phase = "done" => Over
  /\ mail \in Seq(Messages(Over))

\* What a page that is now p has kept of the page it was.
Continues(p, over) ==
  /\ IsPage(p) /\ p.embedded = page.embedded
  /\ p.linger => page.linger \/ over
  /\ p.phase = "done" => page.linger \/ page.phase = "done" \/ over

\* The messages posted stay posted.
LEMMA MailLasts ==
  ASSUME NEW over \in BOOLEAN, NEW done \in BOOLEAN, over => done,
         NEW box, box \in Seq(Messages(over)), NEW more \in Seq(Messages(done))
  PROVE  /\ box \in Seq(Messages(done)) /\ box \o more \in Seq(Messages(done))
         /\ \A m : Contains(box, m) \/ Contains(more, m) => Contains(box \o more, m)
<1>1. box \in Seq(Messages(done))
  BY DEF Messages
<1>2. box \o more \in Seq(Messages(done))
  BY <1>1
<1>3. ASSUME NEW m, Contains(box, m) PROVE Contains(box \o more, m)
  <2>1. PICK i \in 1 .. Len(box) : box[i] = m
    BY <1>3 DEF Contains
  <2>2. (box \o more)[i] = m /\ i \in 1 .. Len(box \o more)
    BY <1>1, <2>1
  <2>3. QED
    BY <2>2 DEF Contains
<1>4. ASSUME NEW m, Contains(more, m) PROVE Contains(box \o more, m)
  <2>1. PICK i \in 1 .. Len(more) : more[i] = m
    BY <1>4 DEF Contains
  <2>2. (box \o more)[Len(box) + i] = m /\ Len(box) + i \in 1 .. Len(box \o more)
    BY <1>1, <2>1
  <2>3. QED
    BY <2>2 DEF Contains
<1>5. QED
  BY <1>1, <1>2, <1>3, <1>4

\* What the page makes of a frame.
LEMMA UnderstoodIs ==
  ASSUME IsPage(page), NEW f, NEW n, NEW over \in BOOLEAN, Truthful(f, n, over)
  PROVE  /\ Continues(Understood(page, f), over)
         /\ Understood(page, f).info \in {page.info, "unavailable"}
<1>1. CASE f.type = "hello"
  <2> DEFINE q == Restored(page, f)
             r == [q EXCEPT !.at = [NoProgress EXCEPT !.order = f.order]]
             p == IF r.log = <<>> THEN [r EXCEPT !.log = <<Line("interviewer", 0)>>] ELSE r
  <2>1. /\ IsPage(q) /\ q.embedded = page.embedded /\ q.info = page.info
        /\ q.linger = page.linger /\ q.phase = page.phase
    BY DEF Restored, IsPage, PageFields
  <2> HIDE DEF q
  <2>2. /\ IsPage(r) /\ r.embedded = page.embedded /\ r.info = page.info
        /\ r.linger = page.linger /\ r.phase = page.phase
    BY <2>1 DEF IsPage, PageFields
  <2> HIDE DEF r
  <2>3. /\ IsPage(p) /\ p.embedded = page.embedded /\ p.info = page.info
        /\ p.linger = page.linger /\ p.phase = page.phase
    BY <2>2 DEF IsPage, PageFields
  <2>4. Understood(page, f) = p
    BY <1>1 DEF Understood, Greeted, q, r
  <2>5. QED
    BY <2>3, <2>4 DEF Continues
<1>2. CASE f.type = "turn"
  <2> DEFINE p == TurnTaken(page, f)
  <2>1. /\ IsPage(p) /\ p.embedded = page.embedded /\ p.info = page.info /\ p.phase = page.phase
        /\ p.linger = (page.linger \/ f.kind = "wrap_up")
    BY DEF TurnTaken, IsPage, PageFields
  <2>2. f.kind = "wrap_up" => over
    BY <1>2 DEF Truthful
  <2>3. Understood(page, f) = p
    BY <1>2 DEF Understood
  <2>4. QED
    BY <2>1, <2>2, <2>3 DEF Continues
<1>3. CASE f.type = "error"
  <2> DEFINE q == [page EXCEPT !.awaiting = FALSE]
             p == Failed(page, f)
  <2>1. /\ IsPage(q) /\ q.embedded = page.embedded /\ q.info = page.info
        /\ q.linger = page.linger /\ q.phase = page.phase
    BY DEF IsPage, PageFields
  <2>2. \/ \E log : p = [q EXCEPT !.log = log]
        \/ p = [q EXCEPT !.dropped = TRUE]
        \/ f.reason = "interview_already_completed" /\ p = [q EXCEPT !.phase = "done"]
        \/ p = [q EXCEPT !.connected = FALSE, !.info = "unavailable"]
    <3>1. p = CASE f.recoverable -> [q EXCEPT !.log = Notice(q.log)]
                [] f.reason = "interview_resume_invalid"    -> [q EXCEPT !.dropped = TRUE]
                [] f.reason = "interview_already_completed" -> [q EXCEPT !.phase = "done"]
                [] OTHER -> [q EXCEPT !.connected = FALSE, !.info = "unavailable"]
      BY DEF Failed
    <3> HIDE DEF p, q
    <3>2. CASE f.recoverable /\ f.reason \notin {"interview_resume_invalid", "interview_already_completed"}
      BY <3>1, <3>2
    <3>3. CASE ~f.recoverable /\ f.reason = "interview_resume_invalid"
      BY <3>1, <3>3
    <3>4. CASE ~f.recoverable /\ f.reason = "interview_already_completed"
      BY <3>1, <3>4
    <3>5. CASE ~f.recoverable /\ f.reason \notin {"interview_resume_invalid", "interview_already_completed"}
      BY <3>1, <3>5
    <3>6. CASE f.recoverable /\ f.reason = "interview_resume_invalid"
      BY <3>1, <3>6
    <3>7. CASE f.recoverable /\ f.reason = "interview_already_completed"
      BY <3>1, <3>7
    <3>8. QED
      BY <3>2, <3>3, <3>4, <3>5, <3>6, <3>7
  <2>3. f.reason = "interview_already_completed" => over
    BY <1>3 DEF Truthful
  <2>4. Understood(page, f) = p
    BY <1>3 DEF Understood
  <2> HIDE DEF p, q
  <2>5. /\ IsPage(p) /\ p.embedded = page.embedded /\ p.info \in {page.info, "unavailable"}
        /\ p.linger = page.linger
        /\ p.phase = "done" => page.phase = "done" \/ over
    BY <2>1, <2>2, <2>3 DEF IsPage, PageFields
  <2>6. QED
    BY <2>4, <2>5 DEF Continues
<1>4. QED
  BY <1>1, <1>2, <1>3 DEF Truthful

\* A page that is mounted.
LEMMA MountedIs ==
  ASSUME NEW aligned, NEW embedded
  PROVE  /\ IsPage(Mounted(aligned, embedded)) /\ Mounted(aligned, embedded).embedded = embedded
         /\ Mounted(aligned, embedded).info = "loading"
         /\ ~Mounted(aligned, embedded).linger /\ Mounted(aligned, embedded).phase = "consent"
BY DEF Mounted, IsPage, PageFields

\* Whatever happens to the page in its frame, it says what has been posted and
\* comes to its farewell after the interview.
LEMMA PageMoves ==
  ASSUME LedgerInv, SockInv, PageInv, Grown, PageStep
  PROVE  /\ PageInv' /\ page'.embedded = page.embedded
         /\ \A m : Contains(mail, m) => Contains(mail', m)
         /\ page'.info = "ready" /\ page.info # "ready" /\ page.embedded => Contains(mail', "ready")
<1>1. IsPage(page) /\ mail \in Seq(Messages(Over)) /\ Over \in BOOLEAN /\ Over' \in BOOLEAN /\ (Over => Over')
      /\ (page.linger \/ page.phase = "done" => Over)
  BY DEF PageInv, Grown
<1>2. ASSUME UNCHANGED mail, Continues(page', Over'), page'.info # "ready" \/ page.info = "ready"
      PROVE  /\ PageInv' /\ page'.embedded = page.embedded
             /\ \A m : Contains(mail, m) => Contains(mail', m)
             /\ page'.info = "ready" /\ page.info # "ready" /\ page.embedded => Contains(mail', "ready")
  <2>1. mail \in Seq(Messages(Over'))
    BY <1>1, EmptySeq, MailLasts DEF Messages
  <2>2. QED
    BY <1>1, <1>2, <2>1 DEF PageInv, Continues
<1>3. ASSUME NEW more \in Seq(Messages(Over')), Posted(more), Continues(page', Over'),
             page'.info = "ready" /\ page.info # "ready" => Contains(more, "ready")
      PROVE  /\ PageInv' /\ page'.embedded = page.embedded
             /\ \A m : Contains(mail, m) => Contains(mail', m)
             /\ page'.info = "ready" /\ page.info # "ready" /\ page.embedded => Contains(mail', "ready")
  <2>1. /\ mail \in Seq(Messages(Over')) /\ mail \o more \in Seq(Messages(Over'))
        /\ \A m : Contains(mail, m) \/ Contains(more, m) => Contains(mail \o more, m)
    BY <1>1, MailLasts
  <2>2. mail' = IF page.embedded THEN mail \o more ELSE mail
    BY <1>3 DEF Posted
  <2>3. QED
    BY <1>1, <1>3, <2>1, <2>2 DEF PageInv, Continues
<1>4. Continues(page, Over')
  BY <1>1 DEF Continues
<1>5. ASSUME NEW aligned, page' = Mounted(aligned, page.embedded)
      PROVE  Continues(page', Over') /\ page'.info = "loading"
  BY <1>5, MountedIs DEF Continues
<1>6. CASE Reconnect \/ Shake \/ Serve \/ ServeVoice
  BY <1>2, <1>4, <1>6 DEF Reconnect, Shake, Serve, ServeVoice
<1>7. CASE Align \/ Reload
  BY <1>2, <1>5, <1>7 DEF Align, Reload
<1>8. CASE Tick \/ (\E mode \in {"text", "voice"} : Start(mode))
  <2>1. Continues(page', Over') /\ page'.info = page.info /\ UNCHANGED mail
    BY <1>1, <1>8 DEF Tick, Start, IsPage, PageFields, Continues
  <2>2. QED
    BY <1>2, <2>1
<1>9. CASE Opened \/ Closed \/ StaleClose
  <2>1. Continues(page', Over') /\ page'.info = page.info /\ UNCHANGED mail
    BY <1>1, <1>9 DEF Opened, Closed, StaleClose, IsPage, PageFields, Continues
  <2>2. QED
    BY <1>2, <2>1
<1>10. CASE SendReply \/ Watchdog \/ Redirect
  <2>1. /\ Continues(page', Over') /\ page'.info \in {page.info, "left"} /\ UNCHANGED mail
    BY <1>1, <1>10 DEF SendReply, Watchdog, Redirect, IsPage, PageFields, Continues
  <2>2. QED
    BY <1>2, <2>1
<1>11. ASSUME NEW v, page' = [page EXCEPT !.voice = v]
       PROVE  Continues(page', Over') /\ page'.info = page.info
  BY <1>1, <1>11 DEF IsPage, PageFields, Continues
<1>12. CASE AudioEnds \/ OrbTap \/ ToggleReadAloud
  BY <1>2, <1>11, <1>12 DEF AudioEnds, OrbTap, ToggleReadAloud, Voice
<1>13. CASE MicAnswered \/ SwitchToText
  <2>1. Continues(page', Over') /\ page'.info = page.info /\ UNCHANGED mail
    BY <1>1, <1>13 DEF MicAnswered, SwitchToText, Voice, IsPage, PageFields, Continues
  <2>2. QED
    BY <1>2, <2>1
<1>14. CASE OnVoiceMessage
  <2>1. Head(sock.down).binary /\ UNCHANGED mail
    <3>1. sock.kind = "voice" /\ sock.down # <<>> /\ UNCHANGED mail
      BY <1>14 DEF OnVoiceMessage
    <3>2. Sound("voice", Head(sock.down), Len(interviews), Over)
      BY <3>1, FramesHead DEF SockInv
    <3>3. QED
      BY <3>1, <3>2 DEF Sound
  <2>2. \E v : page' = [page EXCEPT !.voice = v]
    BY <1>14, <2>1 DEF OnVoiceMessage
  <2>3. QED
    BY <1>2, <1>11, <2>1, <2>2
<1>15. CASE Preflight
  <2>1. PICK answer \in {"live", "closed", "failed"} :
          /\ page' = [page EXCEPT !.info = IF answer = "live" THEN "ready" ELSE "unavailable"]
          /\ Posted(CASE answer = "live"   -> <<"ready">>
                      [] answer = "closed" -> <<"error">>
                      [] answer = "failed" -> <<>>)
    BY <1>15 DEF Preflight
  <2> DEFINE more == CASE answer = "live"   -> <<"ready">>
                       [] answer = "closed" -> <<"error">>
                       [] answer = "failed" -> <<>>
  <2>2. Continues(page', Over') /\ (page'.info = "ready" => answer = "live")
    BY <1>1, <2>1 DEF IsPage, PageFields, Continues
  <2>3. more \in Seq(Messages(Over')) /\ (answer = "live" => more = <<"ready">>)
    <3>1. {<<"ready">>, <<"error">>, <<>>} \subseteq Seq({"ready", "error"})
      OBVIOUS
    <3>2. Seq({"ready", "error"}) \subseteq Seq(Messages(Over'))
      BY DEF Messages
    <3>3. more \in {<<"ready">>, <<"error">>, <<>>} /\ (answer = "live" => more = <<"ready">>)
      OBVIOUS
    <3>4. QED
      BY <3>1, <3>2, <3>3
  <2>4. Contains(<<"ready">>, "ready")
    BY DEF Contains
  <2> HIDE DEF more
  <2>5. QED
    BY <1>3, <2>1, <2>2, <2>3, <2>4 DEF more
<1>16. CASE OnMessage
  <2>1. PICK f : /\ Current(f) \/ Earlier(f)
                 /\ page' = Understood(page, f)
                 /\ token' = TokenAfter(f, page') /\ Posted(PostsAfter(f, page')) /\ UNCHANGED interviews
    BY <1>16 DEF OnMessage, serverVars
  <2>2. Truthful(f, Len(interviews), Over)
    BY <2>1, OnMessageKept
  <2>3. Continues(page', Over) /\ page'.info \in {page.info, "unavailable"}
    BY <1>1, <2>1, <2>2, UnderstoodIs
  <2>4. Continues(page', Over')
    BY <1>1, <2>3 DEF Continues
  <2>5. page'.phase = "done" => Over'
    BY <1>1, <2>4 DEF Continues
  <2>6. PostsAfter(f, page') \in Seq(Messages(Over'))
    <3> DEFINE errors == IF f.type = "error" /\ ~f.recoverable THEN <<"error">> ELSE <<>>
               ends   == IF page'.phase = "done" /\ page.phase # "done" THEN <<"complete">> ELSE <<>>
    <3>1. errors \in Seq(Messages(Over'))
      <4>1. {<<>>, <<"error">>} \subseteq Seq({"ready", "error"})
        OBVIOUS
      <4>2. Seq({"ready", "error"}) \subseteq Seq(Messages(Over'))
        BY DEF Messages
      <4>3. errors \in {<<>>, <<"error">>}
        OBVIOUS
      <4>4. QED
        BY <4>1, <4>2, <4>3
    <3>2. ends \in Seq(Messages(Over'))
      <4>1. CASE page'.phase = "done"
        <5>1. Messages(Over') = {"ready", "error", "complete"}
          BY <2>5, <4>1 DEF Messages
        <5>2. {<<>>, <<"complete">>} \subseteq Seq({"ready", "error", "complete"})
          OBVIOUS
        <5>3. ends \in {<<>>, <<"complete">>}
          OBVIOUS
        <5>4. QED
          BY <5>1, <5>2, <5>3
      <4>2. CASE page'.phase # "done"
        BY <4>2
      <4>3. QED
        BY <4>1, <4>2
    <3>3. PostsAfter(f, page') = errors \o ends
      BY DEF PostsAfter
    <3> HIDE DEF errors, ends
    <3>4. QED
      BY <3>1, <3>2, <3>3
  <2>7. QED
    BY <1>3, <2>1, <2>3, <2>4, <2>6
<1>17. CASE LingerEnds
  <2>1. Over /\ page' = [page EXCEPT !.linger = FALSE, !.phase = "done"]
    BY <1>1, <1>17 DEF LingerEnds
  <2>2. Continues(page', Over') /\ page'.info = page.info
    BY <1>1, <2>1 DEF IsPage, PageFields, Continues
  <2>3. {<<>>, <<"complete">>} \subseteq Seq(Messages(Over'))
    <3>1. Messages(Over') = {"ready", "error", "complete"}
      BY <1>1, <2>1 DEF Messages
    <3>2. {<<>>, <<"complete">>} \subseteq Seq({"ready", "error", "complete"})
      OBVIOUS
    <3>3. QED
      BY <3>1, <3>2
  <2>4. Posted(IF page.phase = "done" THEN <<>> ELSE <<"complete">>)
    BY <1>17 DEF LingerEnds
  <2>5. QED
    BY <1>3, <2>2, <2>3, <2>4
<1>18. QED
  BY <1>6, <1>7, <1>8, <1>9, <1>10, <1>12, <1>13, <1>14, <1>15, <1>16, <1>17 DEF PageStep

-----------------------------------------------------------------------------
(* The element around the page.                                            *)

\* While the element may think the page too slow, a page that is ready has said
\* so.
HostInv ==
  /\ host = [g \in {"state", "error", "timer", "opens"} |-> host[g]]
  /\ host.state = "complete" => Over
  /\ surface = "element" => page.embedded
  /\ surface # "element" => host = HostIdle
  /\ (host.timer \/ host.error = "timeout") /\ page.info = "ready" => Contains(mail, "ready")

SiteInv == LedgerInv /\ SockInv /\ PageInv /\ HostInv

LEMMA AbsentIs == /\ IsPage(Absent) /\ Absent.embedded /\ Absent.info = "absent"
                  /\ ~Absent.linger /\ Absent.phase = "consent"
<1> DEFINE p == Mounted(TRUE, TRUE)
<1>1. IsPage(p) /\ p.embedded /\ ~p.linger /\ p.phase = "consent"
  BY DEF Mounted, IsPage, PageFields
<1>2. Absent = [p EXCEPT !.info = "absent"]
  BY DEF Absent
<1> HIDE DEF p
<1>3. QED
  BY <1>1, <1>2 DEF IsPage, PageFields

LEMMA SiteStarts == Init => SiteInv
<1> SUFFICES ASSUME Init PROVE SiteInv
  OBVIOUS
<1>1. /\ page \in {Mounted(TRUE, FALSE), Absent} /\ (surface = "element" => page = Absent)
      /\ token = 0 /\ sock = NoSock /\ late = <<>> /\ mail = <<>>
      /\ host = HostIdle /\ interviews = <<>>
  BY DEF Init, PageInit
<1>2. interviews \in Seq({}) /\ Len(interviews) = 0
  BY <1>1
<1>3. /\ sock = [g \in SockFields |-> sock[g]] /\ sock.id = 0 /\ sock.st = "closed"
      /\ sock.up = <<>> /\ sock.down = <<>>
  BY <1>1 DEF NoSock, SockFields
<1>4. SockInv
  BY <1>1, <1>2, <1>3, NoFrames, NothingAsked DEF SockInv
<1>5. IsPage(page) /\ ~page.linger /\ page.phase = "consent" /\ page.info # "ready"
      /\ (surface = "element" => page.embedded)
  <2>1. CASE page = Absent
    BY <2>1, AbsentIs
  <2>2. CASE page = Mounted(TRUE, FALSE) /\ surface # "element"
    BY <2>2 DEF Mounted, IsPage, PageFields
  <2>3. QED
    BY <1>1, <2>1, <2>2
<1>6. mail \in Seq(Messages(Over))
  BY <1>1
<1>7. host = [g \in {"state", "error", "timer", "opens"} |-> host[g]] /\ host.state = "idle"
  BY <1>1 DEF HostIdle
<1>8. QED
  BY <1>1, <1>2, <1>4, <1>5, <1>6, <1>7 DEF SiteInv, LedgerInv, PageInv, HostInv

LEMMA SiteHolds == SiteInv /\ [Next]_vars => SiteInv'
<1> SUFFICES ASSUME SiteInv, [Next]_vars PROVE SiteInv'
  OBVIOUS
<1>1. Grown /\ SockInv' /\ LedgerInv'
  BY SockKept DEF SiteInv, Grown
<1>2. /\ IsPage(page) /\ (page.linger \/ page.phase = "done" => Over) /\ mail \in Seq(Messages(Over))
      /\ HostInv /\ Over \in BOOLEAN /\ Over' \in BOOLEAN /\ (Over => Over')
      /\ Seq(Messages(Over)) \subseteq Seq(Messages(Over'))
  <2>1. Over \in BOOLEAN /\ Over' \in BOOLEAN /\ (Over => Over')
    BY <1>1 DEF Grown
  <2>2. QED
    BY <2>1 DEF SiteInv, PageInv, Messages
<1>3. ASSUME PageInv', HostInv' PROVE SiteInv'
  BY <1>1, <1>3 DEF SiteInv
<1>4. ASSUME UNCHANGED <<page, mail>> PROVE PageInv'
  BY <1>2, <1>4 DEF PageInv
<1>5. CASE UNCHANGED <<surface, page, mail, host>>
  BY <1>2, <1>3, <1>4, <1>5 DEF HostInv
<1>6. CASE PageStep /\ UNCHANGED <<surface, host>>
  <2>1. /\ PageInv' /\ page'.embedded = page.embedded
        /\ \A m : Contains(mail, m) => Contains(mail', m)
        /\ page'.info = "ready" /\ page.info # "ready" /\ page.embedded => Contains(mail', "ready")
    BY <1>1, <1>6, PageMoves DEF SiteInv
  <2>2. surface # "element" => ~host.timer /\ host.error = "none"
    BY <1>2 DEF HostInv, HostIdle
  <2>3. HostInv'
    BY <1>2, <1>6, <2>1, <2>2 DEF HostInv
  <2>4. QED
    BY <1>3, <2>1, <2>3
<1>7. CASE surface = "element" /\ HostStep /\ UNCHANGED surface
  <2>1. CASE HostOpen
    <3>1. UNCHANGED mail /\ host'.state \in {"loading", "error"}
          /\ host' = [g \in {"state", "error", "timer", "opens"} |-> host'[g]]
      <4>1. PICK state, error, timer, opens :
              /\ state \in {"loading", "error"} /\ UNCHANGED mail
              /\ host' = [state |-> state, error |-> error, timer |-> timer, opens |-> opens]
        BY <2>1 DEF HostOpen
      <4>2. QED
        BY <4>1
    <3>2. \/ \E aligned : page' = Mounted(aligned, TRUE)
          \/ page' = page /\ page.info = "absent"
      BY <2>1 DEF HostOpen, Framed
    <3>3. /\ IsPage(page') /\ page'.embedded /\ page'.info # "ready"
          /\ page'.linger \/ page'.phase = "done" => Over'
      <4>1. ASSUME NEW aligned, page' = Mounted(aligned, TRUE)
            PROVE  IsPage(page') /\ page'.embedded /\ page'.info = "loading"
                   /\ ~page'.linger /\ page'.phase = "consent"
        BY <4>1 DEF Mounted, IsPage, PageFields
      <4>2. CASE page' = page /\ page.info = "absent"
        BY <1>2, <1>7, <4>2 DEF HostInv
      <4>3. QED
        BY <3>2, <4>1, <4>2
    <3>4. PageInv' /\ HostInv'
      BY <1>2, <1>7, <3>1, <3>3 DEF PageInv, HostInv
    <3>5. QED
      BY <1>3, <3>4
  <2>2. CASE HostClose
    <3>1. page' = Absent /\ mail' = <<>> /\ host' = Closing
      BY <2>2 DEF HostClose
    <3>2. host'.state = "closed" /\ host' = [g \in {"state", "error", "timer", "opens"} |-> host'[g]]
      BY <3>1 DEF Closing
    <3>3. PageInv' /\ HostInv'
      BY <1>7, <3>1, <3>2, AbsentIs DEF PageInv, HostInv
    <3>4. QED
      BY <1>3, <3>3
  <2>3. CASE ReadyTimeout
    <3>1. UNCHANGED <<page, mail>> /\ host' = WithError("timeout") /\ host.timer
      BY <2>3 DEF ReadyTimeout, pageVars
    <3>2. /\ host' = [g \in {"state", "error", "timer", "opens"} |-> host'[g]]
          /\ host'.state = "error"
      BY <1>2, <3>1 DEF HostInv, WithError
    <3>3. HostInv'
      BY <1>2, <1>7, <3>1, <3>2 DEF HostInv
    <3>4. QED
      BY <1>3, <1>4, <3>1, <3>3
  <2>4. CASE HandleMessage
    <3> DEFINE m == Head(mail)
    <3>1. /\ mail # <<>> /\ mail' = Tail(mail) /\ UNCHANGED page
          /\ host' = CASE m = "ready"    -> [host EXCEPT !.state = "ready", !.error = "none", !.timer = FALSE]
                       [] m = "error"    -> WithError("unavailable")
                       [] m = "complete" -> [host EXCEPT !.state = "complete"]
      BY <2>4 DEF HandleMessage
    <3>2. m \in Messages(Over) /\ mail' \in Seq(Messages(Over))
      BY <1>2, <3>1
    <3>3. Contains(mail, "ready") => m = "ready" \/ Contains(mail', "ready")
      <4>1. ASSUME NEW i \in 1 .. Len(mail), mail[i] = "ready", m # "ready"
            PROVE  Contains(mail', "ready")
        <5>1. i # 1 /\ i - 1 \in 1 .. Len(Tail(mail)) /\ Tail(mail)[i - 1] = mail[i]
          BY <1>2, <3>1, <4>1
        <5>2. QED
          BY <3>1, <4>1, <5>1 DEF Contains
      <4>2. QED
        BY <4>1 DEF Contains
    <3> HIDE DEF m
    <3>4. PageInv'
      BY <1>2, <3>1, <3>2 DEF PageInv
    <3>5. CASE m = "ready"
      <4>1. /\ host' = [g \in {"state", "error", "timer", "opens"} |-> host'[g]]
            /\ host'.state = "ready" /\ host'.error = "none" /\ ~host'.timer
        BY <1>2, <3>1, <3>5 DEF HostInv
      <4>2. HostInv'
        BY <1>2, <1>7, <3>1, <4>1 DEF HostInv
      <4>3. QED
        BY <1>3, <3>4, <4>2
    <3>6. CASE m = "error"
      <4>1. /\ host' = [g \in {"state", "error", "timer", "opens"} |-> host'[g]]
            /\ host'.state = "error" /\ host'.error = "unavailable" /\ ~host'.timer
        BY <1>2, <3>1, <3>6 DEF HostInv, WithError
      <4>2. HostInv'
        BY <1>2, <1>7, <3>1, <4>1 DEF HostInv
      <4>3. QED
        BY <1>3, <3>4, <4>2
    <3>7. CASE m = "complete"
      <4>1. /\ host' = [g \in {"state", "error", "timer", "opens"} |-> host'[g]]
            /\ host'.error = host.error /\ host'.timer = host.timer
        BY <1>2, <3>1, <3>7 DEF HostInv
      <4>2. Over'
        BY <1>2, <3>2, <3>7 DEF Messages
      <4>3. HostInv'
        BY <1>2, <1>7, <3>1, <3>3, <3>7, <4>1, <4>2 DEF HostInv
      <4>4. QED
        BY <1>3, <3>4, <4>3
    <3>8. QED
      BY <3>2, <3>5, <3>6, <3>7 DEF Messages
  <2>5. QED
    BY <1>7, <2>1, <2>2, <2>3, <2>4 DEF HostStep
<1>8. QED
  BY <1>5, <1>6, <1>7
     DEF Next, Embedded, Direct, Headless, ElementStep, pageVars, vars

LEMMA SiteAlways == Spec => []SiteInv
<1>1. QED
  BY SiteStarts, SiteHolds, PTL DEF Spec

\* The element says complete only if an interview has been completed, whatever
\* frames of a connection that is gone the page still handles.
THEOREM CompleteIsReal == Spec => []HostCompleteIsReal
<1>1. SiteInv => HostCompleteIsReal
  BY DEF SiteInv, HostInv, HostCompleteIsReal, Over
<1>2. QED
  BY <1>1, SiteAlways, PTL

\* The overlay over a page that was too slow goes away: a page that is ready has
\* a message under way that says so.
THEOREM SlowPageIsShown == Spec => []LateReadyIsShown
<1>1. SiteInv => LateReadyIsShown
  BY DEF SiteInv, HostInv, LateReadyIsShown
<1>2. QED
  BY <1>1, SiteAlways, PTL

-----------------------------------------------------------------------------
(* The headless client.                                                    *)

\* Frames of some types.
Of(q, types) == \E S : q \in Seq(S) /\ \A f \in S : f.type \in types

AnyType == {"hello", "turn", "error"}

LEMMA OfMore ==
  ASSUME NEW types, NEW more, types \subseteq more, NEW q, Of(q, types), NEW f, f.type \in more
  PROVE  Of(q, more) /\ Of(Append(q, f), more)
<1>1. PICK S : q \in Seq(S) /\ \A g \in S : g.type \in types
  BY DEF Of
<1>2. q \in Seq(S \union {f}) /\ f \in S \union {f}
  BY <1>1
<1>3. Append(q, f) \in Seq(S \union {f})
  BY <1>2, AppendProperties
<1>4. \A g \in S \union {f} : g.type \in more
  BY <1>1
<1>5. QED
  BY <1>2, <1>3, <1>4 DEF Of

LEMMA OfHead ==
  ASSUME NEW types, NEW q, Of(q, types), q # <<>>
  PROVE  Head(q).type \in types /\ Of(Tail(q), types)
<1>1. PICK S : q \in Seq(S) /\ \A f \in S : f.type \in types
  BY DEF Of
<1>2. Head(q) \in S /\ Tail(q) \in Seq(S)
  BY <1>1
<1>3. QED
  BY <1>1, <1>2 DEF Of

LEMMA OfJoin ==
  ASSUME NEW types, NEW q, NEW r, Of(q, types), Of(r, types), NEW k \in 0 .. Len(r)
  PROVE  Of(q \o SubSeq(r, 1, k), types)
<1>1. PICK S : q \in Seq(S) /\ \A f \in S : f.type \in types
  BY DEF Of
<1>2. PICK T : r \in Seq(T) /\ \A f \in T : f.type \in types
  BY DEF Of
<1>3. q \in Seq(S \union T) /\ r \in Seq(S \union T)
  BY <1>1, <1>2
<1>4. SubSeq(r, 1, k) \in Seq(S \union T)
  BY <1>3
<1>5. q \o SubSeq(r, 1, k) \in Seq(S \union T)
  BY <1>3, <1>4
<1>6. QED
  BY <1>1, <1>2, <1>5 DEF Of

LEMMA OfNone ==
  ASSUME NEW types
  PROVE  Of(<<>>, types)
<1> DEFINE S == {}
<1>1. <<>> \in Seq(S) /\ \A g \in S : g.type \in types
  OBVIOUS
<1> HIDE DEF S
<1>2. QED
  BY <1>1 DEF Of

LEMMA OfOne ==
  ASSUME NEW types, NEW f, f.type \in types
  PROVE  Of(<<f>>, types)
<1> DEFINE S == {f}
<1>1. <<f>> \in Seq(S) /\ \A g \in S : g.type \in types
  OBVIOUS
<1> HIDE DEF S
<1>2. QED
  BY <1>1 DEF Of

\* The lines of the interviews, which only become more.
LinesInv == LedgerInv /\ \A i \in DOMAIN interviews : \E S : interviews[i].lines \in Seq(S)

\* An interview that begins is one more, with lines of its own.
LEMMA BegunInLines ==
  ASSUME LinesInv, NEW i, \E T : i.lines \in Seq(T), interviews' = Append(interviews, i)
  PROVE  LinesInv'
<1>1. PICK S : interviews \in Seq(S)
  BY DEF LinesInv, LedgerInv
<1>2. interviews \in Seq(S \union {i}) /\ i \in S \union {i}
  BY <1>1
<1>3. /\ \A k \in 1 .. Len(interviews) : interviews'[k] = interviews[k]
      /\ interviews'[Len(interviews) + 1] = i /\ interviews' \in Seq(S \union {i})
      /\ Len(interviews') = Len(interviews) + 1 /\ DOMAIN interviews = 1 .. Len(interviews)
      /\ Len(interviews) \in Nat
  BY <1>1, <1>2, AppendProperties
<1>4. ASSUME NEW k \in DOMAIN interviews' PROVE \E T : interviews'[k].lines \in Seq(T)
  <2>1. k \in 1 .. Len(interviews) + 1
    BY <1>3
  <2>2. CASE k = Len(interviews) + 1
    BY <1>3, <2>2
  <2>3. CASE k # Len(interviews) + 1
    <3>1. k \in DOMAIN interviews /\ interviews'[k] = interviews[k]
      BY <1>3, <2>1, <2>3
    <3>2. QED
      BY <3>1 DEF LinesInv
  <2>4. QED
    BY <2>2, <2>3
<1>5. QED
  BY <1>3, <1>4 DEF LinesInv, LedgerInv

LEMMA TurnInLines ==
  ASSUME LinesInv, NEW i, NEW n, NEW kind, interviews' = WithTurn(i, n, kind)
  PROVE  /\ LinesInv' /\ Len(interviews') = Len(interviews)
         /\ \A m : Recorded(m) => Recorded(m)'
         /\ Len(interviews) = 1 /\ RecordedOnce(1)' => RecordedOnce(1)
         /\ Len(interviews) = 1 /\ i = 1 => Recorded(n)' /\ (Recorded(n) => ~RecordedOnce(1)')
<1> DEFINE was == interviews[i].lines
           new == was \o <<Line("respondent", n), Line("interviewer", n)>>
<1>1. Len(interviews) \in Nat /\ DOMAIN interviews = 1 .. Len(interviews)
  BY DEF LinesInv, LedgerInv
<1>2. LedgerInv' /\ Len(interviews') = Len(interviews) /\ DOMAIN interviews' = 1 .. Len(interviews)
  <2>1. Grown /\ Len(interviews') = Len(interviews)
    BY TurnInLedger DEF LinesInv
  <2>2. LedgerInv'
    BY <2>1 DEF Grown
  <2>3. QED
    BY <2>1, <2>2 DEF LedgerInv
<1>3. \A k \in DOMAIN interviews :
        interviews'[k].lines = IF k = i THEN new ELSE interviews[k].lines
  BY <1>1 DEF WithTurn, LinesInv, LedgerInv
<1>4. ASSUME i \in DOMAIN interviews
      PROVE  /\ \E S : was \in Seq(S) /\ new \in Seq(S)
             /\ Len(was) \in Nat /\ Len(new) = Len(was) + 2
             /\ \A k \in 1 .. Len(was) : new[k] = was[k]
             /\ new[Len(was) + 1] = Line("respondent", n)
  <2>1. PICK S : was \in Seq(S)
    BY <1>4 DEF LinesInv
  <2> DEFINE a == Line("respondent", n)
             b == Line("interviewer", n)
  <2> HIDE DEF a, b
  <2>2. was \in Seq(S \union {a, b}) /\ <<a, b>> \in Seq(S \union {a, b})
    BY <2>1
  <2> HIDE DEF was
  <2>3. /\ was \o <<a, b>> \in Seq(S \union {a, b}) /\ Len(was) \in Nat
        /\ Len(was \o <<a, b>>) = Len(was) + 2
        /\ \A k \in 1 .. Len(was) : (was \o <<a, b>>)[k] = was[k]
        /\ (was \o <<a, b>>)[Len(was) + 1] = a
    BY <2>2
  <2>4. new = was \o <<a, b>>
    BY DEF a, b
  <2>5. QED
    BY <2>2, <2>3, <2>4 DEF a
<1> HIDE DEF was, new
<1>5. LinesInv'
  <2>1. ASSUME NEW k \in DOMAIN interviews' PROVE \E S : interviews'[k].lines \in Seq(S)
    <3>1. CASE k = i
      BY <1>1, <1>2, <1>3, <1>4, <2>1, <3>1
    <3>2. CASE k # i
      BY <1>1, <1>2, <1>3, <2>1, <3>2 DEF LinesInv
    <3>3. QED
      BY <3>1, <3>2
  <2>2. QED
    BY <1>2, <2>1 DEF LinesInv
<1>6. ASSUME NEW m, Recorded(m) PROVE Recorded(m)'
  <2>1. PICK k \in DOMAIN interviews : \E j \in 1 .. Len(interviews[k].lines) :
          interviews[k].lines[j] = Line("respondent", m)
    BY <1>6 DEF Recorded, Contains
  <2>2. PICK j \in 1 .. Len(interviews[k].lines) : interviews[k].lines[j] = Line("respondent", m)
    BY <2>1
  <2>3. j \in 1 .. Len(interviews'[k].lines) /\ interviews'[k].lines[j] = Line("respondent", m)
    <3>1. CASE k = i
      <4>1. interviews[k].lines = was /\ interviews'[k].lines = new
        BY <1>3, <3>1 DEF was
      <4>2. QED
        BY <1>4, <2>2, <3>1, <4>1
    <3>2. CASE k # i
      BY <1>3, <2>2, <3>2
    <3>3. QED
      BY <3>1, <3>2
  <2>4. QED
    BY <1>1, <1>2, <2>3 DEF Recorded, Contains
<1>7. ASSUME Len(interviews) = 1, RecordedOnce(1)' PROVE RecordedOnce(1)
  <2>1. 1 \in DOMAIN interviews
    BY <1>1, <1>7
  <2>2. CASE i # 1
    BY <1>3, <1>7, <2>1, <2>2 DEF RecordedOnce
  <2>3. CASE i = 1
    <3>1. DOMAIN was = 1 .. Len(was) /\ DOMAIN new = 1 .. Len(new)
      BY <1>4, <2>1, <2>3
    <3>2. interviews'[1].lines = new /\ interviews[1].lines = was
      BY <1>3, <2>1, <2>3 DEF was
    <3>3. QED
      BY <1>4, <1>7, <2>1, <2>3, <3>1, <3>2 DEF RecordedOnce
  <2>4. QED
    BY <2>2, <2>3
<1>8. ASSUME Len(interviews) = 1, i = 1
      PROVE  Recorded(n)' /\ (Recorded(n) => ~RecordedOnce(1)')
  <2>1. DOMAIN interviews = {1} /\ i \in DOMAIN interviews
    BY <1>1, <1>8
  <2>2. DOMAIN was = 1 .. Len(was) /\ DOMAIN new = 1 .. Len(new)
    BY <1>4, <2>1
  <2>3. interviews'[1].lines = new /\ interviews[1].lines = was
    BY <1>3, <1>8, <2>1 DEF was
  <2>4. Len(was) + 1 \in 1 .. Len(new) /\ new[Len(was) + 1] = Line("respondent", n)
    BY <1>4, <2>1
  <2>5. Recorded(n)'
    BY <1>1, <1>2, <1>8, <2>1, <2>3, <2>4 DEF Recorded, Contains
  <2>6. ASSUME Recorded(n) PROVE ~RecordedOnce(1)'
    <3>1. PICK j \in 1 .. Len(was) : was[j] = Line("respondent", n)
      BY <2>1, <2>3, <2>6 DEF Recorded, Contains
    <3>2. j # Len(was) + 1 /\ j \in DOMAIN new /\ Len(was) + 1 \in DOMAIN new
          /\ new[j] = new[Len(was) + 1] /\ new[j].who = "respondent"
      BY <1>4, <2>1, <2>2, <2>4, <3>1 DEF Line
    <3>3. QED
      BY <2>3, <3>2 DEF RecordedOnce
  <2>7. QED
    BY <2>5, <2>6
<1>9. QED
  BY <1>2, <1>5, <1>6, <1>7, <1>8

SdkFields == {"phase", "loaded", "log", "last", "error", "deliberate"}
LinkFields == {"st", "id", "up", "down"}

IsSdk(s) == s = [g \in SdkFields |-> s[g]] /\ s.last \in Nat /\ \E S : s.log \in Seq(S)

ClientShape ==
  /\ IsSdk(sdk) /\ replies \in Nat
  /\ link = [g \in LinkFields |-> link[g]]
  /\ link.id \in 0 .. Len(interviews) /\ link.up \in Seq(Nat) /\ Of(link.down, AnyType)
  /\ Of(sdkLate, AnyType)
  /\ link.st \in {"none", "connecting"} => link.id = 0 /\ link.down = <<>>

\* A client that has not been greeted: it lists no answer and asks for none.
Ungreeted(s) ==
  /\ s.last = 0 /\ s.phase # "asking"
  /\ \A k \in DOMAIN s.log : s.log[k].who # "respondent"

\* Before any interview has begun.
BeforeFirst ==
  Len(interviews) = 0 =>
    /\ Ungreeted(sdk) /\ Of(sdkLate, {"error"}) /\ Of(link.down, {"error"})
    /\ link.st = "open" => link.up = <<0>> /\ link.down = <<>>

\* The client holds the connection of the first interview, which has no answer
\* twice.
InFirst == Len(interviews) = 1 /\ link.id # 0 /\ RecordedOnce(1)

GreetingFirst(l, s) ==
  \A k \in DOMAIN l.down : l.down[k].type = "hello" => Len(l.down) = 1 /\ l.up = <<>> /\ Ungreeted(s)

\* The turn under way is the one that answers the last answer.
OneTurn(l, s) ==
  \A k \in DOMAIN l.down :
    l.down[k].type = "turn" =>
      /\ l.down[k].n = s.last /\ s.last # 0 /\ Recorded(s.last)
      /\ \A j \in DOMAIN l.down : l.down[j].type = "turn" => j = k

KeepsTheLast(l, s) ==
  /\ s.last # 0 => s.phase # "asking"
  /\ \A k \in DOMAIN s.log :
       s.log[k].who = "respondent" =>
         Recorded(s.log[k].n) \/ (s.log[k].n = s.last /\ s.last # 0)
  /\ \A k \in DOMAIN l.up : l.up[k] # 0 /\ (Recorded(l.up[k]) \/ l.up[k] = s.last)

Saved(l, s) == Of(sdkLate, {"error"}) /\ GreetingFirst(l, s) /\ OneTurn(l, s) /\ KeepsTheLast(l, s)

ClientOk == LinesInv /\ ClientShape /\ BeforeFirst /\ (InFirst => Saved(link, sdk))

ClientInv ==
  /\ LinesInv
  /\ surface # "headless" => sdk = Idle
  /\ surface = "headless" => ClientOk

LEMMA ClientStarts == Init => ClientInv
<1> SUFFICES ASSUME Init PROVE ClientInv
  OBVIOUS
<1>1. sdk = Idle /\ link = NoLink /\ sdkLate = <<>> /\ interviews = <<>> /\ replies = 0
  BY DEF Init, SdkInit
<1>2. interviews \in Seq({}) /\ Len(interviews) = 0 /\ DOMAIN interviews = {}
  BY <1>1
<1>3. LinesInv
  BY <1>2 DEF LinesInv, LedgerInv
<1>4. IsSdk(sdk) /\ Ungreeted(sdk)
  <2>1. <<>> \in Seq({}) /\ DOMAIN <<>> = {}
    OBVIOUS
  <2>2. sdk = [g \in SdkFields |-> sdk[g]] /\ sdk.last = 0 /\ sdk.log = <<>> /\ sdk.phase = "idle"
    BY <1>1 DEF Idle, SdkFields
  <2>3. \E S : sdk.log \in Seq(S)
    BY <2>1, <2>2
  <2>4. QED
    BY <2>1, <2>2, <2>3 DEF IsSdk, Ungreeted
<1>5. link = [g \in LinkFields |-> link[g]] /\ link.st = "none" /\ link.id = 0 /\ link.up = <<>> /\ link.down = <<>>
  BY <1>1 DEF NoLink, LinkFields
<1>6. \A types : Of(<<>>, types)
  BY OfNone
<1>7. ClientShape /\ BeforeFirst /\ ~InFirst
  <2>1. <<>> \in Seq(Nat)
    OBVIOUS
  <2>2. ClientShape
    <3>1. Of(link.down, AnyType) /\ Of(sdkLate, AnyType)
      BY <1>1, <1>5, <1>6
    <3>2. link.id \in 0 .. Len(interviews) /\ link.up \in Seq(Nat) /\ replies \in Nat
      <4>1. link.id \in 0 .. Len(interviews) /\ replies \in Nat
        BY <1>1, <1>2, <1>5
      <4>2. link.up \in Seq(Nat)
        BY <1>5, <2>1
      <4>3. QED
        BY <4>1, <4>2
    <3>3. QED
      BY <1>4, <1>5, <3>1, <3>2 DEF ClientShape
  <2>3. BeforeFirst /\ ~InFirst
    BY <1>1, <1>2, <1>4, <1>5, <1>6 DEF BeforeFirst, InFirst
  <2>4. QED
    BY <2>2, <2>3
<1>8. QED
  BY <1>1, <1>3, <1>7 DEF ClientInv, ClientOk

\* A step of the client that asks no question and lists no answer.
Quiet(s) == IsSdk(s) /\ s.log = sdk.log /\ s.last = sdk.last /\ s.phase # "asking"

LEMMA FailIsQuiet ==
  ASSUME IsSdk(sdk), NEW recoverable
  PROVE  Quiet(Fail(sdk, recoverable))
BY DEF Quiet, IsSdk, SdkFields, Fail

LEMMA QuietKeeps ==
  ASSUME NEW s, Quiet(s), NEW l
  PROVE  /\ Ungreeted(sdk) => Ungreeted(s)
         /\ GreetingFirst(l, sdk) => GreetingFirst(l, s)
         /\ OneTurn(l, sdk) => OneTurn(l, s)
         /\ KeepsTheLast(l, sdk) => KeepsTheLast(l, s)
BY DEF Quiet, Ungreeted, GreetingFirst, OneTurn, KeepsTheLast

LEMMA QuietStep ==
  ASSUME ClientOk, Quiet(sdk'), UNCHANGED <<link, sdkLate, interviews, replies>>
  PROVE  ClientOk'
<1>1. LinesInv' /\ ClientShape'
  BY DEF ClientOk, LinesInv, LedgerInv, ClientShape, Quiet
<1>2. BeforeFirst'
  BY QuietKeeps DEF ClientOk, BeforeFirst
<1>3. InFirst' => Saved(link, sdk)'
  <2>1. InFirst' => InFirst
    BY DEF InFirst, RecordedOnce
  <2>2. \A n : Recorded(n)' <=> Recorded(n)
    BY DEF Recorded
  <2>3. SUFFICES ASSUME Saved(link, sdk) PROVE Saved(link, sdk)'
    BY <2>1 DEF ClientOk
  <2>4. GreetingFirst(link, sdk') /\ OneTurn(link, sdk') /\ KeepsTheLast(link, sdk')
    BY <2>3, QuietKeeps, Zenon DEF Saved
  <2>5. GreetingFirst(link, sdk)' /\ OneTurn(link, sdk)'
    <3>1. GreetingFirst(link, sdk)'
      BY <2>4 DEF GreetingFirst, Ungreeted
    <3>2. OneTurn(link, sdk)'
      BY <2>2, <2>4 DEF OneTurn
    <3>3. QED
      BY <3>1, <3>2
  <2>6. KeepsTheLast(link, sdk)'
    BY <2>2, <2>4 DEF KeepsTheLast
  <2>7. Of(sdkLate, {"error"})'
    BY <2>3 DEF Saved
  <2>8. QED
    BY <2>5, <2>6, <2>7 DEF Saved
<1>4. QED
  BY <1>1, <1>2, <1>3 DEF ClientOk

\* A step with which the client lets go of its connection.
LEMMA LetGo ==
  ASSUME ClientOk, IsSdk(sdk'), Ungreeted(sdk) => Ungreeted(sdk'),
         link' = NoLink \/ link' = [NoLink EXCEPT !.st = "connecting"],
         \A types : Of(sdkLate, types) /\ Of(link.down, types) => Of(sdkLate', types),
         UNCHANGED <<interviews, replies>>
  PROVE  ClientOk'
<1>1. /\ link' = [g \in LinkFields |-> link'[g]] /\ link'.id = 0 /\ link'.up = <<>> /\ link'.down = <<>>
      /\ link'.st \in {"none", "connecting"}
  BY DEF NoLink, LinkFields
<1>2. \A types : Of(<<>>, types)
  BY OfNone
<1>3. LinesInv' /\ Len(interviews) \in Nat /\ link'.id \in 0 .. Len(interviews)
  BY <1>1 DEF ClientOk, LinesInv, LedgerInv
<1>4. link'.up \in Seq(Nat)
  BY <1>1
<1>5. ClientShape'
  BY <1>1, <1>2, <1>3, <1>4 DEF ClientOk, ClientShape
<1>6. BeforeFirst'
  BY <1>1, <1>2 DEF ClientOk, BeforeFirst
<1>7. QED
  BY <1>1, <1>3, <1>5, <1>6 DEF ClientOk, InFirst

LEMMA DisconnectIs ==
  ASSUME Disconnect
  PROVE  /\ link' = NoLink
         /\ \A types : Of(sdkLate, types) /\ Of(link.down, types) => Of(sdkLate', types)
BY OfJoin DEF Disconnect

LEMMA DeliberateIs ==
  ASSUME NEW s, IsSdk(s)
  PROVE  /\ IsSdk(Deliberate(s)) /\ Deliberate(s).log = s.log
         /\ Deliberate(s).last = s.last /\ Deliberate(s).phase = s.phase
BY DEF Deliberate, IsSdk, SdkFields

\* What the client makes of a frame.
LEMMA HandledIs ==
  ASSUME IsSdk(sdk), NEW f, f.type \in AnyType
  PROVE  /\ IsSdk(Handled(f))
         /\ f.type = "error" => Quiet(Handled(f))
         /\ f.type = "hello" => Handled(f).log = <<Line("interviewer", 0)>> /\ Handled(f).last = sdk.last
         /\ f.type = "turn"  => /\ Handled(f).last = 0
                                /\ Handled(f).log = Append(sdk.log, Line("interviewer", f.n))
                                /\ f.kind = "wrap_up" => Handled(f).phase = "complete"
<1>1. CASE f.type = "error"
  BY <1>1, FailIsQuiet DEF Handled, Quiet
<1>2. CASE f.type = "hello"
  <2>1. Handled(f) = [sdk EXCEPT !.phase = "asking", !.log = <<Line("interviewer", 0)>>]
    BY <1>2 DEF Handled
  <2>2. \E S : <<Line("interviewer", 0)>> \in Seq(S)
    <3>1. <<Line("interviewer", 0)>> \in Seq({Line("interviewer", 0)})
      OBVIOUS
    <3>2. QED
      BY <3>1
  <2>3. QED
    BY <1>2, <2>1, <2>2 DEF IsSdk, SdkFields
<1>3. CASE f.type = "turn"
  <2> DEFINE l == Line("interviewer", f.n)
             phase == IF f.kind = "wrap_up" THEN "complete" ELSE "asking"
  <2>1. Handled(f) = [sdk EXCEPT !.phase = phase, !.log = Append(sdk.log, l), !.last = 0]
    BY <1>3 DEF Handled
  <2>2. f.kind = "wrap_up" => phase = "complete"
    OBVIOUS
  <2> HIDE DEF l, phase
  <2>3. \E S : Append(sdk.log, l) \in Seq(S)
    <3>1. PICK S : sdk.log \in Seq(S)
      BY DEF IsSdk
    <3>2. sdk.log \in Seq(S \union {l}) /\ l \in S \union {l}
      BY <3>1
    <3>3. Append(sdk.log, l) \in Seq(S \union {l})
      BY <3>2, AppendProperties
    <3>4. QED
      BY <3>3
  <2> DEFINE h == Handled(f)
  <2>4. h = [g \in SdkFields |-> h[g]] /\ h.last = 0 /\ h.log = Append(sdk.log, l) /\ h.phase = phase
    BY <2>1 DEF IsSdk, SdkFields
  <2> HIDE DEF h
  <2>5. IsSdk(h)
    <3>1. \E S : h.log \in Seq(S)
      BY <2>3, <2>4, Zenon
    <3>2. QED
      BY <2>4, <3>1, 0 \in Nat DEF IsSdk
  <2>6. QED
    BY <1>3, <2>2, <2>4, <2>5 DEF l, h
<1>4. QED
  BY <1>1, <1>2, <1>3 DEF AnyType

\* A line of the interviewer changes nothing for a client that lists no answer.
LEMMA MoreLines ==
  ASSUME NEW q, \E S : q \in Seq(S), NEW l
  PROVE  /\ Len(q) \in Nat /\ DOMAIN q = 1 .. Len(q)
         /\ DOMAIN Append(q, l) = 1 .. Len(q) + 1
         /\ \A k \in DOMAIN Append(q, l) : Append(q, l)[k] = IF k = Len(q) + 1 THEN l ELSE q[k]
<1>1. PICK S : q \in Seq(S)
  OBVIOUS
<1>2. q \in Seq(S \union {l}) /\ l \in S \union {l}
  BY <1>1
<1>3. Append(q, l) \in Seq(S \union {l}) /\ Len(Append(q, l)) = Len(q) + 1
      /\ (\A k \in 1 .. Len(q) : Append(q, l)[k] = q[k]) /\ Append(q, l)[Len(q) + 1] = l
  BY <1>2, AppendProperties
<1>4. QED
  BY <1>1, <1>3

\* The server answers the next frame of the client.
LEMMA SdkServeKept ==
  ASSUME ClientOk, SdkServe
  PROVE  ClientOk'
<1>10. PICK n : n = Head(link.up)
  OBVIOUS
<1>1. /\ link = [g \in LinkFields |-> link[g]] /\ link.st = "open" /\ link.up \in Seq(Nat) /\ link.up # <<>>
      /\ link.id \in 0 .. Len(interviews) /\ Len(interviews) \in Nat
      /\ Of(link.down, AnyType) /\ UNCHANGED <<sdk, sdkLate, replies>>
  <2>1. link.st = "open" /\ link.up # <<>> /\ UNCHANGED <<sdk, sdkLate, replies>>
    BY DEF SdkServe
  <2>2. Len(interviews) \in Nat
    BY DEF ClientOk, LinesInv, LedgerInv
  <2>3. QED
    BY <2>1, <2>2 DEF ClientOk, ClientShape
<1>0. Len(interviews) \in Nat
  BY <1>1
<1>2. /\ n \in Nat /\ Tail(link.up) \in Seq(Nat) /\ Len(Tail(link.up)) = Len(link.up) - 1
      /\ 1 \in DOMAIN link.up /\ link.up[1] = n
      /\ \A k \in DOMAIN Tail(link.up) : Tail(link.up)[k] = link.up[k + 1] /\ k + 1 \in DOMAIN link.up
  BY <1>1, <1>10
<1>3. ASSUME NEW frame, frame.type \in AnyType, NEW id \in 0 .. Len(interviews'), LinesInv',
             link' = [link EXCEPT !.up = Tail(link.up), !.id = id, !.down = Append(link.down, frame)]
      PROVE  /\ ClientShape' /\ link'.id = id /\ link'.up = Tail(link.up)
             /\ link'.down = Append(link.down, frame) /\ link'.st = "open"
  <2>1. /\ link' = [g \in LinkFields |-> link'[g]] /\ link'.id = id /\ link'.up = Tail(link.up)
        /\ link'.down = Append(link.down, frame) /\ link'.st = "open"
    BY <1>1, <1>3 DEF LinkFields
  <2>2. Of(Append(link.down, frame), AnyType)
    BY <1>1, <1>3, OfMore
  <2>3. QED
    BY <1>1, <1>2, <1>3, <2>1, <2>2 DEF ClientOk, ClientShape
<1>4. /\ \E S : link.down \in Seq(S)
      /\ Len(interviews) = 0 => n = 0 /\ link.up = <<0>> /\ link.down = <<>> /\ Ungreeted(sdk) /\ Of(sdkLate, {"error"})
      /\ InFirst => Saved(link, sdk) /\ n # 0 /\ \A k \in DOMAIN link.down : link.down[k].type # "hello"
  <2>1. \E S : link.down \in Seq(S)
    BY <1>1 DEF Of
  <2>2. Len(interviews) = 0 => n = 0 /\ link.up = <<0>> /\ link.down = <<>> /\ Ungreeted(sdk) /\ Of(sdkLate, {"error"})
    <3>1. ASSUME Len(interviews) = 0
          PROVE  link.up = <<0>> /\ link.down = <<>> /\ Ungreeted(sdk) /\ Of(sdkLate, {"error"})
      BY <1>1, <3>1 DEF ClientOk, BeforeFirst
    <3>2. QED
      BY <1>2, <3>1
  <2>3. InFirst => Saved(link, sdk) /\ n # 0 /\ \A k \in DOMAIN link.down : link.down[k].type # "hello"
    BY <1>1, <1>2 DEF ClientOk, Saved, KeepsTheLast, GreetingFirst
  <2>4. QED
    BY <2>1, <2>2, <2>3
<1>5. CASE /\ n = 0 /\ interviews' = Append(interviews, Begun)
           /\ link' = [link EXCEPT !.up = Tail(link.up), !.id = Len(interviews'),
                                   !.down = Append(link.down, Hello(Len(interviews'), FALSE))]
  <2> DEFINE frame == Hello(Len(interviews'), FALSE)
  <2>1. Grown /\ Len(interviews') = Len(interviews) + 1 /\ Len(interviews') \in 0 .. Len(interviews')
        /\ Len(interviews') # 0
    <3>1. Grown /\ Len(interviews') = Len(interviews) + 1
      BY <1>5, MoreInLedger DEF ClientOk, LinesInv
    <3>2. QED
      BY <1>0, <3>1
  <2>2. LinesInv'
    <3>1. Begun.lines \in Seq({Line("interviewer", 0)})
      BY DEF Begun
    <3>2. PICK i : i = Begun
      OBVIOUS
    <3>3. QED
      BY <1>5, <3>1, <3>2, BegunInLines DEF ClientOk
  <2>3. frame.type = "hello"
    BY DEF Hello
  <2> HIDE DEF frame
  <2>4. /\ ClientShape' /\ link'.up = Tail(link.up) /\ link'.down = Append(link.down, frame)
    <3>1. link' = [link EXCEPT !.up = Tail(link.up), !.id = Len(interviews'), !.down = Append(link.down, frame)]
      BY <1>5 DEF frame
    <3>2. frame.type \in AnyType
      BY <2>3 DEF AnyType
    <3>3. QED
      BY <1>3, <2>1, <2>2, <3>1, <3>2
  <2>5. BeforeFirst'
    BY <2>1 DEF BeforeFirst
  <2>6. ASSUME InFirst' PROVE Saved(link, sdk)'
    <3>1. Len(interviews) = 0
      <4>1. Len(interviews') = 1
        BY <2>6 DEF InFirst
      <4>2. Len(interviews) + 1 = 1
        BY <2>1, <4>1
      <4>3. QED
        BY <1>0, <4>2
    <3>2. link.up = <<0>> /\ link.down = <<>> /\ Ungreeted(sdk) /\ Of(sdkLate, {"error"})
      BY <1>4, <3>1
    <3>3. link'.up = <<>> /\ link'.down = <<frame>>
      BY <2>4, <3>2
    <3>4. DOMAIN link'.up = {} /\ DOMAIN link'.down = {1} /\ link'.down[1] = frame /\ Len(link'.down) = 1
      BY <3>3
    <3>5. GreetingFirst(link, sdk)' /\ OneTurn(link, sdk)'
      BY <1>1, <2>3, <3>2, <3>3, <3>4 DEF GreetingFirst, OneTurn, Ungreeted
    <3>6. KeepsTheLast(link, sdk)'
      BY <1>1, <3>2, <3>4 DEF KeepsTheLast, Ungreeted
    <3>7. QED
      BY <1>1, <3>2, <3>5, <3>6 DEF Saved
  <2>7. QED
    BY <2>2, <2>4, <2>5, <2>6 DEF ClientOk
<1>6. ASSUME NEW kind, n > 0, interviews' = WithTurn(link.id, n, kind),
             link' = [link EXCEPT !.up = Tail(link.up), !.id = link.id,
                                  !.down = Append(link.down, TurnFrame(n, kind, link.id))]
      PROVE  ClientOk'
  <2> DEFINE frame == TurnFrame(n, kind, link.id)
  <2>1. frame.type = "turn" /\ frame.n = n
    BY DEF TurnFrame
  <2> HIDE DEF frame
  <2>2. /\ LinesInv' /\ Len(interviews') = Len(interviews)
        /\ \A m : Recorded(m) => Recorded(m)'
        /\ Len(interviews) = 1 /\ RecordedOnce(1)' => RecordedOnce(1)
        /\ Len(interviews) = 1 /\ link.id = 1 => Recorded(n)' /\ (Recorded(n) => ~RecordedOnce(1)')
    <3>1. LinesInv /\ interviews' = WithTurn(link.id, n, kind)
      BY <1>6 DEF ClientOk
    <3>2. QED
      BY <3>1, TurnInLines
  <2>3. /\ ClientShape' /\ link'.up = Tail(link.up) /\ link'.down = Append(link.down, frame)
        /\ link'.id = link.id
    <3>1. link' = [link EXCEPT !.up = Tail(link.up), !.id = link.id, !.down = Append(link.down, frame)]
      BY <1>6 DEF frame
    <3>2. link.id \in 0 .. Len(interviews')
      BY <1>1, <2>2
    <3>3. frame.type \in AnyType
      BY <2>1 DEF AnyType
    <3>4. QED
      BY <1>3, <2>2, <3>1, <3>2, <3>3
  <2>4. BeforeFirst'
    BY <1>2, <1>4, <1>6, <2>2 DEF BeforeFirst
  <2>5. ASSUME InFirst' PROVE Saved(link, sdk)'
    <3>1. InFirst /\ link.id = 1 /\ Recorded(n)' /\ ~Recorded(n)
      BY <1>1, <2>2, <2>3, <2>5 DEF InFirst
    <3>2. Saved(link, sdk) /\ \A k \in DOMAIN link.down : link.down[k].type # "hello"
      BY <1>4, <3>1
    <3>3. sdk.last = n /\ n # 0
      BY <1>2, <1>6, <3>1, <3>2 DEF Saved, KeepsTheLast
    <3>4. \A k \in DOMAIN link.down : link.down[k].type # "turn"
      BY <3>1, <3>2, <3>3 DEF Saved, OneTurn
    <3>5. \A k \in DOMAIN link'.down : link'.down[k].type \in {"hello", "turn"} => k = Len(link.down) + 1
                                       /\ link'.down[k] = frame
      BY <1>4, <2>3, <3>2, <3>4, MoreLines
    <3>6. GreetingFirst(link, sdk)' /\ OneTurn(link, sdk)'
      <4>1. GreetingFirst(link, sdk)'
        BY <2>1, <3>5 DEF GreetingFirst
      <4>2. sdk' = sdk
        BY <1>1
      <4>3. OneTurn(link, sdk)'
        BY <2>1, <3>1, <3>3, <3>5, <4>2 DEF OneTurn
      <4>4. QED
        BY <4>1, <4>3
    <3>7. KeepsTheLast(link, sdk)'
      BY <1>1, <1>2, <2>2, <2>3, <3>2 DEF Saved, KeepsTheLast
    <3>8. QED
      BY <1>1, <3>2, <3>6, <3>7 DEF Saved
  <2>6. QED
    BY <2>2, <2>3, <2>4, <2>5 DEF ClientOk
<1>7. CASE /\ n > 0 /\ UNCHANGED interviews
           /\ link' = [link EXCEPT !.up = Tail(link.up), !.id = link.id,
                                   !.down = Append(link.down, ErrorFrame("interview_error", TRUE))]
  <2> DEFINE frame == ErrorFrame("interview_error", TRUE)
  <2>1. frame.type = "error"
    BY DEF ErrorFrame
  <2> HIDE DEF frame
  <2>2. LinesInv' /\ Len(interviews') = Len(interviews) /\ \A m : Recorded(m) => Recorded(m)'
    BY <1>7 DEF ClientOk, LinesInv, LedgerInv, Recorded
  <2>3. /\ ClientShape' /\ link'.up = Tail(link.up) /\ link'.down = Append(link.down, frame)
        /\ link'.id = link.id
    <3>1. link' = [link EXCEPT !.up = Tail(link.up), !.id = link.id, !.down = Append(link.down, frame)]
      BY <1>7 DEF frame
    <3>2. link.id \in 0 .. Len(interviews')
      BY <1>1, <2>2
    <3>3. frame.type \in AnyType
      BY <2>1 DEF AnyType
    <3>4. QED
      BY <1>3, <2>2, <3>1, <3>2, <3>3
  <2>4. BeforeFirst'
    BY <1>2, <1>4, <1>7, <2>2 DEF BeforeFirst
  <2>5. ASSUME InFirst' PROVE Saved(link, sdk)'
    <3>1. InFirst
      BY <1>7, <2>3, <2>5 DEF InFirst, RecordedOnce
    <3>2. Saved(link, sdk) /\ \A k \in DOMAIN link.down : link.down[k].type # "hello"
      BY <1>4, <3>1
    <3>3. \A k \in DOMAIN link'.down : link'.down[k].type # "error" =>
            k \in DOMAIN link.down /\ link'.down[k] = link.down[k]
      BY <1>4, <2>1, <2>3, MoreLines
    <3>4. GreetingFirst(link, sdk)'
      BY <3>2, <3>3 DEF GreetingFirst
    <3>5. OneTurn(link, sdk)'
      BY <1>1, <2>2, <3>2, <3>3 DEF Saved, OneTurn
    <3>6. KeepsTheLast(link, sdk)'
      BY <1>1, <1>2, <2>2, <2>3, <3>2 DEF Saved, KeepsTheLast
    <3>7. QED
      BY <1>1, <3>2, <3>4, <3>5, <3>6 DEF Saved
  <2>6. QED
    BY <2>2, <2>3, <2>4, <2>5 DEF ClientOk
<1>8. CASE /\ n = 0 /\ UNCHANGED interviews
           /\ link' = [link EXCEPT !.st = "ending", !.up = <<>>, !.down = <<ErrorFrame("interview_error", FALSE)>>]
  <2> DEFINE frame == ErrorFrame("interview_error", FALSE)
  <2>1. frame.type = "error"
    BY DEF ErrorFrame
  <2>2. link' = [link EXCEPT !.st = "ending", !.up = <<>>, !.down = <<frame>>]
    BY <1>8
  <2> HIDE DEF frame
  <2>3. Of(<<frame>>, AnyType) /\ Of(<<frame>>, {"error"})
    BY <2>1, OfOne DEF AnyType
  <2>4. /\ link' = [g \in LinkFields |-> link'[g]] /\ link'.id = link.id /\ link'.up = <<>>
        /\ link'.down = <<frame>> /\ link'.st = "ending"
    BY <1>1, <2>2 DEF LinkFields
  <2>5. link'.up \in Seq(Nat)
    BY <2>4
  <2>6. LinesInv' /\ ClientShape'
    BY <1>1, <1>8, <2>3, <2>4, <2>5 DEF ClientOk, ClientShape, LinesInv, LedgerInv
  <2>7. BeforeFirst'
    BY <1>1, <1>4, <1>8, <2>3, <2>4 DEF BeforeFirst
  <2>8. ~InFirst'
    BY <1>4, <1>8, <2>4 DEF InFirst, RecordedOnce
  <2>9. QED
    BY <2>6, <2>7, <2>8 DEF ClientOk
<1>9. n > 0 \/ n = 0
  BY <1>2
<1>11. QED
  BY <1>10, <1>5, <1>6, <1>7, <1>8, <1>9 DEF SdkServe

\* Frames that follow the first.
LEMMA TailIs ==
  ASSUME NEW q, \E S : q \in Seq(S), q # <<>>
  PROVE  /\ Len(q) \in Nat /\ 1 \in DOMAIN q /\ q[1] = Head(q)
         /\ \A k \in DOMAIN Tail(q) : k # 0 /\ k + 1 # 1 /\ k + 1 \in DOMAIN q /\ Tail(q)[k] = q[k + 1]
         /\ Len(q) = 1 => Tail(q) = <<>> /\ DOMAIN Tail(q) = {}
         /\ \A j, k \in DOMAIN Tail(q) : j + 1 = k + 1 => j = k
<1>1. PICK S : q \in Seq(S)
  OBVIOUS
<1>2. /\ Len(q) \in Nat /\ Len(q) # 0 /\ DOMAIN q = 1 .. Len(q) /\ q[1] = Head(q)
      /\ Tail(q) \in Seq(S) /\ Len(Tail(q)) = Len(q) - 1 /\ DOMAIN Tail(q) = 1 .. Len(q) - 1
      /\ \A k \in 1 .. Len(q) - 1 : Tail(q)[k] = q[k + 1]
  BY <1>1
<1>3. Len(q) = 1 => Tail(q) = <<>> /\ DOMAIN Tail(q) = {}
  BY <1>2
<1>4. QED
  BY <1>2, <1>3

\* A client that lists no answer lists none after the interviewer has spoken.
LEMMA StillUngreeted ==
  ASSUME IsSdk(sdk), Ungreeted(sdk), NEW f, f.type \in AnyType, LastTurn(f) \/ f.type = "error"
  PROVE  Ungreeted(Handled(f))
<1>1. CASE f.type = "error"
  BY <1>1, HandledIs, QuietKeeps
<1>2. CASE LastTurn(f)
  <2> DEFINE h == Handled(f)
             l == Line("interviewer", f.n)
  <2>1. h.last = 0 /\ h.log = Append(sdk.log, l) /\ h.phase = "complete"
    BY <1>2, HandledIs DEF LastTurn
  <2>2. l.who = "interviewer"
    BY DEF Line
  <2> HIDE DEF h, l
  <2>3. \A k \in DOMAIN h.log : h.log[k].who # "respondent"
    <3>1. /\ DOMAIN h.log = 1 .. Len(sdk.log) + 1 /\ DOMAIN sdk.log = 1 .. Len(sdk.log)
          /\ Len(sdk.log) \in Nat
          /\ \A k \in DOMAIN h.log : h.log[k] = IF k = Len(sdk.log) + 1 THEN l ELSE sdk.log[k]
      BY <2>1, MoreLines DEF IsSdk
    <3>2. \A k \in DOMAIN sdk.log : sdk.log[k].who # "respondent"
      BY DEF Ungreeted
    <3>3. QED
      BY <2>2, <3>1, <3>2
  <2>4. QED
    BY <2>1, <2>3 DEF Ungreeted, h
<1>3. QED
  BY <1>1, <1>2

\* The client handles a frame of its connection, or one that an earlier
\* connection has left.
LEMMA SdkMessageKept ==
  ASSUME ClientOk, SdkMessage
  PROVE  ClientOk'
<1>1. /\ IsSdk(sdk) /\ link = [g \in LinkFields |-> link[g]] /\ Of(link.down, AnyType) /\ Of(sdkLate, AnyType)
      /\ UNCHANGED <<interviews, replies>>
  BY DEF ClientOk, ClientShape, SdkMessage, serverVars
<1>2. Len(interviews) = 0 => Ungreeted(sdk) /\ Of(sdkLate, {"error"}) /\ Of(link.down, {"error"})
                             /\ (link.st = "open" => link.down = <<>>)
  BY DEF ClientOk, BeforeFirst
<1>3. LinesInv' /\ \A m : Recorded(m) => Recorded(m)'
  BY <1>1 DEF ClientOk, LinesInv, LedgerInv, Recorded
<1>4. CASE link.down # <<>> /\ sdkLate' = sdkLate
           /\ LET f == Head(link.down) IN
                IF LastTurn(f) THEN sdk' = Deliberate(Handled(f)) /\ link' = NoLink
                ELSE sdk' = Handled(f) /\ link' = [link EXCEPT !.down = Tail(@)]
  <2>1. PICK f : f = Head(link.down)
    OBVIOUS
  <2>2. f.type \in AnyType /\ Of(Tail(link.down), AnyType) /\ \E S : link.down \in Seq(S)
    BY <1>1, <1>4, <2>1, OfHead DEF Of
  <2>3. /\ 1 \in DOMAIN link.down /\ link.down[1] = f
        /\ \A k \in DOMAIN Tail(link.down) :
             k + 1 # 1 /\ k + 1 \in DOMAIN link.down /\ Tail(link.down)[k] = link.down[k + 1]
        /\ Len(link.down) = 1 => DOMAIN Tail(link.down) = {}
    BY <1>4, <2>1, <2>2, TailIs
  <2>4. CASE LastTurn(f)
    <3>1. sdk' = Deliberate(Handled(f)) /\ link' = NoLink
      BY <1>4, <2>1, <2>4
    <3>2. IsSdk(Handled(f))
      BY <1>1, <2>2, HandledIs
    <3>3. IsSdk(sdk') /\ (Ungreeted(Handled(f)) => Ungreeted(sdk'))
      BY <3>1, <3>2, DeliberateIs DEF Ungreeted
    <3>4. Ungreeted(sdk) => Ungreeted(sdk')
      BY <1>1, <2>2, <2>4, <3>3, StillUngreeted
    <3>5. QED
      BY <1>1, <1>4, <3>1, <3>3, <3>4, LetGo
  <2>5. CASE ~LastTurn(f)
    <3>1. sdk' = Handled(f) /\ link' = [link EXCEPT !.down = Tail(link.down)]
      BY <1>4, <2>1, <2>5
    <3>2. IsSdk(sdk')
      BY <1>1, <2>2, <3>1, HandledIs
    <3>3. /\ link' = [g \in LinkFields |-> link'[g]] /\ link'.id = link.id /\ link'.up = link.up
          /\ link'.down = Tail(link.down) /\ link'.st = link.st
      BY <1>1, <3>1 DEF LinkFields
    <3>4. ClientShape'
      BY <1>1, <1>4, <2>2, <3>2, <3>3 DEF ClientOk, ClientShape
    <3>5. BeforeFirst'
      <4>1. ASSUME Len(interviews) = 0
            PROVE  Ungreeted(sdk') /\ Of(link'.down, {"error"}) /\ link'.st # "open" /\ Of(sdkLate, {"error"})
        <5>1. f.type = "error" /\ Of(Tail(link.down), {"error"})
          BY <1>2, <1>4, <2>1, <4>1, OfHead
        <5>2. QED
          BY <1>1, <1>2, <1>4, <2>2, <3>1, <3>3, <4>1, <5>1, StillUngreeted
      <4>2. QED
        BY <1>1, <1>4, <4>1 DEF BeforeFirst
    <3>6. ASSUME InFirst' PROVE Saved(link, sdk)'
      <4>1. Saved(link, sdk)
        BY <1>1, <3>3, <3>6 DEF ClientOk, InFirst, RecordedOnce
      <4>2. ASSUME f.type = "hello" PROVE Saved(link, sdk)'
        <5>1. Len(link.down) = 1 /\ link.up = <<>> /\ Ungreeted(sdk)
          BY <2>3, <4>1, <4>2 DEF Saved, GreetingFirst
        <5>2. DOMAIN link'.down = {} /\ DOMAIN link'.up = {} /\ sdk'.last = 0
              /\ sdk'.log = <<Line("interviewer", 0)>>
          <6>1. DOMAIN <<>> = {}
            OBVIOUS
          <6>2. QED
            BY <1>1, <2>2, <2>3, <3>1, <3>3, <4>2, <5>1, <6>1, HandledIs DEF Ungreeted
        <5>3. \A k \in DOMAIN sdk'.log : sdk'.log[k].who # "respondent"
          BY <5>2 DEF Line
        <5>4. QED
          BY <1>4, <4>1, <5>2, <5>3 DEF Saved, GreetingFirst, OneTurn, KeepsTheLast
      <4>3. ASSUME f.type # "hello"
            PROVE  /\ \A k \in DOMAIN link'.down : link'.down[k].type # "hello"
                   /\ \A k \in DOMAIN link'.down : link'.down[k] = link.down[k + 1] /\ k + 1 # 1 /\ k + 1 \in DOMAIN link.down
        <5>1. \A k \in DOMAIN link'.down : link'.down[k] = link.down[k + 1] /\ k + 1 # 1 /\ k + 1 \in DOMAIN link.down
          BY <2>3, <3>3
        <5>2. \A k \in DOMAIN link.down : link.down[k].type = "hello" => Len(link.down) = 1
          BY <4>1 DEF Saved, GreetingFirst
        <5>3. Len(link.down) = 1 => DOMAIN link'.down = {}
          BY <2>3, <3>3
        <5>4. QED
          BY <5>1, <5>2, <5>3
      <4>4. ASSUME f.type = "turn" PROVE Saved(link, sdk)'
        <5>1. /\ sdk.last # 0 /\ Recorded(sdk.last)
              /\ \A j \in DOMAIN link.down : link.down[j].type = "turn" => j = 1
          BY <2>3, <4>1, <4>4 DEF Saved, OneTurn
        <5>2. sdk'.last = 0 /\ sdk'.log = Append(sdk.log, Line("interviewer", f.n))
          BY <1>1, <2>2, <3>1, <4>4, HandledIs
        <5>3. \A k \in DOMAIN sdk'.log :
                sdk'.log[k].who = "respondent" => k \in DOMAIN sdk.log /\ sdk'.log[k] = sdk.log[k]
          <6>1. Line("interviewer", f.n).who = "interviewer"
            BY DEF Line
          <6>2. QED
            BY <1>1, <5>2, <6>1, MoreLines DEF IsSdk
        <5>4. KeepsTheLast(link, sdk)'
          <6>1. ASSUME NEW k \in DOMAIN sdk'.log, sdk'.log[k].who = "respondent", NEW m, m = sdk'.log[k].n
                PROVE  Recorded(m)'
            BY <1>3, <4>1, <5>1, <5>3, <6>1 DEF Saved, KeepsTheLast
          <6>2. ASSUME NEW k \in DOMAIN link'.up, NEW m, m = link'.up[k]
                PROVE  m # 0 /\ Recorded(m)'
            BY <1>3, <3>3, <4>1, <5>1, <6>2 DEF Saved, KeepsTheLast
          <6>3. QED
            BY <5>2, <6>1, <6>2 DEF KeepsTheLast
        <5>5. GreetingFirst(link, sdk)' /\ OneTurn(link, sdk)'
          BY <4>3, <4>4, <5>1 DEF GreetingFirst, OneTurn
        <5>6. QED
          BY <1>4, <4>1, <5>4, <5>5 DEF Saved
      <4>5. ASSUME f.type = "error" PROVE Saved(link, sdk)'
        <5>1. Quiet(sdk')
          BY <1>1, <2>2, <3>1, <4>5, HandledIs
        <5>2. KeepsTheLast(link, sdk)'
          BY <1>3, <3>3, <4>1, <5>1 DEF Saved, KeepsTheLast, Quiet
        <5>3. GreetingFirst(link, sdk)'
          BY <4>3, <4>5 DEF GreetingFirst
        <5>4. OneTurn(link, sdk)'
          <6>1. ASSUME NEW k \in DOMAIN link'.down, link'.down[k].type = "turn"
                PROVE  /\ link'.down[k].n = sdk'.last /\ sdk'.last # 0
                       /\ \A m : m = sdk'.last => Recorded(m)'
                       /\ \A j \in DOMAIN link'.down : link'.down[j].type = "turn" => j = k
            <7>1. k + 1 \in DOMAIN link.down /\ link.down[k + 1] = link'.down[k] /\ sdk'.last = sdk.last
              BY <4>3, <4>5, <5>1, <6>1 DEF Quiet
            <7>2. /\ link.down[k + 1].n = sdk.last /\ sdk.last # 0 /\ Recorded(sdk.last)
                  /\ \A j \in DOMAIN link.down : link.down[j].type = "turn" => j = k + 1
              BY <4>1, <6>1, <7>1 DEF Saved, OneTurn
            <7>3. \A j \in DOMAIN link'.down : link'.down[j].type = "turn" => j + 1 = k + 1
              BY <4>3, <4>5, <7>2
            <7>4. \A j, i \in DOMAIN Tail(link.down) : j + 1 = i + 1 => j = i
              BY <1>4, <2>2, TailIs
            <7>5. QED
              BY <1>3, <3>3, <6>1, <7>1, <7>2, <7>3, <7>4
          <6>2. QED
            BY <6>1 DEF OneTurn
        <5>5. QED
          BY <1>4, <4>1, <5>2, <5>3, <5>4 DEF Saved
      <4>6. QED
        BY <2>2, <4>2, <4>4, <4>5 DEF AnyType
    <3>7. QED
      BY <1>3, <3>4, <3>5, <3>6 DEF ClientOk
  <2>6. QED
    BY <2>4, <2>5
<1>5. CASE sdkLate # <<>> /\ sdkLate' = Tail(sdkLate)
           /\ LET f == Head(sdkLate) IN
                /\ sdk'  = IF LastTurn(f) THEN Deliberate(Handled(f)) ELSE Handled(f)
                /\ link' = IF LastTurn(f) THEN NoLink ELSE link
  <2>1. PICK f : f = Head(sdkLate)
    OBVIOUS
  <2>2. f.type \in AnyType /\ \A types : Of(sdkLate, types) => f.type \in types /\ Of(sdkLate', types)
    BY <1>1, <1>5, <2>1, OfHead
  <2>3. CASE LastTurn(f)
    <3>1. sdk' = Deliberate(Handled(f)) /\ link' = NoLink
      BY <1>5, <2>1, <2>3
    <3>2. IsSdk(Handled(f))
      BY <1>1, <2>2, HandledIs
    <3>3. IsSdk(sdk') /\ (Ungreeted(Handled(f)) => Ungreeted(sdk'))
      BY <3>1, <3>2, DeliberateIs DEF Ungreeted
    <3>4. Ungreeted(sdk) => Ungreeted(sdk')
      BY <1>1, <2>2, <2>3, <3>3, StillUngreeted
    <3>5. QED
      BY <1>1, <2>2, <3>1, <3>3, <3>4, LetGo
  <2>4. CASE ~LastTurn(f)
    <3>1. sdk' = Handled(f) /\ link' = link
      BY <1>5, <2>1, <2>4
    <3>2. ClientShape'
      BY <1>1, <2>2, <3>1, HandledIs DEF ClientOk, ClientShape
    <3>3. Of(sdkLate, {"error"}) => f.type = "error" /\ Quiet(sdk') /\ Of(sdkLate', {"error"})
      BY <1>1, <2>2, <3>1, HandledIs
    <3>4. BeforeFirst'
      BY <1>1, <1>2, <3>1, <3>3, QuietKeeps DEF ClientOk, BeforeFirst
    <3>5. ASSUME InFirst' PROVE Saved(link, sdk)'
      <4>1. Saved(link, sdk)
        BY <1>1, <3>1, <3>5 DEF ClientOk, InFirst, RecordedOnce
      <4>2. Quiet(sdk') /\ Of(sdkLate', {"error"})
        BY <3>3, <4>1 DEF Saved
      <4>3. GreetingFirst(link, sdk') /\ OneTurn(link, sdk') /\ KeepsTheLast(link, sdk')
        BY <4>1, <4>2, QuietKeeps DEF Saved
      <4>4. QED
        BY <1>3, <3>1, <4>2, <4>3 DEF Saved, GreetingFirst, OneTurn, KeepsTheLast
    <3>6. QED
      BY <1>3, <3>2, <3>4, <3>5 DEF ClientOk
  <2>5. QED
    BY <2>3, <2>4
<1>6. QED
  BY <1>4, <1>5 DEF SdkMessage

\* What the site does with the client: an answer is sent, or the last one again.
LEMMA SendKept ==
  ASSUME ClientOk, NEW s, NEW n \in Nat, n # 0, NEW r \in Nat, IsSdk(s), s.last = n, s.phase = "thinking",
         link' = [link EXCEPT !.up = Append(link.up, n)], sdk' = s, replies' = r,
         UNCHANGED <<sdkLate, interviews>>,
         \/ /\ sdk.phase = "asking" /\ s.log = Append(sdk.log, Line("respondent", n))
         \/ /\ sdk.last = n /\ s.log = sdk.log
  PROVE  ClientOk'
<1>1. IsSdk(sdk) /\ link = [g \in LinkFields |-> link[g]] /\ link.up \in Seq(Nat)
  BY DEF ClientOk, ClientShape
<1>2. /\ link' = [g \in LinkFields |-> link'[g]] /\ link'.id = link.id /\ link'.st = link.st
      /\ link'.up = Append(link.up, n) /\ link'.down = link.down
  BY <1>1 DEF LinkFields
<1>3. Append(link.up, n) \in Seq(Nat)
  BY <1>1
<1>4. LinesInv' /\ ClientShape' /\ \A m : Recorded(m) => Recorded(m)'
  BY <1>2, <1>3 DEF ClientOk, LinesInv, LedgerInv, ClientShape, Recorded
<1>5. ~Ungreeted(sdk)
  BY DEF Ungreeted
<1>6. BeforeFirst'
  BY <1>5 DEF ClientOk, BeforeFirst
<1>7. ASSUME InFirst' PROVE Saved(link, sdk)'
  <2>1. Saved(link, sdk)
    BY <1>2, <1>7 DEF ClientOk, InFirst, RecordedOnce
  <2>2. \A k \in DOMAIN link.down : link.down[k].type # "hello"
    BY <1>5, <2>1 DEF Saved, GreetingFirst
  <2>3. CASE sdk.phase = "asking" /\ s.log = Append(sdk.log, Line("respondent", n))
    <3>1. sdk.last = 0
      BY <2>1, <2>3 DEF Saved, KeepsTheLast
    <3>2. \A k \in DOMAIN link.down : link.down[k].type # "turn"
      BY <2>1, <3>1 DEF Saved, OneTurn
    <3>3. \A k \in DOMAIN s.log :
            \/ k \in DOMAIN sdk.log /\ s.log[k] = sdk.log[k]
            \/ s.log[k].n = n
      <4>1. PICK l : l = Line("respondent", n)
        OBVIOUS
      <4>2. l.n = n
        BY <4>1 DEF Line
      <4>3. \E S : sdk.log \in Seq(S)
        BY <1>1 DEF IsSdk
      <4>4. s.log = Append(sdk.log, l)
        BY <2>3, <4>1
      <4>5. /\ Len(sdk.log) \in Nat /\ DOMAIN sdk.log = 1 .. Len(sdk.log)
            /\ DOMAIN s.log = 1 .. Len(sdk.log) + 1
            /\ \A k \in DOMAIN s.log : s.log[k] = IF k = Len(sdk.log) + 1 THEN l ELSE sdk.log[k]
        BY <4>3, <4>4, MoreLines
      <4>6. QED
        BY <4>2, <4>5
    <3>4. \A k \in DOMAIN link'.up : \/ k \in DOMAIN link.up /\ link'.up[k] = link.up[k]
                                     \/ link'.up[k] = n
      BY <1>1, <1>2, MoreLines
    <3>5. KeepsTheLast(link, sdk)'
      <4>1. ASSUME NEW k \in DOMAIN s.log, s.log[k].who = "respondent", NEW m, m = s.log[k].n
            PROVE  Recorded(m)' \/ m = n
        BY <1>4, <2>1, <3>1, <3>3, <4>1 DEF Saved, KeepsTheLast
      <4>2. ASSUME NEW k \in DOMAIN link'.up, NEW m, m = link'.up[k]
            PROVE  m # 0 /\ (Recorded(m)' \/ m = n)
        BY <1>4, <2>1, <3>1, <3>4, <4>2 DEF Saved, KeepsTheLast
      <4>3. QED
        BY <4>1, <4>2 DEF KeepsTheLast
    <3>6. GreetingFirst(link, sdk)' /\ OneTurn(link, sdk)'
      BY <1>2, <2>2, <3>2 DEF GreetingFirst, OneTurn
    <3>7. QED
      BY <2>1, <3>5, <3>6 DEF Saved
  <2>4. CASE sdk.last = n /\ s.log = sdk.log
    <3>1. \A k \in DOMAIN link'.up : \/ k \in DOMAIN link.up /\ link'.up[k] = link.up[k]
                                     \/ link'.up[k] = n
      BY <1>1, <1>2, MoreLines
    <3>2. KeepsTheLast(link, sdk)'
      <4>1. ASSUME NEW k \in DOMAIN s.log, s.log[k].who = "respondent", NEW m, m = s.log[k].n
            PROVE  Recorded(m)' \/ m = n
        BY <1>4, <2>1, <2>4, <4>1 DEF Saved, KeepsTheLast
      <4>2. ASSUME NEW k \in DOMAIN link'.up, NEW m, m = link'.up[k]
            PROVE  m # 0 /\ (Recorded(m)' \/ m = n)
        BY <1>4, <2>1, <2>4, <3>1, <4>2 DEF Saved, KeepsTheLast
      <4>3. QED
        BY <4>1, <4>2 DEF KeepsTheLast
    <3>3. GreetingFirst(link, sdk)'
      BY <1>2, <2>2 DEF GreetingFirst
    <3>4. OneTurn(link, sdk)'
      <4>1. ASSUME NEW k \in DOMAIN link.down, link.down[k].type = "turn"
            PROVE  /\ link.down[k].n = n /\ Recorded(n)'
                   /\ \A j \in DOMAIN link.down : link.down[j].type = "turn" => j = k
        BY <1>4, <2>1, <2>4, <4>1 DEF Saved, OneTurn
      <4>2. QED
        BY <1>2, <4>1 DEF OneTurn
    <3>5. QED
      BY <2>1, <3>2, <3>3, <3>4 DEF Saved
  <2>5. QED
    BY <2>3, <2>4
<1>8. QED
  BY <1>4, <1>6, <1>7 DEF ClientOk

LEMMA SdkReplyKept ==
  ASSUME ClientOk, SdkReply \/ SdkRetry
  PROVE  ClientOk'
<1>1. IsSdk(sdk) /\ replies \in Nat
  BY DEF ClientOk, ClientShape
<1>2. CASE SdkReply /\ sdk' = Fail(sdk, TRUE) /\ UNCHANGED <<link, replies>>
  BY <1>1, <1>2, FailIsQuiet, QuietStep DEF SdkReply
<1>3. CASE /\ SdkReply /\ sdk.phase = "asking" /\ replies' = replies + 1
           /\ link' = [link EXCEPT !.up = Append(@, replies')]
           /\ sdk'  = [sdk EXCEPT !.phase = "thinking", !.error = "none", !.last = replies',
                                  !.log = Append(@, Line("respondent", replies'))]
  <2>1. PICK n : n = replies + 1
    OBVIOUS
  <2>2. n \in Nat /\ n # 0
    BY <1>1, <2>1
  <2>3. PICK l : l = Line("respondent", n)
    OBVIOUS
  <2>4. sdk' = [sdk EXCEPT !.phase = "thinking", !.error = "none", !.last = n, !.log = Append(sdk.log, l)]
        /\ link' = [link EXCEPT !.up = Append(link.up, n)] /\ replies' = n /\ UNCHANGED <<sdkLate, interviews>>
    BY <1>3, <2>1, <2>3 DEF SdkReply
  <2>5. \E S : Append(sdk.log, l) \in Seq(S)
    <3>1. PICK S : sdk.log \in Seq(S)
      BY <1>1 DEF IsSdk
    <3>2. sdk.log \in Seq(S \union {l}) /\ l \in S \union {l}
      BY <3>1
    <3>3. Append(sdk.log, l) \in Seq(S \union {l})
      BY <3>2, AppendProperties
    <3>4. QED
      BY <3>3
  <2>6. sdk' = [g \in SdkFields |-> sdk'[g]] /\ sdk'.last = n /\ sdk'.log = Append(sdk.log, l)
        /\ sdk'.phase = "thinking"
    BY <1>1, <2>4 DEF IsSdk, SdkFields
  <2>7. IsSdk(sdk')
    BY <2>2, <2>5, <2>6 DEF IsSdk
  <2>8. PICK s : s = sdk'
    OBVIOUS
  <2>9. QED
    BY <1>3, <2>2, <2>3, <2>4, <2>6, <2>7, <2>8, SendKept
<1>4. CASE SdkRetry
  <2>1. PICK n : n = sdk.last
    OBVIOUS
  <2>2. /\ n \in Nat /\ n # 0 /\ replies' \in Nat /\ UNCHANGED <<sdkLate, interviews>>
        /\ link' = [link EXCEPT !.up = Append(link.up, n)]
        /\ sdk' = [sdk EXCEPT !.phase = "thinking", !.error = "none"]
    BY <1>1, <1>4, <2>1 DEF SdkRetry, IsSdk
  <2>3. IsSdk(sdk') /\ sdk'.last = n /\ sdk'.log = sdk.log /\ sdk'.phase = "thinking"
    BY <1>1, <2>1, <2>2 DEF IsSdk, SdkFields
  <2>4. PICK s, r : s = sdk' /\ r = replies'
    OBVIOUS
  <2>5. QED
    BY <2>1, <2>2, <2>3, <2>4, SendKept
<1>5. QED
  BY <1>2, <1>3, <1>4 DEF SdkReply

\* Every step of the client, or of the server for it.
LEMMA ClientKept ==
  ASSUME ClientOk, SdkStep
  PROVE  ClientOk'
<1>1. IsSdk(sdk) /\ link = [g \in LinkFields |-> link[g]] /\ Len(interviews) \in Nat
  BY DEF ClientOk, ClientShape, LinesInv, LedgerInv
<1>2. CASE SdkServe \/ SdkMessage \/ SdkReply \/ SdkRetry
  BY <1>2, SdkServeKept, SdkMessageKept, SdkReplyKept
<1>3. CASE Load \/ Loaded
  <2>1. Quiet(sdk')
    <3>1. CASE sdk' = [sdk EXCEPT !.phase = "loading", !.error = "none"]
      BY <1>1, <3>1 DEF Quiet, IsSdk, SdkFields
    <3>2. CASE sdk' = [sdk EXCEPT !.phase = "consent", !.loaded = TRUE, !.error = "none"]
      BY <1>1, <3>2 DEF Quiet, IsSdk, SdkFields
    <3>3. CASE \E closed \in BOOLEAN : sdk' = Fail(sdk, ~closed)
      BY <1>1, <3>3, FailIsQuiet
    <3>4. QED
      BY <1>3, <3>1, <3>2, <3>3 DEF Load, Loaded
  <2>2. UNCHANGED <<link, sdkLate, interviews, replies>>
    BY <1>3 DEF Load, Loaded, serverVars
  <2>3. QED
    BY <2>1, <2>2, QuietStep
<1>4. ASSUME NEW s, IsSdk(s), Ungreeted(sdk) => s.last = 0 /\ \A k \in DOMAIN s.log : s.log[k].who # "respondent",
             StartSession(s), UNCHANGED <<interviews, replies>>
      PROVE  ClientOk'
  <2>1. sdk' = [Deliberate(s) EXCEPT !.phase = "authorizing", !.error = "none"] /\ Disconnect
    BY <1>4 DEF StartSession
  <2>2. IsSdk(Deliberate(s)) /\ Deliberate(s).log = s.log /\ Deliberate(s).last = s.last
    BY <1>4, DeliberateIs
  <2>3. IsSdk(sdk') /\ sdk'.log = s.log /\ sdk'.last = s.last /\ sdk'.phase = "authorizing"
    BY <2>1, <2>2 DEF IsSdk, SdkFields
  <2>4. Ungreeted(sdk) => Ungreeted(sdk')
    BY <1>4, <2>3 DEF Ungreeted
  <2>5. QED
    BY <1>4, <2>1, <2>3, <2>4, DisconnectIs, LetGo
<1>5. CASE \E consent \in BOOLEAN : SdkStart(consent)
  <2>1. CASE StartSession(sdk) /\ UNCHANGED <<interviews, replies>>
    BY <1>1, <1>4, <2>1 DEF Ungreeted
  <2>2. CASE sdk' = Fail(sdk, TRUE) /\ UNCHANGED <<link, sdkLate, interviews, replies>>
    BY <1>1, <2>2, FailIsQuiet, QuietStep
  <2>3. QED
    BY <1>5, <2>1, <2>2 DEF SdkStart
<1>6. CASE Restart
  <2> DEFINE s == [sdk EXCEPT !.log = <<>>, !.last = 0]
  <2>1. s = [g \in SdkFields |-> s[g]] /\ s.last = 0 /\ s.log = <<>>
    BY <1>1 DEF IsSdk, SdkFields
  <2>2. StartSession(s) /\ UNCHANGED <<interviews, replies>>
    BY <1>6 DEF Restart
  <2> HIDE DEF s
  <2>3. <<>> \in Seq({}) /\ DOMAIN <<>> = {}
    OBVIOUS
  <2>4. \E S : s.log \in Seq(S)
    BY <2>1, <2>3
  <2>5. IsSdk(s)
    BY <2>1, <2>4 DEF IsSdk
  <2>6. QED
    BY <1>4, <2>1, <2>2, <2>3, <2>5
<1>7. CASE Authorized
  <2>1. CASE /\ sdk'  = [sdk EXCEPT !.phase = "connecting", !.error = "none", !.deliberate = FALSE]
             /\ link' = [NoLink EXCEPT !.st = "connecting"]
    <3>1. Quiet(sdk')
      BY <1>1, <2>1 DEF Quiet, IsSdk, SdkFields
    <3>2. IsSdk(sdk') /\ (Ungreeted(sdk) => Ungreeted(sdk'))
      BY <3>1, QuietKeeps DEF Quiet
    <3>3. UNCHANGED <<sdkLate, interviews, replies>>
      BY <1>7 DEF Authorized
    <3>4. QED
      BY <2>1, <3>2, <3>3, LetGo
  <2>2. CASE sdk' = Fail(sdk, TRUE) /\ UNCHANGED link
    BY <1>1, <1>7, <2>2, FailIsQuiet, QuietStep DEF Authorized
  <2>3. QED
    BY <1>7, <2>1, <2>2 DEF Authorized
<1>8. CASE SocketOpen
  <2>1. /\ link.st = "connecting" /\ link' = [link EXCEPT !.st = "open", !.up = <<0>>]
        /\ UNCHANGED <<sdk, sdkLate, interviews, replies>>
    BY <1>8 DEF SocketOpen, serverVars
  <2>2. /\ link' = [g \in LinkFields |-> link'[g]] /\ link'.id = 0 /\ link'.st = "open"
        /\ link'.up = <<0>> /\ link'.down = <<>> /\ link.down = <<>> /\ link.id = 0
    BY <1>1, <2>1 DEF ClientOk, ClientShape, LinkFields
  <2>3. <<0>> \in Seq(Nat)
    OBVIOUS
  <2>4. LinesInv' /\ ClientShape'
    BY <1>1, <2>1, <2>2, <2>3 DEF ClientOk, ClientShape, LinesInv, LedgerInv
  <2>5. BeforeFirst'
    BY <2>1, <2>2 DEF ClientOk, BeforeFirst
  <2>6. QED
    BY <2>2, <2>4, <2>5 DEF ClientOk, InFirst
<1>9. CASE SocketClose
  <2>1. /\ Disconnect /\ UNCHANGED <<interviews, replies>>
        /\ sdk' = sdk \/ sdk' = Fail(sdk, TRUE)
    BY <1>9 DEF SocketClose
  <2>2. IsSdk(sdk') /\ (Ungreeted(sdk) => Ungreeted(sdk'))
    <3>1. CASE sdk' = sdk
      BY <1>1, <3>1
    <3>2. CASE sdk' = Fail(sdk, TRUE)
      BY <1>1, <3>2, FailIsQuiet, QuietKeeps DEF Quiet
    <3>3. QED
      BY <2>1, <3>1, <3>2
  <2>3. QED
    BY <2>1, <2>2, DisconnectIs, LetGo
<1>10. CASE SdkClose
  <2>1. /\ Disconnect /\ UNCHANGED <<interviews, replies>>
        /\ sdk' = [Deliberate(sdk) EXCEPT !.phase = "closed", !.error = "none", !.last = 0]
    BY <1>10 DEF SdkClose
  <2>2. IsSdk(Deliberate(sdk)) /\ Deliberate(sdk).log = sdk.log
    BY <1>1, DeliberateIs
  <2>3. IsSdk(sdk') /\ sdk'.log = sdk.log /\ sdk'.last = 0 /\ sdk'.phase = "closed"
    <3>1. sdk' = [g \in SdkFields |-> sdk'[g]] /\ sdk'.log = sdk.log /\ sdk'.last = 0 /\ sdk'.phase = "closed"
      BY <2>1, <2>2 DEF IsSdk, SdkFields
    <3>2. QED
      BY <1>1, <3>1 DEF IsSdk
  <2>4. Ungreeted(sdk) => Ungreeted(sdk')
    BY <2>3 DEF Ungreeted
  <2>5. QED
    BY <2>1, <2>3, <2>4, DisconnectIs, LetGo
<1>11. CASE Straggler /\ UNCHANGED sdkVars
  <2>1. UNCHANGED <<sdk, link, sdkLate, replies>>
    BY <1>11 DEF Straggler, sdkVars
  <2>2. /\ LinesInv' /\ Len(interviews') = Len(interviews)
        /\ \A m : Recorded(m) => Recorded(m)'
        /\ Len(interviews) = 1 /\ RecordedOnce(1)' => RecordedOnce(1)
    <3>1. CASE UNCHANGED interviews
      BY <3>1 DEF ClientOk, LinesInv, LedgerInv, Recorded, RecordedOnce
    <3>2. ASSUME NEW i, NEW n, NEW kind, interviews' = WithTurn(i, n, kind)
          PROVE  /\ LinesInv' /\ Len(interviews') = Len(interviews)
                 /\ \A m : Recorded(m) => Recorded(m)'
                 /\ Len(interviews) = 1 /\ RecordedOnce(1)' => RecordedOnce(1)
      BY <3>2, TurnInLines DEF ClientOk
    <3>3. (\E i, n, kind : interviews' = WithTurn(i, n, kind)) \/ UNCHANGED interviews
      BY <1>11 DEF Straggler
    <3>4. QED
      BY <3>1, <3>2, <3>3
  <2>3. ClientShape' /\ BeforeFirst'
    BY <2>1, <2>2 DEF ClientOk, ClientShape, BeforeFirst
  <2>4. ASSUME InFirst' PROVE Saved(link, sdk)'
    <3>1. Saved(link, sdk)
      BY <2>1, <2>2, <2>4 DEF ClientOk, InFirst
    <3>2. QED
      BY <2>1, <2>2, <3>1 DEF Saved, GreetingFirst, OneTurn, KeepsTheLast
  <2>5. QED
    BY <2>2, <2>3, <2>4 DEF ClientOk
<1>12. QED
  BY <1>2, <1>3, <1>5, <1>6, <1>7, <1>8, <1>9, <1>10, <1>11 DEF SdkStep

\* What the others do: the page and the server for it, the element, or nothing.
LEMMA LinesKept ==
  ASSUME LinesInv, [Next]_vars, surface # "headless"
  PROVE  LinesInv'
<1>1. CASE UNCHANGED interviews
  BY <1>1 DEF LinesInv, LedgerInv
<1>2. ASSUME NEW i, NEW n, NEW kind, interviews' = WithTurn(i, n, kind) PROVE LinesInv'
  BY <1>2, TurnInLines
<1>3. ASSUME interviews' = Append(interviews, Begun) \/ interviews' = Append(interviews, [Begun EXCEPT !.lines = <<>>])
      PROVE  LinesInv'
  <2>1. Begun.lines \in Seq({Line("interviewer", 0)}) /\ [Begun EXCEPT !.lines = <<>>].lines \in Seq({})
    BY DEF Begun
  <2>2. PICK i : (i = Begun \/ i = [Begun EXCEPT !.lines = <<>>]) /\ interviews' = Append(interviews, i)
    BY <1>3
  <2>3. \E T : i.lines \in Seq(T)
    BY <2>1, <2>2
  <2>4. QED
    BY <2>2, <2>3, BegunInLines
<1>4. CASE Shake
  <2>1. \/ UNCHANGED interviews \/ interviews' = Append(interviews, Begun)
        \/ interviews' = Append(interviews, [Begun EXCEPT !.lines = <<>>])
    BY <1>4 DEF Shake
  <2>2. QED
    BY <1>1, <1>3, <2>1
<1>5. CASE Serve \/ ServeVoice \/ Straggler
  <2>1. (\E i, n, kind : interviews' = WithTurn(i, n, kind)) \/ UNCHANGED interviews
    BY <1>5 DEF Serve, ServeVoice, Straggler
  <2>2. QED
    BY <1>1, <1>2, <2>1
<1>6. CASE PageStep
  <2>1. Shake \/ Serve \/ ServeVoice \/ UNCHANGED interviews
    BY <1>6
       DEF PageStep, Preflight, Align, Tick, Start, Opened, Closed, StaleClose, Reconnect, OnMessage,
           SendReply, Watchdog, LingerEnds, Redirect, OnVoiceMessage, AudioEnds, MicAnswered, OrbTap,
           ToggleReadAloud, SwitchToText, Reload, serverVars
  <2>2. QED
    BY <1>1, <1>4, <1>5, <2>1
<1>7. CASE HostStep \/ UNCHANGED vars
  BY <1>1, <1>7 DEF HostStep, HostOpen, HostClose, ReadyTimeout, HandleMessage, vars, serverVars
<1>8. QED
  BY <1>5, <1>6, <1>7 DEF Next, Embedded, Direct, Headless, ElementStep

LEMMA ClientHolds == ClientInv /\ [Next]_vars => ClientInv'
<1> SUFFICES ASSUME ClientInv, [Next]_vars PROVE ClientInv'
  OBVIOUS
<1>1. UNCHANGED surface
  BY DEF Next, Embedded, Direct, Headless, vars
<1>2. CASE surface # "headless"
  <2>1. UNCHANGED sdk
    BY <1>2 DEF Next, Embedded, Direct, Headless, vars, sdkVars
  <2>2. LinesInv'
    BY <1>2, LinesKept DEF ClientInv
  <2>3. QED
    BY <1>1, <1>2, <2>1, <2>2 DEF ClientInv
<1>3. CASE surface = "headless" /\ SdkStep
  BY <1>1, <1>3, ClientKept DEF ClientInv, ClientOk
<1>4. CASE surface = "headless" /\ UNCHANGED vars
  <2>1. UNCHANGED <<sdk, link, sdkLate, interviews, replies>>
    BY <1>4 DEF vars, sdkVars, serverVars
  <2>2. LinesInv' /\ ClientShape' /\ BeforeFirst'
    BY <1>4, <2>1 DEF ClientInv, ClientOk, LinesInv, LedgerInv, ClientShape, BeforeFirst
  <2>3. InFirst' => Saved(link, sdk)'
    BY <1>4, <2>1
       DEF ClientInv, ClientOk, InFirst, RecordedOnce, Saved, GreetingFirst, OneTurn, KeepsTheLast, Recorded
  <2>4. QED
    BY <1>1, <1>4, <2>2, <2>3 DEF ClientInv, ClientOk
<1>5. QED
  BY <1>2, <1>3, <1>4 DEF Next, Embedded, Direct, Headless

LEMMA ClientAlways == Spec => []ClientInv
<1>1. QED
  BY ClientStarts, ClientHolds, PTL DEF Spec

\* While the headless client asks the next question of the one interview it has
\* begun, every answer it lists is in the interview's log, as long as retry() has
\* not had an answer recorded twice.
THEOREM AnswersAreSaved == Spec => []SdkAnswersSaved
<1>1. ClientInv => SdkAnswersSaved
  <2> SUFFICES ASSUME ClientInv, sdk.phase = "asking", link.id # 0, Len(interviews) = 1, RecordedOnce(1),
                      NEW k \in DOMAIN sdk.log, sdk.log[k].who = "respondent"
               PROVE  Recorded(sdk.log[k].n)
    BY DEF SdkAnswersSaved
  <2>1. surface = "headless"
    BY DEF ClientInv, Idle
  <2>2. KeepsTheLast(link, sdk)
    BY <2>1 DEF ClientInv, ClientOk, InFirst, Saved
  <2>3. QED
    BY <2>2 DEF KeepsTheLast
<1>2. QED
  BY <1>1, ClientAlways, PTL

-----------------------------------------------------------------------------
(* What is kept of a log when the bubble is taken away.                    *)

\* Some elements of q, in their order.
Embeds(g, r, q) ==
  /\ g \in [DOMAIN r -> DOMAIN q]
  /\ \A i, j \in DOMAIN r : i < j => g[i] < g[j]
  /\ \A i \in DOMAIN r : r[i] = q[g[i]]

IsSeq(q) == \E S : q \in Seq(S)

Kept(r, q) ==
  /\ IsSeq(r)
  /\ \E g : Embeds(g, r, q) /\ \A m \in DOMAIN q : q[m].who # "pending" => \E i \in DOMAIN r : g[i] = m
  /\ \A i \in DOMAIN r : r[i].who # "pending"

\* The first n lines of a log.
SettleTo(f, log, n) ==
  IF n = 0 THEN <<>> ELSE IF log[n].who = "pending" THEN f[n - 1] ELSE Append(f[n - 1], log[n])
IsSettling(f, log, k) == f = [n \in 0 .. k |-> SettleTo(f, log, n)]

\* What Kept says, of the first n lines.
KeptOf(r, q, n) ==
  /\ IsSeq(r)
  /\ \E g : /\ g \in [DOMAIN r -> 1 .. n]
            /\ \A i, j \in DOMAIN r : i < j => g[i] < g[j]
            /\ \A i \in DOMAIN r : r[i] = q[g[i]] /\ r[i].who # "pending"
            /\ \A m \in 1 .. n : q[m].who # "pending" => \E i \in DOMAIN r : g[i] = m

LEMMA Induction ==
  ASSUME NEW T, T \subseteq Nat, 0 \in T, \A n \in T : n + 1 \in T
  PROVE  T = Nat
<1>1. PICK R : R = OpToRel(<, Nat)
  OBVIOUS
<1>2. \A x, y \in Nat : x < y => <<x, y>> \in R
  BY <1>1 DEF OpToRel
<1>3. IsWellFoundedOn(R, Nat)
  BY <1>1, NatLessThanWellFounded
<1>4. ASSUME Nat \ T # {} PROVE FALSE
  <2>1. PICK x \in Nat \ T : \A y \in Nat \ T : <<y, x>> \notin R
    BY <1>3, <1>4, WFMin
  <2>2. x # 0 /\ x - 1 \in Nat /\ x - 1 < x
    OBVIOUS
  <2>3. x - 1 \in T
    BY <1>2, <2>1, <2>2
  <2>4. QED
    BY <2>1, <2>2, <2>3
<1>5. QED
  BY <1>4

LEMMA SettlingExists ==
  ASSUME NEW log, NEW k \in Nat
  PROVE  \E f : IsSettling(f, log, k)
<1>1. PICK T : T = {n \in Nat : \E f : IsSettling(f, log, n)}
  OBVIOUS
<1>2. 0 \in T
  <2>1. PICK f : f = [n \in 0 .. 0 |-> <<>>]
    OBVIOUS
  <2>2. IsSettling(f, log, 0)
    BY <2>1 DEF IsSettling, SettleTo
  <2>3. QED
    BY <1>1, <2>2
<1>3. ASSUME NEW n \in T PROVE n + 1 \in T
  <2>1. n \in Nat /\ \E f : IsSettling(f, log, n)
    BY <1>1
  <2>2. PICK f : IsSettling(f, log, n)
    BY <2>1
  <2>3. PICK g : g = [m \in 0 .. n + 1 |-> IF m = n + 1 THEN SettleTo(f, log, m) ELSE f[m]]
    OBVIOUS
  <2>4. \A m \in 0 .. n : g[m] = f[m]
    BY <2>1, <2>3
  <2>5. \A m \in 0 .. n : f[m] = SettleTo(f, log, m)
    BY <2>2 DEF IsSettling
  <2>6. \A m \in 0 .. n + 1 : SettleTo(g, log, m) = SettleTo(f, log, m)
    <3>1. ASSUME NEW m \in 0 .. n + 1, m # 0 PROVE g[m - 1] = f[m - 1]
      BY <2>1, <2>4, <3>1
    <3>2. QED
      BY <3>1 DEF SettleTo
  <2>7. \A m \in 0 .. n + 1 : g[m] = SettleTo(g, log, m)
    <3>1. ASSUME NEW m \in 0 .. n + 1 PROVE g[m] = SettleTo(f, log, m)
      <4>1. CASE m = n + 1
        BY <2>3, <4>1
      <4>2. CASE m # n + 1
        BY <2>1, <2>3, <2>5, <4>2
      <4>3. QED
        BY <4>1, <4>2
    <3>2. QED
      BY <2>6, <3>1
  <2>8. g = [m \in 0 .. n + 1 |-> SettleTo(g, log, m)]
    BY <2>3, <2>7
  <2>9. QED
    BY <1>1, <2>1, <2>8 DEF IsSettling
<1>4. T = Nat
  BY <1>1, <1>2, <1>3, Induction
<1>5. QED
  BY <1>1, <1>4

LEMMA SettledIs ==
  ASSUME NEW log
  PROVE  Settled(log) = (CHOOSE f : IsSettling(f, log, Len(log)))[Len(log)]
BY DEF Settled, IsSettling, SettleTo

\* One line more.
LEMMA KeepsOneMore ==
  ASSUME NEW r, NEW q, NEW n \in Nat, KeptOf(r, q, n)
  PROVE  KeptOf(IF q[n + 1].who = "pending" THEN r ELSE Append(r, q[n + 1]), q, n + 1)
<1>1. PICK g : /\ g \in [DOMAIN r -> 1 .. n]
               /\ \A i, j \in DOMAIN r : i < j => g[i] < g[j]
               /\ \A i \in DOMAIN r : r[i] = q[g[i]] /\ r[i].who # "pending"
               /\ \A m \in 1 .. n : q[m].who # "pending" => \E i \in DOMAIN r : g[i] = m
  BY DEF KeptOf
<1>2. IsSeq(r)
  BY DEF KeptOf
<1>3. CASE q[n + 1].who = "pending"
  <2>1. g \in [DOMAIN r -> 1 .. n + 1]
    BY <1>1
  <2>2. \A m \in 1 .. n + 1 : q[m].who # "pending" => \E i \in DOMAIN r : g[i] = m
    <3>1. \A m \in 1 .. n + 1 : m = n + 1 \/ m \in 1 .. n
      OBVIOUS
    <3>2. QED
      BY <1>1, <1>3, <3>1
  <2>3. KeptOf(r, q, n + 1)
    BY <1>1, <1>2, <2>1, <2>2 DEF KeptOf
  <2>4. QED
    BY <1>3, <2>3
<1>4. CASE q[n + 1].who # "pending"
  <2>1. PICK l : l = q[n + 1]
    OBVIOUS
  <2>2. PICK S : r \in Seq(S)
    BY <1>2 DEF IsSeq
  <2>3. PICK p : p = Append(r, l)
    OBVIOUS
  <2>4. /\ p \in Seq(S \union {l}) /\ Len(r) \in Nat
        /\ DOMAIN r = 1 .. Len(r) /\ DOMAIN p = 1 .. Len(r) + 1
        /\ \A i \in 1 .. Len(r) : p[i] = r[i]
        /\ p[Len(r) + 1] = l
    <3>1. r \in Seq(S \union {l}) /\ l \in S \union {l}
      BY <2>2
    <3>2. QED
      BY <2>2, <2>3, <3>1, AppendProperties
  <2>5. PICK h : h = [i \in DOMAIN p |-> IF i = Len(r) + 1 THEN n + 1 ELSE g[i]]
    OBVIOUS
  <2>6. \A i \in DOMAIN p : i = Len(r) + 1 \/ (i \in DOMAIN r /\ i # Len(r) + 1)
    BY <2>4
  <2>7. \A i \in DOMAIN r : i \in DOMAIN p /\ h[i] = g[i] /\ g[i] \in 1 .. n /\ p[i] = r[i]
    BY <1>1, <2>4, <2>5
  <2>8. Len(r) + 1 \in DOMAIN p /\ h[Len(r) + 1] = n + 1
    BY <2>4, <2>5
  <2>9. h \in [DOMAIN p -> 1 .. n + 1]
    <3>1. \A i \in DOMAIN p : h[i] \in 1 .. n + 1
      BY <2>6, <2>7, <2>8
    <3>2. QED
      BY <2>5, <3>1
  <2>10. ASSUME NEW i \in DOMAIN p, NEW j \in DOMAIN p, i < j PROVE h[i] < h[j]
    <3>1. i \in DOMAIN r /\ (j = Len(r) + 1 \/ j \in DOMAIN r)
      BY <2>4, <2>10
    <3>2. QED
      BY <1>1, <2>7, <2>8, <2>10, <3>1
  <2>11. \A i \in DOMAIN p : p[i] = q[h[i]] /\ p[i].who # "pending"
    BY <1>1, <1>4, <2>1, <2>4, <2>6, <2>7, <2>8
  <2>12. ASSUME NEW m \in 1 .. n + 1, q[m].who # "pending" PROVE \E i \in DOMAIN p : h[i] = m
    <3>1. m = n + 1 \/ m \in 1 .. n
      OBVIOUS
    <3>2. QED
      BY <1>1, <2>7, <2>8, <2>12, <3>1
  <2>13. KeptOf(p, q, n + 1)
    BY <2>4, <2>9, <2>10, <2>11, <2>12 DEF KeptOf, IsSeq
  <2>14. QED
    BY <1>4, <2>1, <2>3, <2>13
<1>5. QED
  BY <1>3, <1>4

\* Taking the bubble away keeps every other line, and their order.
LEMMA SettledKeeps ==
  ASSUME NEW log, IsSeq(log)
  PROVE  Kept(Settled(log), log)
<1>1. PICK k : k = Len(log) /\ k \in Nat /\ DOMAIN log = 1 .. k
  BY DEF IsSeq
<1>2. PICK f : f = CHOOSE h : IsSettling(h, log, k)
  OBVIOUS
<1>3. IsSettling(f, log, k)
  BY <1>1, <1>2, SettlingExists
<1>4. \A n \in 0 .. k : f[n] = SettleTo(f, log, n)
  BY <1>3 DEF IsSettling
<1>5. PICK T : T = {n \in Nat : n <= k => KeptOf(f[n], log, n)}
  OBVIOUS
<1>6. 0 \in T
  <2>1. 0 \in 0 .. k
    BY <1>1
  <2>2. f[0] = <<>>
    BY <1>4, <2>1 DEF SettleTo
  <2>3. <<>> \in Seq({}) /\ DOMAIN <<>> = {}
    OBVIOUS
  <2>4. PICK g : g = [i \in {} |-> 0]
    OBVIOUS
  <2>5. g \in [{} -> 1 .. 0] /\ 1 .. 0 = {}
    BY <2>4
  <2>6. KeptOf(<<>>, log, 0)
    BY <2>3, <2>5 DEF KeptOf, IsSeq
  <2>7. QED
    BY <1>5, <2>2, <2>6
<1>7. ASSUME NEW n \in T PROVE n + 1 \in T
  <2>1. n \in Nat
    BY <1>5
  <2>2. ASSUME n + 1 <= k PROVE KeptOf(f[n + 1], log, n + 1)
    <3>1. n + 1 \in 0 .. k /\ n + 1 # 0 /\ (n + 1) - 1 = n /\ n <= k
      BY <1>1, <2>1, <2>2
    <3>2. KeptOf(f[n], log, n)
      BY <1>5, <3>1
    <3>3. f[n + 1] = IF log[n + 1].who = "pending" THEN f[n] ELSE Append(f[n], log[n + 1])
      BY <1>4, <3>1 DEF SettleTo
    <3>4. QED
      BY <2>1, <3>2, <3>3, KeepsOneMore
  <2>3. QED
    BY <1>5, <2>1, <2>2
<1>8. KeptOf(f[k], log, k)
  <2>1. T = Nat
    BY <1>5, <1>6, <1>7, Induction
  <2>2. QED
    BY <1>1, <1>5, <2>1
<1>9. Settled(log) = f[k]
  BY <1>1, <1>2, SettledIs
<1>10. QED
  BY <1>1, <1>8, <1>9 DEF KeptOf, Kept, Embeds

-----------------------------------------------------------------------------
(* Parts of a sequence: its tail, its beginning.                           *)

Part(r, q) == IsSeq(r) /\ \E g : Embeds(g, r, q)

LEMMA PartOf ==
  ASSUME NEW q, IsSeq(q)
  PROVE  /\ Part(q, q) /\ Part(<<>>, q)
         /\ q # <<>> => Part(Tail(q), q)
         /\ \A k \in 0 .. Len(q) : Part(SubSeq(q, 1, k), q)
<1>1. PICK S : q \in Seq(S)
  BY DEF IsSeq
<1>2. Len(q) \in Nat /\ DOMAIN q = 1 .. Len(q)
  BY <1>1
<1>3. Part(q, q)
  <2>1. PICK g : g = [i \in DOMAIN q |-> i]
    OBVIOUS
  <2>2. Embeds(g, q, q)
    BY <2>1 DEF Embeds
  <2>3. QED
    BY <2>2 DEF Part
<1>4. Part(<<>>, q)
  <2>1. <<>> \in Seq({}) /\ DOMAIN <<>> = {}
    OBVIOUS
  <2>2. PICK g : g = [i \in {} |-> 0]
    OBVIOUS
  <2>3. g \in [{} -> DOMAIN q]
    BY <2>2
  <2>4. Embeds(g, <<>>, q)
    BY <2>1, <2>3 DEF Embeds
  <2>5. QED
    BY <2>1, <2>4 DEF Part, IsSeq
<1>5. ASSUME q # <<>> PROVE Part(Tail(q), q)
  <2>1. PICK r : r = Tail(q)
    OBVIOUS
  <2>2. r \in Seq(S) /\ Len(r) = Len(q) - 1 /\ \A i \in 1 .. Len(r) : r[i] = q[i + 1]
    BY <1>1, <1>5, <2>1
  <2>3. DOMAIN r = 1 .. Len(q) - 1
    BY <2>2
  <2>4. PICK g : g = [i \in DOMAIN r |-> i + 1]
    OBVIOUS
  <2>5. \A i \in DOMAIN r : i \in Nat /\ g[i] = i + 1 /\ i + 1 \in DOMAIN q
    BY <1>2, <2>3, <2>4
  <2>6. Embeds(g, r, q)
    BY <2>2, <2>3, <2>4, <2>5 DEF Embeds
  <2>7. QED
    BY <2>1, <2>2, <2>6 DEF Part, IsSeq
<1>6. ASSUME NEW k \in 0 .. Len(q) PROVE Part(SubSeq(q, 1, k), q)
  <2>1. PICK r : r = SubSeq(q, 1, k)
    OBVIOUS
  <2>2. r \in Seq(S) /\ Len(r) = k /\ \A i \in 1 .. k : r[i] = q[i]
    BY <1>1, <1>2, <2>1
  <2>3. DOMAIN r = 1 .. k
    BY <2>2
  <2>4. PICK g : g = [i \in DOMAIN r |-> i]
    OBVIOUS
  <2>5. \A i \in DOMAIN r : g[i] = i /\ i \in DOMAIN q
    BY <1>2, <2>3, <2>4
  <2>6. Embeds(g, r, q)
    BY <2>2, <2>3, <2>4, <2>5 DEF Embeds
  <2>7. QED
    BY <2>1, <2>2, <2>6 DEF Part, IsSeq
<1>7. QED
  BY <1>3, <1>4, <1>5, <1>6

\* A sequence one longer.
Longer(p, q, x) ==
  /\ IsSeq(p) /\ Len(q) \in Nat /\ DOMAIN q = 1 .. Len(q)
  /\ DOMAIN p = 1 .. Len(q) + 1 /\ p[Len(q) + 1] = x
  /\ \A k \in DOMAIN q : p[k] = q[k]
  /\ p # <<>> /\ (q # <<>> => Head(p) = Head(q))
  /\ q = <<>> => p = <<x>>

LEMMA OneLonger ==
  ASSUME NEW q, IsSeq(q), NEW x
  PROVE  Longer(Append(q, x), q, x) /\ Append(q, x) = q \o <<x>>
<1>1. PICK S : q \in Seq(S)
  BY DEF IsSeq
<1>2. q \in Seq(S \union {x}) /\ x \in S \union {x}
  BY <1>1
<1>3. Append(q, x) \in Seq(S \union {x}) /\ Len(Append(q, x)) = Len(q) + 1
      /\ (\A k \in 1 .. Len(q) : Append(q, x)[k] = q[k]) /\ Append(q, x)[Len(q) + 1] = x
  BY <1>2, AppendProperties
<1>4. Append(q, x) # <<>> /\ (q # <<>> => Head(Append(q, x)) = Head(q))
  BY <1>2, AppendProperties, HeadTailAppend
<1>5. Append(q, x) = q \o <<x>>
  BY <1>2
<1>6. q = <<>> => Append(q, x) = <<x>>
  OBVIOUS
<1>7. QED
  BY <1>1, <1>3, <1>4, <1>5, <1>6 DEF IsSeq, Longer

-----------------------------------------------------------------------------
(* The interviews' lines, which stay where they are.                       *)

IsLedger(m) == IsSeq(m) /\ \A i \in DOMAIN m : IsSeq(m[i].lines)

Outgrows(m, was) ==
  /\ IsLedger(was) /\ IsLedger(m) /\ Len(was) \in Nat /\ Len(m) \in Nat /\ Len(was) <= Len(m)
  /\ DOMAIN was = 1 .. Len(was) /\ DOMAIN m = 1 .. Len(m)
  /\ \A i \in DOMAIN was : \A a \in DOMAIN was[i].lines :
       a \in DOMAIN m[i].lines /\ m[i].lines[a] = was[i].lines[a]

RecordedIn(m, n) == \E i \in DOMAIN m : Contains(m[i].lines, Line("respondent", n))

LEMMA LedgerIs == LinesInv <=> IsLedger(interviews)
BY DEF LinesInv, LedgerInv, IsLedger, IsSeq

LEMMA RecordedIs ==
  ASSUME NEW m, NEW was, Outgrows(m, was), NEW n, RecordedIn(was, n)
  PROVE  RecordedIn(m, n)
<1>1. PICK i \in DOMAIN was : \E a \in 1 .. Len(was[i].lines) : was[i].lines[a] = Line("respondent", n)
  BY DEF RecordedIn, Contains
<1>2. PICK a \in 1 .. Len(was[i].lines) : was[i].lines[a] = Line("respondent", n)
  BY <1>1
<1>3. i \in DOMAIN m
  BY DEF Outgrows
<1>4. DOMAIN was[i].lines = 1 .. Len(was[i].lines) /\ DOMAIN m[i].lines = 1 .. Len(m[i].lines)
  BY <1>3 DEF Outgrows, IsLedger, IsSeq
<1>5. a \in 1 .. Len(m[i].lines) /\ m[i].lines[a] = Line("respondent", n)
  BY <1>2, <1>4 DEF Outgrows
<1>6. QED
  BY <1>3, <1>5 DEF RecordedIn, Contains

\* A turn is two lines more.
TwoMore(new, was, n) ==
  /\ IsSeq(new) /\ Len(was) \in Nat /\ DOMAIN was = 1 .. Len(was) /\ DOMAIN new = 1 .. Len(was) + 2
  /\ \A a \in DOMAIN was : new[a] = was[a]
  /\ new[Len(was) + 1] = Line("respondent", n) /\ new[Len(was) + 2] = Line("interviewer", n)

TurnIn(m, was, i, n) ==
  /\ IsLedger(m) /\ Len(m) = Len(was) /\ DOMAIN m = DOMAIN was
  /\ \A k \in DOMAIN was : k # i => m[k].lines = was[k].lines
  /\ i \in DOMAIN was => TwoMore(m[i].lines, was[i].lines, n)

LEMMA WithTurnIs ==
  ASSUME LinesInv, NEW i, NEW n, NEW kind
  PROVE  TurnIn(WithTurn(i, n, kind), interviews, i, n) /\ Outgrows(WithTurn(i, n, kind), interviews)
<1> DEFINE was == interviews[i].lines
           new == was \o <<Line("respondent", n), Line("interviewer", n)>>
           rec == [lines |-> new,
                   order |-> interviews[i].order + (IF kind = "ask" THEN 1 ELSE 0),
                   over  |-> interviews[i].over \/ kind = "wrap_up"]
<1>1. PICK S : interviews \in Seq(S)
  BY DEF LinesInv, LedgerInv
<1>2. PICK m : m = WithTurn(i, n, kind)
  OBVIOUS
<1>3. m = [interviews EXCEPT ![i] = rec] /\ rec.lines = new
  BY <1>2 DEF WithTurn
<1> HIDE DEF rec
<1>4. m \in Seq(S \union {rec}) /\ Len(m) = Len(interviews) /\ DOMAIN m = DOMAIN interviews
      /\ Len(interviews) \in Nat /\ DOMAIN interviews = 1 .. Len(interviews)
  <2>1. interviews \in Seq(S \union {rec}) /\ rec \in S \union {rec}
    BY <1>1
  <2>2. CASE i \in 1 .. Len(interviews)
    BY <1>1, <1>3, <2>1, <2>2, ExceptSeq
  <2>3. CASE i \notin 1 .. Len(interviews)
    <3>1. DOMAIN interviews = 1 .. Len(interviews) /\ Len(interviews) \in Nat
      BY <1>1
    <3>2. m = interviews
      BY <1>1, <1>3, <2>3, <3>1
    <3>3. QED
      BY <2>1, <3>1, <3>2
  <2>4. QED
    BY <2>2, <2>3
<1>5. \A k \in DOMAIN interviews : m[k] = IF k = i THEN rec ELSE interviews[k]
  BY <1>1, <1>3
<1>6. ASSUME i \in DOMAIN interviews
      PROVE  TwoMore(new, was, n)
  <2>1. PICK T : was \in Seq(T)
    BY <1>6 DEF LinesInv
  <2> DEFINE a == Line("respondent", n)
             b == Line("interviewer", n)
  <2> HIDE DEF a, b
  <2>2. was \in Seq(T \union {a, b}) /\ <<a, b>> \in Seq(T \union {a, b})
    BY <2>1
  <2> HIDE DEF was
  <2>3. PICK q : q = was \o <<a, b>>
    OBVIOUS
  <2>4. /\ q \in Seq(T \union {a, b}) /\ Len(was) \in Nat
        /\ Len(q) = Len(was) + 2
        /\ \A k \in 1 .. Len(was) : q[k] = was[k]
        /\ q[Len(was) + 1] = a /\ q[Len(was) + 2] = b
    BY <2>2, <2>3
  <2>5. new = q
    BY <2>3 DEF a, b
  <2>6. DOMAIN was = 1 .. Len(was) /\ DOMAIN q = 1 .. Len(q)
    BY <2>2, <2>4
  <2>7. QED
    BY <2>4, <2>5, <2>6 DEF a, b, TwoMore, IsSeq
<1>7. \A k \in DOMAIN interviews : IsSeq(m[k].lines)
  BY <1>3, <1>5, <1>6 DEF TwoMore, LinesInv, IsSeq
<1>8. IsLedger(m)
  BY <1>4, <1>7 DEF IsLedger, IsSeq
<1>9. TurnIn(m, interviews, i, n)
  BY <1>3, <1>4, <1>5, <1>6, <1>8 DEF TurnIn
<1>10. ASSUME NEW k \in DOMAIN interviews, NEW c \in DOMAIN interviews[k].lines
       PROVE  c \in DOMAIN m[k].lines /\ m[k].lines[c] = interviews[k].lines[c]
  <2>1. CASE k = i
    BY <1>9, <1>10, <2>1 DEF TurnIn, TwoMore
  <2>2. CASE k # i
    BY <1>9, <1>10, <2>2 DEF TurnIn
  <2>3. QED
    BY <2>1, <2>2
<1>11. Outgrows(m, interviews)
  <2>1. IsLedger(interviews)
    BY LedgerIs
  <2>2. QED
    BY <1>4, <1>8, <1>10, <2>1 DEF Outgrows
<1>12. QED
  BY <1>2, <1>9, <1>11

LEMMA OneInterviewMore ==
  ASSUME LinesInv, NEW i, IsSeq(i.lines)
  PROVE  /\ Outgrows(Append(interviews, i), interviews)
         /\ Len(Append(interviews, i)) = Len(interviews) + 1
         /\ Append(interviews, i)[Len(interviews) + 1] = i
<1>1. IsLedger(interviews) /\ IsSeq(interviews)
  BY LedgerIs DEF IsLedger
<1>2. PICK m : m = Append(interviews, i)
  OBVIOUS
<1>3. Longer(m, interviews, i)
  BY <1>1, <1>2, OneLonger
<1>4. /\ IsSeq(m) /\ Len(interviews) \in Nat /\ DOMAIN interviews = 1 .. Len(interviews)
      /\ DOMAIN m = 1 .. Len(interviews) + 1 /\ m[Len(interviews) + 1] = i
      /\ \A k \in DOMAIN interviews : m[k] = interviews[k]
  BY <1>3 DEF Longer
<1>5. Len(m) = Len(interviews) + 1
  BY <1>1, <1>2 DEF IsSeq
<1>6. \A k \in DOMAIN m : IsSeq(m[k].lines)
  <2>1. \A k \in DOMAIN m : k = Len(interviews) + 1 \/ k \in DOMAIN interviews
    BY <1>4
  <2>2. QED
    BY <1>1, <1>4, <2>1 DEF IsLedger
<1>7. IsLedger(m)
  BY <1>4, <1>6 DEF IsLedger
<1>8. QED
  BY <1>1, <1>2, <1>4, <1>5, <1>7 DEF Outgrows

LEMMA SameInterviews ==
  ASSUME LinesInv
  PROVE  Outgrows(interviews, interviews)
BY LedgerIs DEF Outgrows, IsLedger, IsSeq

\* Every line bears a number, and says whose it is.
WellSaid(m) ==
  \A i \in DOMAIN m : \A a \in DOMAIN m[i].lines :
    m[i].lines[a] = Line(m[i].lines[a].who, m[i].lines[a].n)

LEMMA LedgerSteps ==
  ASSUME [Next]_vars, surface # "headless"
  PROVE  \/ UNCHANGED interviews
         \/ \E i : /\ i = Begun \/ i = [Begun EXCEPT !.lines = <<>>]
                   /\ interviews' = Append(interviews, i)
         \/ \E i, n, kind : interviews' = WithTurn(i, n, kind)
<1>1. CASE Shake
  BY <1>1 DEF Shake
<1>2. CASE Serve \/ ServeVoice \/ Straggler
  BY <1>2 DEF Serve, ServeVoice, Straggler
<1>3. CASE PageStep
  <2>1. Shake \/ Serve \/ ServeVoice \/ UNCHANGED interviews
    BY <1>3
       DEF PageStep, Preflight, Align, Tick, Start, Opened, Closed, StaleClose, Reconnect, OnMessage,
           SendReply, Watchdog, LingerEnds, Redirect, OnVoiceMessage, AudioEnds, MicAnswered, OrbTap,
           ToggleReadAloud, SwitchToText, Reload, serverVars
  <2>2. QED
    BY <1>1, <1>2, <2>1
<1>4. CASE HostStep \/ UNCHANGED vars
  BY <1>4 DEF HostStep, HostOpen, HostClose, ReadyTimeout, HandleMessage, vars, serverVars
<1>5. QED
  BY <1>2, <1>3, <1>4 DEF Next, Embedded, Direct, Headless, ElementStep

LEMMA LedgerMoves ==
  ASSUME LinesInv, WellSaid(interviews), [Next]_vars, surface # "headless"
  PROVE  Outgrows(interviews', interviews) /\ WellSaid(interviews')
<1>1. IsLedger(interviews)
  BY LedgerIs
<1>2. CASE UNCHANGED interviews
  BY <1>2, SameInterviews
<1>3. ASSUME NEW i, i = Begun \/ i = [Begun EXCEPT !.lines = <<>>], interviews' = Append(interviews, i)
      PROVE  Outgrows(interviews', interviews) /\ WellSaid(interviews')
  <2>1. i.lines = <<Line("interviewer", 0)>> \/ i.lines = <<>>
    BY <1>3 DEF Begun
  <2>2. IsSeq(i.lines)
    <3>1. PICK l : l = Line("interviewer", 0)
      OBVIOUS
    <3>2. <<l>> \in Seq({l}) /\ <<>> \in Seq({l})
      OBVIOUS
    <3>3. QED
      BY <2>1, <3>1, <3>2 DEF IsSeq
  <2>3. Longer(interviews', interviews, i)
    BY <1>1, <1>3, OneLonger DEF IsLedger
  <2>4. ASSUME NEW a \in DOMAIN i.lines PROVE i.lines[a] = Line(i.lines[a].who, i.lines[a].n)
    BY <2>1, <2>4 DEF Line
  <2>5. ASSUME NEW k \in DOMAIN interviews', NEW a \in DOMAIN interviews'[k].lines
        PROVE  interviews'[k].lines[a] = Line(interviews'[k].lines[a].who, interviews'[k].lines[a].n)
    <3>1. CASE k = Len(interviews) + 1
      BY <2>3, <2>4, <2>5, <3>1 DEF Longer
    <3>2. CASE k # Len(interviews) + 1
      <4>1. k \in DOMAIN interviews /\ interviews'[k] = interviews[k]
        BY <2>3, <2>5, <3>2 DEF Longer
      <4>2. QED
        BY <2>5, <4>1 DEF WellSaid
    <3>3. QED
      BY <3>1, <3>2
  <2>6. QED
    BY <1>3, <2>2, <2>5, OneInterviewMore DEF WellSaid
<1>4. ASSUME NEW i, NEW n, NEW kind, interviews' = WithTurn(i, n, kind)
      PROVE  Outgrows(interviews', interviews) /\ WellSaid(interviews')
  <2>1. TurnIn(interviews', interviews, i, n) /\ Outgrows(interviews', interviews)
    BY <1>4, WithTurnIs
  <2>2. ASSUME NEW k \in DOMAIN interviews', NEW a \in DOMAIN interviews'[k].lines
        PROVE  interviews'[k].lines[a] = Line(interviews'[k].lines[a].who, interviews'[k].lines[a].n)
    <3>1. k \in DOMAIN interviews
      BY <2>1 DEF TurnIn
    <3>2. CASE k # i
      BY <2>1, <2>2, <3>1, <3>2 DEF TurnIn, WellSaid
    <3>3. CASE k = i
      <4>1. TwoMore(interviews'[k].lines, interviews[k].lines, n)
        BY <2>1, <3>1, <3>3 DEF TurnIn
      <4>2. CASE a \in DOMAIN interviews[k].lines
        BY <3>1, <4>1, <4>2 DEF TwoMore, WellSaid
      <4>3. CASE a \notin DOMAIN interviews[k].lines
        <5>1. a = Len(interviews[k].lines) + 1 \/ a = Len(interviews[k].lines) + 2
          BY <2>2, <4>1, <4>3 DEF TwoMore
        <5>2. QED
          BY <4>1, <5>1 DEF TwoMore, Line
      <4>4. QED
        BY <4>2, <4>3
    <3>4. QED
      BY <3>2, <3>3
  <2>3. QED
    BY <2>1, <2>2 DEF WellSaid
<1>5. QED
  BY <1>2, <1>3, <1>4, LedgerSteps

-----------------------------------------------------------------------------
(* The parts of the connection after a step.                               *)

Now(kind, st, id, up, down) ==
  sock'.kind = kind /\ sock'.st = st /\ sock'.id = id /\ sock'.up = up /\ sock'.down = down

LEMMA SockParts ==
  ASSUME sock = [g \in SockFields |-> sock[g]]
  PROVE  /\ sock' = sock => Now(sock.kind, sock.st, sock.id, sock.up, sock.down)
         /\ \A k : sock' = Dial(k) => Now(k, "connecting", 0, <<>>, <<>>)
         /\ \A k : sock' = [NoSock EXCEPT !.kind = k] => Now(k, "closed", 0, <<>>, <<>>)
         /\ sock' = NoSock => Now("none", "closed", 0, <<>>, <<>>)
         /\ \A up : sock' = [sock EXCEPT !.up = up] => Now(sock.kind, sock.st, sock.id, up, sock.down)
         /\ \A down : sock' = [sock EXCEPT !.down = down] => Now(sock.kind, sock.st, sock.id, sock.up, down)
         /\ \A st, up : sock' = [sock EXCEPT !.st = st, !.up = up] => Now(sock.kind, st, sock.id, up, sock.down)
         /\ \A st, down : sock' = [sock EXCEPT !.st = st, !.down = down] => Now(sock.kind, st, sock.id, sock.up, down)
         /\ \A up, down : sock' = [sock EXCEPT !.up = up, !.down = down] => Now(sock.kind, sock.st, sock.id, up, down)
         /\ \A st, up, down : sock' = [sock EXCEPT !.st = st, !.up = up, !.down = down] =>
                                Now(sock.kind, st, sock.id, up, down)
         /\ \A up, id, down : sock' = [sock EXCEPT !.up = up, !.id = id, !.down = down] =>
                                Now(sock.kind, sock.st, id, up, down)
<1>1. /\ sock' = sock => Now(sock.kind, sock.st, sock.id, sock.up, sock.down)
      /\ sock' = NoSock => Now("none", "closed", 0, <<>>, <<>>)
  BY DEF Now, NoSock
<1>2. ASSUME NEW k
      PROVE  /\ sock' = Dial(k) => Now(k, "connecting", 0, <<>>, <<>>)
             /\ sock' = [NoSock EXCEPT !.kind = k] => Now(k, "closed", 0, <<>>, <<>>)
  BY DEF Now, NoSock, Dial
<1>3. ASSUME NEW up PROVE sock' = [sock EXCEPT !.up = up] => Now(sock.kind, sock.st, sock.id, up, sock.down)
  BY DEF Now, SockFields
<1>4. ASSUME NEW down PROVE sock' = [sock EXCEPT !.down = down] => Now(sock.kind, sock.st, sock.id, sock.up, down)
  BY DEF Now, SockFields
<1>5. ASSUME NEW st, NEW up
      PROVE  sock' = [sock EXCEPT !.st = st, !.up = up] => Now(sock.kind, st, sock.id, up, sock.down)
  BY DEF Now, SockFields
<1>6. ASSUME NEW st, NEW down
      PROVE  sock' = [sock EXCEPT !.st = st, !.down = down] => Now(sock.kind, st, sock.id, sock.up, down)
  BY DEF Now, SockFields
<1>7. ASSUME NEW up, NEW down
      PROVE  sock' = [sock EXCEPT !.up = up, !.down = down] => Now(sock.kind, sock.st, sock.id, up, down)
  BY DEF Now, SockFields
<1>8. ASSUME NEW st, NEW up, NEW down
      PROVE  sock' = [sock EXCEPT !.st = st, !.up = up, !.down = down] => Now(sock.kind, st, sock.id, up, down)
  BY DEF Now, SockFields
<1>9. ASSUME NEW up, NEW id, NEW down
      PROVE  sock' = [sock EXCEPT !.up = up, !.id = id, !.down = down] => Now(sock.kind, sock.st, id, up, down)
  BY DEF Now, SockFields
<1>10. QED
  BY <1>1, <1>2, <1>3, <1>4, <1>5, <1>6, <1>7, <1>8, <1>9

-----------------------------------------------------------------------------
(* The life of a connection.                                               *)

\* The text interview is on the screen.
TextOn(p) == p.info = "ready" /\ p.phase \notin {"consent", "done"} /\ p.mode = "text"

Ends(f) == f.type = "error" /\ ~f.recoverable

\* What a connection carries follows from how far it has come: nothing before it
\* is open, the handshake first, then replies; a rejection ends it.  A connection
\* is open only when no frame of an earlier one is left.
SockShape(s, l) ==
  /\ s.kind = "none" => s.st = "closed"
  /\ s.st \in {"connecting", "closed"} => s.id = 0
  /\ s.st # "open" => s.up = <<>>
  /\ s.st \notin {"open", "ending"} => s.down = <<>>
  /\ s.st \in {"open", "ending"} => l = <<>>
  /\ s.st = "ending" => s.kind = "text" /\ \E reason : s.down = <<ErrorFrame(reason, FALSE)>>
  /\ s.st = "open" /\ s.id = 0 =>
       s.down = <<>> /\ \A k \in DOMAIN s.up : k > 1 => s.up[k].type = "reply"
  /\ s.id # 0 => \A k \in DOMAIN s.up : s.up[k].type = "reply"
  /\ \A k \in DOMAIN s.up : s.up[k].type = "start" => s.up[k].n = 0
  /\ s.kind = "text" /\ s.st = "open" => \A k \in DOMAIN s.down : ~Ends(s.down[k])

\* A frame of the text interview: as long as no interview has begun it is a
\* rejection, and the history it brings is recorded.
HonestFrame(f, m) ==
  /\ Len(m) = 0 => f = ErrorFrame("campaign_not_live", FALSE)
  /\ f.type = "error" /\ f.recoverable => f.reason = "interviewer_unavailable"
  /\ f.type = "hello" /\ f.resumed =>
       /\ IsSeq(f.history)
       /\ \A j \in DOMAIN f.history :
            f.history[j].who = "respondent" => RecordedIn(m, f.history[j].n)

Honest(q, m) == \A k \in DOMAIN q : HonestFrame(q[k], m)

HonestInv(s, l, m) == (s.kind = "text" => Honest(s.down, m)) /\ Honest(l, m)

LEMMA SockSeqs ==
  ASSUME SockInv
  PROVE  IsSeq(sock.up) /\ IsSeq(sock.down) /\ IsSeq(late)
BY DEF SockInv, Frames, Asks, IsSeq

LEMMA KeptLateIs ==
  ASSUME SockInv, SockShape(sock, late), NEW k \in 0 .. Len(sock.down),
         late' = IF sock.kind = "text" THEN late \o SubSeq(sock.down, 1, k) ELSE late
  PROVE  /\ late' = late \/ (late = <<>> /\ sock.kind = "text" /\ late' = SubSeq(sock.down, 1, k))
         /\ Part(late', late) \/ (late = <<>> /\ sock.kind = "text" /\ Part(late', sock.down))
         /\ sock.kind # "text" => late' = late
<1>1. IsSeq(sock.down) /\ IsSeq(late)
  BY SockSeqs
<1>2. CASE sock.kind # "text"
  BY <1>1, <1>2, PartOf
<1>3. CASE sock.kind = "text" /\ sock.st \in {"open", "ending"}
  <2>1. late = <<>>
    BY <1>3 DEF SockShape
  <2>2. SubSeq(sock.down, 1, k) = <<>> \o SubSeq(sock.down, 1, k)
    <3>1. PICK S : sock.down \in Seq(S)
      BY <1>1 DEF IsSeq
    <3>2. SubSeq(sock.down, 1, k) \in Seq(S)
      BY <3>1
    <3>3. QED
      BY <3>2
  <2>3. QED
    BY <1>1, <1>3, <2>1, <2>2, PartOf
<1>4. CASE sock.st \notin {"open", "ending"} /\ sock.kind = "text"
  <2>1. sock.down = <<>> /\ k = 0
    BY <1>4 DEF SockShape
  <2>2. SubSeq(<<>>, 1, 0) = <<>>
    OBVIOUS
  <2>3. late \o <<>> = late
    BY <1>1 DEF IsSeq
  <2>4. late' = late
    BY <1>4, <2>1, <2>2, <2>3
  <2>5. QED
    BY <1>1, <1>4, <2>4, PartOf
<1>5. QED
  BY <1>2, <1>3, <1>4

LEMMA HonestFrameLasts ==
  ASSUME NEW f, NEW m, NEW was, Outgrows(m, was), HonestFrame(f, was)
  PROVE  HonestFrame(f, m)
<1>1. Len(m) = 0 => Len(was) = 0
  BY DEF Outgrows
<1>2. QED
  BY <1>1, RecordedIs DEF HonestFrame

LEMMA HonestPart ==
  ASSUME NEW r, NEW q, NEW m, NEW was, Outgrows(m, was), Part(r, q), Honest(q, was)
  PROVE  Honest(r, m)
<1>1. PICK g : Embeds(g, r, q)
  BY DEF Part
<1>2. ASSUME NEW k \in DOMAIN r PROVE HonestFrame(r[k], m)
  <2>1. g[k] \in DOMAIN q /\ r[k] = q[g[k]]
    BY <1>1 DEF Embeds
  <2>2. QED
    BY <2>1, HonestFrameLasts DEF Honest
<1>3. QED
  BY <1>2 DEF Honest

LEMMA HonestMore ==
  ASSUME NEW q, NEW f, NEW m, IsSeq(q), Honest(q, m), HonestFrame(f, m)
  PROVE  Honest(Append(q, f), m) /\ Honest(<<f>>, m)
<1>1. Longer(Append(q, f), q, f)
  BY OneLonger
<1>2. PICK p : p = Append(q, f)
  OBVIOUS
<1>3. Longer(p, q, f)
  BY <1>1, <1>2
<1>4. \A k \in DOMAIN p : k = Len(q) + 1 \/ k \in DOMAIN q
  BY <1>3 DEF Longer
<1>5. Honest(p, m)
  BY <1>3, <1>4 DEF Longer, Honest
<1>6. Honest(<<f>>, m)
  <2>1. DOMAIN <<f>> = {1} /\ <<f>>[1] = f
    OBVIOUS
  <2>2. QED
    BY <2>1 DEF Honest
<1>7. QED
  BY <1>2, <1>5, <1>6

-----------------------------------------------------------------------------
(* What a step does to the page and its connection.                        *)

Shows(info, phase, mode, log, connected, dropped, awaiting) ==
  /\ page'.info = info /\ page'.phase = phase /\ page'.mode = mode /\ page'.log = log
  /\ page'.connected = connected /\ page'.dropped = dropped /\ page'.awaiting = awaiting

\* The page as it was, but for its voice, its progress and the consent.
Stays == Shows(page.info, page.phase, page.mode, page.log, page.connected, page.dropped, page.awaiting)

Infos == {"absent", "loading", "ready", "unavailable", "left"}

Parts ==
  /\ IsPage(page) /\ page.info \in Infos /\ page.mode \in {"text", "voice"}
  /\ sock = [g \in SockFields |-> sock[g]]

LEMMA ScreenIs ==
  ASSUME Parts
  PROVE  /\ Screen = "consent" => page.info = "ready" /\ page.phase = "consent"
         /\ Screen = "thanks" => page.info = "ready" /\ page.phase = "done"
         /\ Screen = "voice" => page.info = "ready" /\ page.phase \notin {"consent", "done"} /\ page.mode = "voice"
         /\ Screen = "text" <=> TextOn(page)
<1>1. page.info \in Infos /\ page.mode \in {"text", "voice"}
  BY DEF Parts
<1>2. CASE page.info # "ready"
  BY <1>1, <1>2 DEF Screen, TextOn, Infos
<1>3. CASE page.info = "ready" /\ page.phase = "consent"
  BY <1>3 DEF Screen, TextOn
<1>4. CASE page.info = "ready" /\ page.phase = "done"
  BY <1>4 DEF Screen, TextOn
<1>5. CASE page.info = "ready" /\ page.phase \notin {"consent", "done"}
  BY <1>1, <1>5 DEF Screen, TextOn
<1>6. QED
  BY <1>2, <1>3, <1>4, <1>5

LEMMA StillIs ==
  ASSUME IsPage(page), \/ page' = page \/ Tick \/ AudioEnds \/ ToggleReadAloud \/ OrbTap
  PROVE  Stays
<1>1. ASSUME NEW v, page' = [page EXCEPT !.voice = v] PROVE Stays
  BY <1>1 DEF IsPage, PageFields, Stays, Shows
<1>2. CASE Tick
  BY <1>2 DEF Tick, IsPage, PageFields, Stays, Shows
<1>3. CASE page' = page
  BY <1>3 DEF Stays, Shows
<1>4. CASE AudioEnds \/ ToggleReadAloud \/ OrbTap
  BY <1>1, <1>4 DEF AudioEnds, ToggleReadAloud, OrbTap, Voice
<1>5. QED
  BY <1>1, <1>2, <1>3, <1>4

LEMMA PreflightIs ==
  ASSUME IsPage(page), Preflight
  PROVE  \E info \in {"ready", "unavailable"} :
           Shows(info, page.phase, page.mode, page.log, page.connected, page.dropped, page.awaiting)
BY DEF Preflight, IsPage, PageFields, Shows

LEMMA MountsIs ==
  ASSUME NEW aligned, NEW embedded, page' = Mounted(aligned, embedded) \/ page' = Absent
  PROVE  \E info \in {"loading", "absent"} : Shows(info, "consent", "text", <<>>, FALSE, FALSE, FALSE)
<1>1. CASE page' = Mounted(aligned, embedded)
  BY <1>1 DEF Mounted, Shows
<1>2. CASE page' = Absent
  <2>1. PICK p : p = Mounted(TRUE, TRUE)
    OBVIOUS
  <2>2. IsPage(p) /\ p.phase = "consent" /\ p.mode = "text" /\ p.log = <<>> /\ ~p.connected /\ ~p.dropped
        /\ ~p.awaiting /\ p.connected = FALSE /\ p.dropped = FALSE /\ p.awaiting = FALSE
    BY <2>1 DEF Mounted, IsPage, PageFields
  <2>3. page' = [p EXCEPT !.info = "absent"]
    BY <1>2, <2>1 DEF Absent
  <2>4. QED
    BY <2>2, <2>3 DEF IsPage, PageFields, Shows
<1>3. QED
  BY <1>1, <1>2

LEMMA StartIs ==
  ASSUME Parts, NEW mode \in {"text", "voice"}, Start(mode)
  PROVE  /\ page.info = "ready" /\ page.phase = "consent" /\ UNCHANGED <<late, interviews, limbo, replies>>
         /\ Shows(page.info, IF mode = "voice" THEN "voice" ELSE "chat", mode, page.log, page.connected, page.dropped, page.awaiting)
         /\ Now(mode, "connecting", 0, <<>>, <<>>)
<1>1. Now(mode, "connecting", 0, <<>>, <<>>)
  BY SockParts DEF Start, Parts
<1>2. page.info = "ready" /\ page.phase = "consent" /\ UNCHANGED <<late, interviews, limbo, replies>>
  BY ScreenIs DEF Start, serverVars
<1>3. QED
  BY <1>1, <1>2 DEF Start, Parts, IsPage, PageFields, Shows

LEMMA OpenedIs ==
  ASSUME Parts, Opened
  PROVE  /\ sock.st = "connecting" /\ late = <<>> /\ UNCHANGED <<late, interviews, limbo, replies>>
         /\ \E f : /\ f.type \in {"start", "resume"} /\ (f.type = "start" => f.n = 0)
                   /\ f.type = "resume" => f.n = token /\ token # 0
                   /\ Now(sock.kind, "open", sock.id, <<f>>, sock.down)
         /\ Shows(page.info, page.phase, page.mode, page.log, TRUE,
                  IF sock.kind = "text" THEN FALSE ELSE page.dropped, page.awaiting)
<1> DEFINE f == IF sock.kind = "text"
                THEN [type |-> IF token = 0 THEN "start" ELSE "resume", n |-> token]
                ELSE [type |-> "start", n |-> 0]
<1>1. sock' = [sock EXCEPT !.st = "open", !.up = <<f>>]
  BY DEF Opened
<1>2. /\ f.type \in {"start", "resume"} /\ (f.type = "start" => f.n = 0)
      /\ f.type = "resume" => f.n = token /\ token # 0
  OBVIOUS
<1> HIDE DEF f
<1>3. Now(sock.kind, "open", sock.id, <<f>>, sock.down)
  BY <1>1, SockParts DEF Parts
<1>4. sock.st = "connecting" /\ late = <<>> /\ UNCHANGED <<late, interviews, limbo, replies>>
  BY DEF Opened, serverVars
<1>5. Shows(page.info, page.phase, page.mode, page.log, TRUE,
            IF sock.kind = "text" THEN FALSE ELSE page.dropped, page.awaiting)
  BY DEF Opened, Parts, IsPage, PageFields, Shows
<1>6. \E g : /\ g.type \in {"start", "resume"} /\ (g.type = "start" => g.n = 0)
             /\ g.type = "resume" => g.n = token /\ token # 0
             /\ Now(sock.kind, "open", sock.id, <<g>>, sock.down)
  BY <1>2, <1>3
<1>7. QED
  BY <1>4, <1>5, <1>6

LEMMA ClosedIs ==
  ASSUME Parts, Closed
  PROVE  /\ sock.st \in {"connecting", "open", "ending", "closing"} /\ UNCHANGED <<interviews, replies>>
         /\ Now(sock.kind, "closed", 0, <<>>, <<>>)
         /\ \E k \in 0 .. Len(sock.down) :
              late' = IF sock.kind = "text" THEN late \o SubSeq(sock.down, 1, k) ELSE late
         /\ limbo' = limbo \/ (sock.id # 0 /\ limbo' = limbo \o Surviving(sock))
         /\ Shows(page.info, page.phase, page.mode, page.log, FALSE,
                  IF sock.kind = "text" THEN TRUE ELSE page.dropped, page.awaiting)
<1>1. Now(sock.kind, "closed", 0, <<>>, <<>>)
  BY SockParts DEF Closed, Parts
<1>2. /\ sock.st \in {"connecting", "open", "ending", "closing"} /\ UNCHANGED <<interviews, replies>>
      /\ \E k \in 0 .. Len(sock.down) :
              late' = IF sock.kind = "text" THEN late \o SubSeq(sock.down, 1, k) ELSE late
  BY DEF Closed
<1>3. limbo' = limbo \/ (sock.id # 0 /\ limbo' = limbo \o Surviving(sock))
  BY DEF Closed
<1>4. QED
  BY <1>1, <1>2, <1>3 DEF Closed, Parts, IsPage, PageFields, Shows

LEMMA StaleCloseIs ==
  ASSUME Parts, StaleClose
  PROVE  /\ UNCHANGED <<sock, late, interviews, limbo, replies>>
         /\ Shows(page.info, page.phase, page.mode, page.log, FALSE, page.dropped, page.awaiting)
BY DEF StaleClose, Parts, IsPage, PageFields, Shows, serverVars

\* A connection that is replaced, or given up.
Leaves(k) == late' = IF sock.kind = "text" THEN late \o SubSeq(sock.down, 1, k) ELSE late

LEMMA ReconnectIs ==
  ASSUME Parts, Reconnect
  PROVE  /\ UNCHANGED <<page, interviews, limbo, replies>> /\ page.dropped /\ TextOn(page)
         /\ Now("text", "connecting", 0, <<>>, <<>>) /\ \E k \in 0 .. Len(sock.down) : Leaves(k)
BY SockParts, ScreenIs DEF Reconnect, Parts, Retired, Leaves, serverVars

LEMMA SwitchToTextIs ==
  ASSUME Parts, SwitchToText
  PROVE  /\ UNCHANGED <<interviews, limbo, replies>> /\ page.mode = "voice" /\ page.phase # "consent" /\ page.info = "ready"
         /\ Now("text", "connecting", 0, <<>>, <<>>) /\ Leaves(0)
         /\ Shows(page.info, "chat", "text", page.log, page.connected, page.dropped, page.awaiting)
<1>1. Now("text", "connecting", 0, <<>>, <<>>)
  BY SockParts DEF SwitchToText, Parts
<1>2. page.mode = "voice" /\ page.phase # "consent" /\ page.info = "ready"
  BY ScreenIs DEF SwitchToText
<1>3. UNCHANGED <<interviews, limbo, replies>> /\ Leaves(0)
  BY DEF SwitchToText, Retired, Leaves, serverVars
<1>4. QED
  BY <1>1, <1>2, <1>3 DEF SwitchToText, Parts, IsPage, PageFields, Shows

LEMMA LingerEndsIs ==
  ASSUME Parts, LingerEnds
  PROVE  /\ UNCHANGED <<interviews, replies>>
         /\ Now("none", "closed", 0, <<>>, <<>>) /\ \E k \in 0 .. Len(sock.down) : Leaves(k)
         /\ limbo' = limbo \/ (sock.id # 0 /\ limbo' = limbo \o Surviving(sock))
         /\ Shows(page.info, "done", page.mode, page.log, page.connected, page.dropped, page.awaiting)
<1>1. Now("none", "closed", 0, <<>>, <<>>)
  BY SockParts DEF LingerEnds, Parts
<1>2. UNCHANGED <<interviews, replies>> /\ \E k \in 0 .. Len(sock.down) : Leaves(k)
  BY DEF LingerEnds, Retired, Leaves
<1>3. QED
  BY <1>1, <1>2 DEF LingerEnds, Parts, IsPage, PageFields, Shows

LEMMA WatchdogIs ==
  ASSUME Parts, Watchdog
  PROVE  /\ UNCHANGED <<sock, late, interviews, limbo, replies>>
         /\ Shows(page.info, page.phase, page.mode, Notice(page.log), page.connected, page.dropped, FALSE)
BY DEF Watchdog, Parts, IsPage, PageFields, Shows, serverVars

LEMMA RedirectIs ==
  ASSUME Parts, Redirect
  PROVE  /\ UNCHANGED <<sock, late, interviews, limbo, replies>>
         /\ page.phase = "done"
         /\ Shows("left", page.phase, page.mode, page.log, page.connected, page.dropped, page.awaiting)
<1>1. page.phase = "done"
  BY ScreenIs DEF Redirect
<1>2. QED
  BY <1>1 DEF Redirect, Parts, IsPage, PageFields, Shows, serverVars

\* A line that was sent, with the bubble after it, or one the socket refused.
SaysSent == Shows(page.info, page.phase, page.mode,
                  page.log \o <<Line("respondent", replies'), Line("pending", 0)>>,
                  page.connected, page.dropped, TRUE)
SaysUnsent == Shows(page.info, page.phase, page.mode, Append(page.log, Line("unsent", replies')),
                    page.connected, page.dropped, page.awaiting)

LEMMA SendReplyIs ==
  ASSUME Parts, SendReply
  PROVE  /\ UNCHANGED <<late, interviews, limbo>> /\ replies' = replies + 1
         /\ TextOn(page) /\ page.connected /\ ~page.awaiting
         /\ IF sock.st = "open"
            THEN Now(sock.kind, sock.st, sock.id, Append(sock.up, [type |-> "reply", n |-> replies']), sock.down)
            ELSE sock' = sock
         /\ IF sock.st = "connecting" THEN SaysUnsent ELSE SaysSent
<1>1. IF sock.st = "open"
      THEN Now(sock.kind, sock.st, sock.id, Append(sock.up, [type |-> "reply", n |-> replies']), sock.down)
      ELSE sock' = sock
  BY SockParts DEF SendReply, Parts
<1>2. TextOn(page) /\ page.connected /\ ~page.awaiting
  BY ScreenIs DEF SendReply, ComposerOn
<1>3. IsPage(page)
  BY DEF Parts
<1>4. CASE sock.st = "connecting"
  <2>1. PICK q : q = Append(page.log, Line("unsent", replies'))
    OBVIOUS
  <2>2. page' = [page EXCEPT !.log = q]
    BY <1>4, <2>1 DEF SendReply
  <2>3. Shows(page.info, page.phase, page.mode, q, page.connected, page.dropped, page.awaiting)
    BY <1>3, <2>2 DEF IsPage, PageFields, Shows
  <2>4. QED
    BY <1>1, <1>2, <1>4, <2>1, <2>3 DEF SendReply, SaysUnsent
<1>5. CASE sock.st # "connecting"
  <2>1. PICK q : q = page.log \o <<Line("respondent", replies'), Line("pending", 0)>>
    OBVIOUS
  <2>2. page' = [page EXCEPT !.awaiting = TRUE, !.log = q]
    BY <1>5, <2>1 DEF SendReply
  <2>3. Shows(page.info, page.phase, page.mode, q, page.connected, page.dropped, TRUE)
    BY <1>3, <2>2 DEF IsPage, PageFields, Shows
  <2>4. QED
    BY <1>1, <1>2, <1>5, <2>1, <2>3 DEF SendReply, SaysSent
<1>6. QED
  BY <1>4, <1>5

\* The server greets a client, sends it one frame more, or turns it away.
Greets(id, resumed) ==
  Now(sock.kind, "open", id, Tail(sock.up),
      Append(sock.down, IF sock.kind = "text" THEN Hello(id, resumed) ELSE DrainSendJson("hello", 0)))
SendsOne(f) == Now("text", "open", sock.id, Tail(sock.up), Append(sock.down, f))
TurnsAway(reason) == Now("text", "ending", sock.id, <<>>, <<ErrorFrame(reason, FALSE)>>)

LEMMA ShakeIs ==
  ASSUME Parts, SockInv, LinesInv, SockShape(sock, late), Shake
  PROVE  /\ UNCHANGED <<page, late, limbo, replies>>
         /\ sock.st = "open" /\ sock.up # <<>> /\ sock.id = 0
         /\ \/ \E i : /\ i = IF sock.kind = "text" THEN Begun ELSE [Begun EXCEPT !.lines = <<>>]
                      /\ interviews' = Append(interviews, i) /\ Greets(Len(interviews'), FALSE)
            \/ /\ UNCHANGED interviews
               /\ \E id \in 1 .. Len(interviews) :
                    Greets(id, TRUE) /\ Head(sock.up).type = "resume" /\ id = Head(sock.up).n
            \/ /\ UNCHANGED interviews /\ sock.kind = "text"
               /\ \E reason : TurnsAway(reason) /\ (Len(interviews) = 0 => reason = "campaign_not_live")
<1> DEFINE f == Head(sock.up)
<1>1. /\ f.type = "resume" => f.n \in 1 .. Len(interviews)
      /\ sock.st = "open" /\ sock.up # <<>> /\ f.type \in {"start", "resume"}
      /\ Len(interviews) \in Nat
  <2>1. Len(interviews) \in Nat
    BY DEF LinesInv, LedgerInv
  <2>2. Asks(sock.up, Len(interviews)) /\ sock.up # <<>>
    BY DEF SockInv, Shake
  <2>3. f.type = "resume" => f.n \in 1 .. Len(interviews)
    BY <2>1, <2>2, AsksMore
  <2>4. QED
    BY <2>1, <2>3 DEF Shake
<1>2. 1 \in DOMAIN sock.up /\ f = sock.up[1]
  <2>1. PICK S : sock.up \in Seq(S)
    BY SockSeqs DEF IsSeq
  <2>2. QED
    BY <1>1, <2>1
<1>3. sock.id = 0 /\ (f.type = "start" => f.n = 0)
  <2>1. f.type # "reply"
    BY <1>1
  <2>2. QED
    BY <1>2, <2>1 DEF SockShape
<1> HIDE DEF f
<1>4. UNCHANGED <<page, late, limbo, replies>>
  BY DEF Shake
<1>5. ASSUME NEW id, NEW resumed, Joined(resumed, id) PROVE Greets(id, resumed)
  <2> DEFINE g == IF sock.kind = "text" THEN Hello(id, resumed) ELSE DrainSendJson("hello", 0)
  <2>1. sock' = [sock EXCEPT !.up = Tail(sock.up), !.id = id, !.down = Append(sock.down, g)]
    BY <1>5 DEF Joined
  <2> HIDE DEF g
  <2>2. Now(sock.kind, sock.st, id, Tail(sock.up), Append(sock.down, g))
    BY <2>1, SockParts DEF Parts
  <2>3. QED
    BY <1>1, <2>2 DEF Greets, g
<1>6. ASSUME NEW reason, sock.kind = "text",
             sock' = [sock EXCEPT !.st = "ending", !.up = <<>>, !.down = <<ErrorFrame(reason, FALSE)>>]
      PROVE  TurnsAway(reason)
  <2>1. Now(sock.kind, "ending", sock.id, <<>>, <<ErrorFrame(reason, FALSE)>>)
    BY <1>6, SockParts DEF Parts
  <2>2. QED
    BY <1>6, <2>1 DEF TurnsAway
<1>7. CASE /\ f.type = "start"
           /\ interviews' = Append(interviews,
                           IF sock.kind = "text" THEN Begun ELSE [Begun EXCEPT !.lines = <<>>])
           /\ Joined(FALSE, Len(interviews'))
  <2>1. Greets(Len(interviews'), FALSE)
    BY <1>5, <1>7
  <2>2. QED
    BY <1>1, <1>3, <1>4, <1>7, <2>1
<1>8. CASE f.type = "resume" /\ Joined(TRUE, f.n) /\ UNCHANGED interviews
  <2>1. Greets(f.n, TRUE) /\ Head(sock.up).type = "resume" /\ f.n = Head(sock.up).n
    BY <1>5, <1>8 DEF f
  <2>2. QED
    BY <1>1, <1>3, <1>4, <1>8, <2>1
<1>9. CASE /\ sock.kind = "text" /\ f.type = "resume" /\ UNCHANGED interviews
           /\ sock' = [sock EXCEPT !.st = "ending", !.up = <<>>,
                         !.down = <<ErrorFrame("interview_already_completed", FALSE)>>]
  <2>1. Len(interviews) # 0
    BY <1>1, <1>9
  <2>2. PICK reason : reason = "interview_already_completed"
    OBVIOUS
  <2>3. TurnsAway(reason)
    BY <1>6, <1>9, <2>2
  <2>4. QED
    BY <1>1, <1>3, <1>4, <1>9, <2>1, <2>3
<1>10. CASE /\ sock.kind = "text" /\ UNCHANGED interviews
            /\ \E reason \in Rejections(f.n) :
                 sock' = [sock EXCEPT !.st = "ending", !.up = <<>>, !.down = <<ErrorFrame(reason, FALSE)>>]
  <2>1. PICK reason \in Rejections(f.n) :
          sock' = [sock EXCEPT !.st = "ending", !.up = <<>>, !.down = <<ErrorFrame(reason, FALSE)>>]
    BY <1>10
  <2>2. TurnsAway(reason)
    BY <1>6, <1>10, <2>1
  <2>3. Len(interviews) = 0 => reason = "campaign_not_live"
    BY <1>1, <1>3, <2>1 DEF Rejections
  <2>4. QED
    BY <1>1, <1>3, <1>4, <1>10, <2>2, <2>3
<1>11. QED
  BY <1>7, <1>8, <1>9, <1>10 DEF Shake, f

LEMMA ServeIs ==
  ASSUME Parts, SockInv, LinesInv, SockShape(sock, late), Serve
  PROVE  /\ UNCHANGED <<page, late, limbo, replies>>
         /\ sock.kind = "text" /\ sock.st = "open" /\ sock.up # <<>> /\ Head(sock.up).type = "reply"
         /\ sock.id \in 1 .. Len(interviews)
         /\ \/ \E kind, f : /\ interviews' = WithTurn(sock.id, Head(sock.up).n, kind)
                            /\ f.type = "turn" /\ f.n = Head(sock.up).n /\ SendsOne(f)
            \/ UNCHANGED interviews /\ SendsOne(ErrorFrame("interviewer_unavailable", TRUE))
<1>1. IsSeq(sock.down)
  BY SockSeqs
<1>2. /\ UNCHANGED <<page, late, limbo, replies>>
      /\ sock.kind = "text" /\ sock.st = "open" /\ sock.up # <<>> /\ Head(sock.up).type = "reply"
  BY DEF Serve
<1>3. sock.id \in 1 .. Len(interviews)
  <2>1. sock.id # 0 /\ Len(interviews) \in Nat
    BY <1>2 DEF SockInv, LinesInv, LedgerInv
  <2>2. QED
    BY <2>1 DEF SockInv
<1>4. ASSUME NEW f, Send(<<f>>) PROVE SendsOne(f)
  <2>1. sock' = [sock EXCEPT !.up = Tail(sock.up), !.down = sock.down \o <<f>>]
    BY <1>4 DEF Send
  <2>2. sock.down \o <<f>> = Append(sock.down, f)
    BY <1>1, OneLonger
  <2>3. Now(sock.kind, sock.st, sock.id, Tail(sock.up), sock.down \o <<f>>)
    BY <2>1, SockParts DEF Parts
  <2>4. QED
    BY <1>2, <2>2, <2>3 DEF SendsOne
<1>5. ASSUME NEW kind, interviews' = WithTurn(sock.id, Head(sock.up).n, kind),
             Send(<<TurnFrame(Head(sock.up).n, kind, sock.id)>>)
      PROVE  \E f : f.type = "turn" /\ f.n = Head(sock.up).n /\ SendsOne(f)
  <2>1. PICK f : f = TurnFrame(Head(sock.up).n, kind, sock.id)
    OBVIOUS
  <2>2. f.type = "turn" /\ f.n = Head(sock.up).n
    BY <2>1 DEF TurnFrame
  <2>3. QED
    BY <1>4, <1>5, <2>1, <2>2
<1>6. CASE \E kind : /\ interviews' = WithTurn(sock.id, Head(sock.up).n, kind)
                     /\ Send(<<TurnFrame(Head(sock.up).n, kind, sock.id)>>)
  BY <1>2, <1>3, <1>5, <1>6
<1>7. CASE UNCHANGED interviews /\ Send(<<ErrorFrame("interviewer_unavailable", TRUE)>>)
  BY <1>2, <1>3, <1>4, <1>7
<1>8. QED
  BY <1>6, <1>7 DEF Serve

LEMMA ServeVoiceIs ==
  ASSUME Parts, SockInv, LinesInv, ServeVoice
  PROVE  /\ UNCHANGED <<page, late, limbo, replies>>
         /\ sock.kind = "voice" /\ sock.st = "open" /\ sock.up # <<>> /\ Head(sock.up).type = "reply"
         /\ sock.id \in 1 .. Len(interviews)
         /\ \E kind : interviews' = WithTurn(sock.id, Head(sock.up).n, kind)
         /\ \E down : Now("voice", "open", sock.id, Tail(sock.up), down)
<1>1. /\ UNCHANGED <<page, late, limbo, replies>>
      /\ sock.kind = "voice" /\ sock.st = "open" /\ sock.up # <<>> /\ Head(sock.up).type = "reply"
  BY DEF ServeVoice
<1>2. sock.id \in 1 .. Len(interviews)
  <2>1. sock.id # 0 /\ Len(interviews) \in Nat
    BY <1>1 DEF SockInv, LinesInv, LedgerInv
  <2>2. QED
    BY <2>1 DEF SockInv
<1>3. PICK kind : interviews' = WithTurn(sock.id, Head(sock.up).n, kind) /\ Send(Spoken(Head(sock.up).n, kind))
  BY DEF ServeVoice
<1>4. PICK down : sock' = [sock EXCEPT !.up = Tail(sock.up), !.down = down]
  BY <1>3 DEF Send
<1>5. Now(sock.kind, sock.st, sock.id, Tail(sock.up), down)
  BY <1>4, SockParts DEF Parts
<1>6. QED
  BY <1>1, <1>2, <1>3, <1>5

\* What the page makes of a frame, and what becomes of the connection.
Understands(f) ==
  \/ /\ f.type = "hello"
     /\ \E log : /\ log = IF f.resumed THEN f.history ELSE page.log
                 /\ Shows(page.info, page.phase, page.mode,
                          IF log = <<>> THEN <<Line("interviewer", 0)>> ELSE log,
                          page.connected, page.dropped, IF f.resumed THEN FALSE ELSE page.awaiting)
  \/ /\ f.type = "turn"
     /\ Shows(page.info, page.phase, page.mode, Append(Settled(page.log), Line("interviewer", f.n)),
              page.connected, page.dropped, FALSE)
  \/ /\ f.type = "error" /\ f.recoverable
     /\ Shows(page.info, page.phase, page.mode, Notice(page.log), page.connected, page.dropped, FALSE)
  \/ /\ Ends(f) /\ f.reason = "interview_resume_invalid"
     /\ Shows(page.info, page.phase, page.mode, page.log, page.connected, TRUE, FALSE)
  \/ /\ Ends(f) /\ f.reason = "interview_already_completed"
     /\ Shows(page.info, "done", page.mode, page.log, page.connected, page.dropped, FALSE)
  \/ /\ Ends(f) /\ f.reason \notin {"interview_resume_invalid", "interview_already_completed"}
     /\ Shows("unavailable", page.phase, page.mode, page.log, FALSE, page.dropped, FALSE)

LEMMA UnderstandsIs ==
  ASSUME IsPage(page), NEW f, f.type \in {"hello", "turn", "error"},
         f.type = "error" /\ f.recoverable => f.reason = "interviewer_unavailable",
         page' = Understood(page, f)
  PROVE  Understands(f)
<1>1. CASE f.type = "hello"
  <2>1. PICK q : q = Restored(page, f)
    OBVIOUS
  <2>2. PICK log : log = IF f.resumed THEN f.history ELSE page.log
    OBVIOUS
  <2>3. /\ IsPage(q) /\ q.info = page.info /\ q.phase = page.phase /\ q.mode = page.mode /\ q.log = log
        /\ q.connected = page.connected /\ q.dropped = page.dropped
        /\ q.awaiting = IF f.resumed THEN FALSE ELSE page.awaiting
    <3>1. CASE f.resumed
      <4>1. q = [page EXCEPT !.log = f.history, !.awaiting = FALSE]
        BY <2>1, <3>1 DEF Restored
      <4>2. QED
        BY <2>2, <3>1, <4>1 DEF IsPage, PageFields
    <3>2. CASE ~f.resumed
      BY <2>1, <2>2, <3>2 DEF Restored
    <3>3. QED
      BY <3>1, <3>2
  <2>4. PICK r : r = [q EXCEPT !.at = [NoProgress EXCEPT !.order = f.order]]
    OBVIOUS
  <2>5. /\ IsPage(r) /\ r.info = page.info /\ r.phase = page.phase /\ r.mode = page.mode /\ r.log = log
        /\ r.connected = page.connected /\ r.dropped = page.dropped
        /\ r.awaiting = IF f.resumed THEN FALSE ELSE page.awaiting
    BY <2>3, <2>4 DEF IsPage, PageFields
  <2>6. page' = IF r.log = <<>> THEN [r EXCEPT !.log = <<Line("interviewer", 0)>>] ELSE r
    BY <1>1, <2>1, <2>4 DEF Understood, Greeted
  <2>7. Shows(page.info, page.phase, page.mode, IF log = <<>> THEN <<Line("interviewer", 0)>> ELSE log,
              page.connected, page.dropped, IF f.resumed THEN FALSE ELSE page.awaiting)
    BY <2>5, <2>6 DEF IsPage, PageFields, Shows
  <2>8. QED
    BY <1>1, <2>2, <2>7 DEF Understands
<1>2. CASE f.type = "turn"
  <2>1. PICK log : log = Append(Settled(page.log), Line("interviewer", f.n))
    OBVIOUS
  <2>2. page' = [page EXCEPT !.awaiting = FALSE, !.log = log, !.at = Progress(page.at, f),
                             !.linger = page.linger \/ f.kind = "wrap_up"]
    BY <1>2, <2>1 DEF Understood, TurnTaken
  <2>3. Shows(page.info, page.phase, page.mode, log, page.connected, page.dropped, FALSE)
    BY <2>2 DEF IsPage, PageFields, Shows
  <2>4. QED
    BY <1>2, <2>1, <2>3 DEF Understands
<1>3. CASE f.type = "error"
  <2>1. PICK q : q = [page EXCEPT !.awaiting = FALSE]
    OBVIOUS
  <2>2. /\ IsPage(q) /\ q.info = page.info /\ q.phase = page.phase /\ q.mode = page.mode /\ q.log = page.log
        /\ q.connected = page.connected /\ q.dropped = page.dropped /\ q.awaiting = FALSE
    BY <2>1 DEF IsPage, PageFields
  <2>3. page' = CASE f.recoverable -> [q EXCEPT !.log = Notice(q.log)]
                  [] f.reason = "interview_resume_invalid"    -> [q EXCEPT !.dropped = TRUE]
                  [] f.reason = "interview_already_completed" -> [q EXCEPT !.phase = "done"]
                  [] OTHER -> [q EXCEPT !.connected = FALSE, !.info = "unavailable"]
    BY <1>3, <2>1 DEF Understood, Failed
  <2>4. CASE f.recoverable
    <3>1. page' = [q EXCEPT !.log = Notice(q.log)]
      BY <1>3, <2>3, <2>4
    <3>2. Shows(page.info, page.phase, page.mode, Notice(page.log), page.connected, page.dropped, FALSE)
      BY <2>2, <3>1 DEF IsPage, PageFields, Shows
    <3>3. QED
      BY <1>3, <2>4, <3>2 DEF Understands
  <2>5. CASE ~f.recoverable /\ f.reason = "interview_resume_invalid"
    <3>1. page' = [q EXCEPT !.dropped = TRUE]
      BY <2>3, <2>5
    <3>2. Shows(page.info, page.phase, page.mode, page.log, page.connected, TRUE, FALSE)
      BY <2>2, <3>1 DEF IsPage, PageFields, Shows
    <3>3. QED
      BY <1>3, <2>5, <3>2 DEF Understands, Ends
  <2>6. CASE ~f.recoverable /\ f.reason = "interview_already_completed"
    <3>1. page' = [q EXCEPT !.phase = "done"]
      BY <2>3, <2>6
    <3>2. Shows(page.info, "done", page.mode, page.log, page.connected, page.dropped, FALSE)
      BY <2>2, <3>1 DEF IsPage, PageFields, Shows
    <3>3. QED
      BY <1>3, <2>6, <3>2 DEF Understands, Ends
  <2>7. CASE ~f.recoverable /\ f.reason \notin {"interview_resume_invalid", "interview_already_completed"}
    <3>1. page' = [q EXCEPT !.connected = FALSE, !.info = "unavailable"]
      BY <2>3, <2>7
    <3>2. Shows("unavailable", page.phase, page.mode, page.log, FALSE, page.dropped, FALSE)
      BY <2>2, <3>1 DEF IsPage, PageFields, Shows
    <3>3. QED
      BY <1>3, <2>7, <3>2 DEF Understands, Ends
  <2>8. QED
    BY <2>4, <2>5, <2>6, <2>7
<1>4. QED
  BY <1>1, <1>2, <1>3

\* A frame of the connection, or one that an earlier one has left.
TakesCurrent(f) ==
  /\ sock.kind = "text" /\ sock.st \in {"open", "ending"} /\ sock.down # <<>> /\ f = Head(sock.down)
  /\ UNCHANGED late
  /\ IF Ends(f)
     THEN IF f.reason = "interview_resume_invalid"
          THEN Now("text", "closing", sock.id, sock.up, <<>>)
          ELSE Now("none", "closed", 0, <<>>, <<>>)
     ELSE Now("text", sock.st, sock.id, sock.up, Tail(sock.down))
TakesEarlier(f) ==
  /\ late # <<>> /\ f = Head(late) /\ late' = Tail(late)
  /\ IF page'.phase = "done" THEN Now("none", "closed", 0, <<>>, <<>>) ELSE UNCHANGED sock

LEMMA OnMessageIs ==
  ASSUME Parts, LedgerInv, SockInv, HonestInv(sock, late, interviews), OnMessage
  PROVE  /\ UNCHANGED <<interviews, limbo, replies>>
         /\ \E f : /\ Truthful(f, Len(interviews), Over) /\ HonestFrame(f, interviews)
                   /\ Understands(f) /\ (TakesCurrent(f) \/ TakesEarlier(f))
<1>1. PICK f : /\ Current(f) \/ Earlier(f)
               /\ page' = Understood(page, f) /\ token' = TokenAfter(f, page') /\ UNCHANGED interviews
  BY DEF OnMessage, serverVars
<1>2. Truthful(f, Len(interviews), Over)
  BY <1>1, OnMessageKept
<1>3. HonestFrame(f, interviews)
  <2>1. ASSUME NEW q, IsSeq(q), q # <<>>, f = Head(q), Honest(q, interviews) PROVE HonestFrame(f, interviews)
    <3>1. 1 \in DOMAIN q /\ f = q[1]
      BY <2>1 DEF IsSeq
    <3>2. QED
      BY <2>1, <3>1 DEF Honest
  <2>2. QED
    BY <1>1, <2>1, SockSeqs DEF Current, Earlier, HonestInv
<1>4. Understands(f)
  BY <1>1, <1>2, <1>3, UnderstandsIs DEF Parts, Truthful, HonestFrame
<1>5. ASSUME Current(f) PROVE TakesCurrent(f)
  <2>1. /\ sock.kind = "text" /\ sock.st \in {"open", "ending"} /\ sock.down # <<>> /\ f = Head(sock.down)
        /\ UNCHANGED late
        /\ sock' = IF Ends(f)
             THEN IF f.reason = "interview_resume_invalid" THEN [sock EXCEPT !.st = "closing", !.down = <<>>]
                  ELSE NoSock
             ELSE [sock EXCEPT !.down = Tail(sock.down)]
    BY <1>5 DEF Current, Ends
  <2>2. CASE Ends(f) /\ f.reason = "interview_resume_invalid"
    <3>1. Now("text", "closing", sock.id, sock.up, <<>>)
      BY <2>1, <2>2, SockParts DEF Parts
    <3>2. QED
      BY <2>1, <2>2, <3>1 DEF TakesCurrent
  <2>3. CASE Ends(f) /\ f.reason # "interview_resume_invalid"
    <3>1. Now("none", "closed", 0, <<>>, <<>>)
      BY <2>1, <2>3, SockParts DEF Parts
    <3>2. QED
      BY <2>1, <2>3, <3>1 DEF TakesCurrent
  <2>4. CASE ~Ends(f)
    <3>1. Now("text", sock.st, sock.id, sock.up, Tail(sock.down))
      BY <2>1, <2>4, SockParts DEF Parts
    <3>2. QED
      BY <2>1, <2>4, <3>1 DEF TakesCurrent
  <2>5. QED
    BY <2>2, <2>3, <2>4
<1>6. ASSUME Earlier(f) PROVE TakesEarlier(f)
  <2>1. late # <<>> /\ f = Head(late) /\ late' = Tail(late)
        /\ sock' = IF page'.phase = "done" THEN NoSock ELSE sock
    BY <1>1, <1>6 DEF Earlier
  <2>2. page'.phase = "done" => Now("none", "closed", 0, <<>>, <<>>)
    BY <2>1, SockParts DEF Parts
  <2>3. QED
    BY <2>1, <2>2 DEF TakesEarlier
<1>7. TakesCurrent(f) \/ TakesEarlier(f)
  BY <1>1, <1>5, <1>6
<1>8. UNCHANGED <<interviews, limbo, replies>>
  BY DEF OnMessage, serverVars
<1>9. QED
  BY <1>2, <1>3, <1>4, <1>7, <1>8

LEMMA MicAnsweredIs ==
  ASSUME Parts, MicAnswered
  PROVE  /\ UNCHANGED <<sock, late, interviews, limbo, replies>> /\ sock.kind = "voice"
         /\ \E log : /\ log = page.log \/ log = Append(page.log, Line("system", 0))
                     /\ Shows(page.info, page.phase, page.mode, log, page.connected, page.dropped, page.awaiting)
<1>1. UNCHANGED <<sock, late, interviews, limbo, replies>> /\ sock.kind = "voice"
  BY DEF MicAnswered, serverVars
<1>2. CASE \E v : page' = [page EXCEPT !.voice = v]
  <2>1. Shows(page.info, page.phase, page.mode, page.log, page.connected, page.dropped, page.awaiting)
    BY <1>2 DEF Parts, IsPage, PageFields, Shows
  <2>2. QED
    BY <1>1, <2>1
<1>3. CASE page' = [page EXCEPT !.voice.denied = TRUE, !.log = Append(@, Line("system", 0))]
  <2>1. PICK log : log = Append(page.log, Line("system", 0))
    OBVIOUS
  <2>2. page' = [page EXCEPT !.voice = [page.voice EXCEPT !.denied = TRUE], !.log = log]
    BY <1>3, <2>1 DEF Parts, IsPage, PageFields
  <2>3. Shows(page.info, page.phase, page.mode, log, page.connected, page.dropped, page.awaiting)
    BY <2>2 DEF Parts, IsPage, PageFields, Shows
  <2>4. QED
    BY <1>1, <2>1, <2>3
<1>4. QED
  BY <1>2, <1>3 DEF MicAnswered, Voice

LEMMA OnVoiceMessageIs ==
  ASSUME Parts, SockInv, OnVoiceMessage
  PROVE  /\ UNCHANGED <<late, interviews, limbo, replies>> /\ sock.kind = "voice" /\ sock.st = "open"
         /\ Stays /\ Now("voice", "open", sock.id, sock.up, Tail(sock.down))
<1>1. /\ UNCHANGED <<late, interviews, limbo, replies>> /\ sock.kind = "voice" /\ sock.st = "open" /\ sock.down # <<>>
      /\ sock' = [sock EXCEPT !.down = Tail(sock.down)]
  BY DEF OnVoiceMessage, serverVars
<1>2. Sound("voice", Head(sock.down), Len(interviews), Over)
  BY <1>1, FramesHead DEF SockInv
<1>3. \E v : page' = [page EXCEPT !.voice = v]
  BY <1>2 DEF OnVoiceMessage, Sound
<1>4. Stays
  BY <1>3 DEF Parts, IsPage, PageFields, Stays, Shows
<1>5. Now(sock.kind, sock.st, sock.id, sock.up, Tail(sock.down))
  BY <1>1, SockParts DEF Parts
<1>6. QED
  BY <1>1, <1>4, <1>5

LEMMA OrbTapIs ==
  ASSUME Parts, OrbTap
  PROVE  /\ UNCHANGED <<late, interviews, limbo>> /\ page.mode = "voice" /\ Stays
         /\ \/ UNCHANGED <<sock, replies>>
            \/ UNCHANGED sock /\ replies' = replies + 1
            \/ /\ sock.st = "open" /\ replies' = replies + 1
               /\ Now(sock.kind, sock.st, sock.id, Append(sock.up, [type |-> "reply", n |-> replies']), sock.down)
<1>1. UNCHANGED <<late, interviews, limbo>> /\ page.mode = "voice" /\ Stays
  BY StillIs, ScreenIs DEF OrbTap, OrbOn, Parts
<1>2. CASE UNCHANGED <<sock, replies>>
  BY <1>1, <1>2
<1>3. CASE /\ replies' = replies + 1
           /\ sock' = IF sock.st = "open"
                      THEN [sock EXCEPT !.up = Append(@, [type |-> "reply", n |-> replies'])] ELSE sock
  <2>1. CASE sock.st = "open"
    <3>1. PICK up : up = Append(sock.up, [type |-> "reply", n |-> replies'])
      OBVIOUS
    <3>2. sock' = [sock EXCEPT !.up = up]
      BY <1>3, <2>1, <3>1
    <3>3. Now(sock.kind, sock.st, sock.id, up, sock.down)
      BY <3>2, SockParts DEF Parts
    <3>4. QED
      BY <1>1, <1>3, <2>1, <3>1, <3>3
  <2>2. CASE sock.st # "open"
    BY <1>1, <1>3, <2>2
  <2>3. QED
    BY <2>1, <2>2
<1>4. QED
  BY <1>2, <1>3 DEF OrbTap

-----------------------------------------------------------------------------
(* What is on the page.                                                    *)

\* Nobody says anything in it.
Mute(log) == \A k \in DOMAIN log : log[k].who \notin {"respondent", "interviewer"}

\* Before the interview there is nothing to see and no connection; a voice
\* interview has a connection of its own and leaves no frames; frames that have
\* been left are shown under the banner.
PageShape(p, s, l) ==
  /\ p.info \in Infos /\ p.mode \in {"text", "voice"} /\ IsSeq(p.log)
  /\ p.info \in {"absent", "loading"} => p.phase \in {"consent", "done"}
  /\ p.info \in {"absent", "loading"} \/ p.phase = "consent" =>
       p.log = <<>> /\ l = <<>> /\ s.kind = "none" /\ ~p.awaiting
  /\ p.mode = "voice" => l = <<>> /\ s.kind \in {"voice", "none"} /\ Mute(p.log)
  /\ p.mode = "text" => s.kind \in {"text", "none"}
  /\ TextOn(p) /\ l # <<>> => p.dropped

Scene(p, s, l, m) == PageShape(p, s, l) /\ SockShape(s, l) /\ HonestInv(s, l, m)

\* A log that goes on: the bubble goes, and l is said.
GoesOn(q, log, l) == IsSeq(q) /\ \E r : Kept(r, log) /\ Longer(q, r, l)

LEMMA LogGoesOn ==
  ASSUME NEW log, IsSeq(log), NEW l
  PROVE  GoesOn(Append(Settled(log), l), log, l)
<1>1. PICK r : r = Settled(log)
  OBVIOUS
<1>2. Kept(r, log) /\ IsSeq(r)
  BY <1>1, SettledKeeps DEF Kept
<1>3. PICK q : q = Append(r, l)
  OBVIOUS
<1>4. Longer(q, r, l)
  BY <1>2, <1>3, OneLonger
<1>5. IsSeq(q)
  BY <1>4 DEF Longer
<1>6. GoesOn(q, log, l)
  BY <1>2, <1>4, <1>5 DEF GoesOn
<1>7. QED
  BY <1>1, <1>3, <1>6

LEMMA StillMute ==
  ASSUME NEW q, NEW log, NEW l, GoesOn(q, log, l), Mute(log), l.who \notin {"respondent", "interviewer"}
  PROVE  Mute(q)
<1>1. PICK r : Kept(r, log) /\ Longer(q, r, l)
  BY DEF GoesOn
<1>2. PICK g : Embeds(g, r, log)
  BY <1>1 DEF Kept
<1>3. ASSUME NEW k \in DOMAIN q PROVE q[k].who \notin {"respondent", "interviewer"}
  <2>1. CASE k = Len(r) + 1
    BY <1>1, <2>1 DEF Longer
  <2>2. CASE k # Len(r) + 1
    <3>1. k \in DOMAIN r /\ q[k] = r[k]
      BY <1>1, <1>3, <2>2 DEF Longer
    <3>2. g[k] \in DOMAIN log /\ r[k] = log[g[k]]
      BY <1>2, <3>1 DEF Embeds
    <3>3. QED
      BY <3>1, <3>2 DEF Mute
  <2>3. QED
    BY <2>1, <2>2
<1>4. QED
  BY <1>3 DEF Mute

\* A connection that is new, or none, fits any page that may have it.
LEMMA FreshConnection ==
  ASSUME NEW kind, NEW st \in {"connecting", "closed"}, kind = "none" => st = "closed",
         Now(kind, st, 0, <<>>, <<>>)
  PROVE  SockShape(sock', late') /\ \A m : Honest(late', m) => HonestInv(sock', late', m)
<1>1. DOMAIN <<>> = {}
  OBVIOUS
<1>2. sock'.kind = kind /\ sock'.st = st /\ sock'.id = 0 /\ sock'.up = <<>> /\ sock'.down = <<>>
  BY DEF Now
<1>3. SockShape(sock', late')
  BY <1>1, <1>2 DEF SockShape
<1>4. QED
  BY <1>1, <1>2, <1>3 DEF HonestInv, Honest

\* A reply more on an open connection.
LEMMA OneReplyMore ==
  ASSUME SockInv, SockShape(sock, late), UNCHANGED late, sock.st = "open", NEW n,
         Now(sock.kind, sock.st, sock.id, Append(sock.up, [type |-> "reply", n |-> n]), sock.down)
  PROVE  SockShape(sock', late')
<1>1. PICK f : f = [type |-> "reply", n |-> n]
  OBVIOUS
<1>2. PICK up : up = Append(sock.up, f)
  OBVIOUS
<1>3. Longer(up, sock.up, f) /\ f.type = "reply"
  BY <1>1, <1>2, OneLonger, SockSeqs
<1>4. sock'.kind = sock.kind /\ sock'.st = "open" /\ sock'.id = sock.id /\ sock'.up = up /\ sock'.down = sock.down
  BY <1>1, <1>2 DEF Now
<1>5. \A k \in DOMAIN up : (k \in DOMAIN sock.up /\ up[k] = sock.up[k]) \/ up[k] = f
  BY <1>3 DEF Longer
<1>6. QED
  BY <1>3, <1>4, <1>5 DEF SockShape

\* The frames left of a connection that goes.
LEMMA StillHonest ==
  ASSUME SockInv, SockShape(sock, late), Outgrows(interviews', interviews),
         HonestInv(sock, late, interviews), NEW k \in 0 .. Len(sock.down), Leaves(k)
  PROVE  /\ Honest(late', interviews')
         /\ late' # <<>> => late # <<>> \/ sock.kind = "text"
         /\ sock.kind # "text" => late' = late
<1>1. /\ Part(late', late) \/ (late = <<>> /\ sock.kind = "text" /\ Part(late', sock.down))
      /\ sock.kind # "text" => late' = late
  BY KeptLateIs DEF Leaves
<1>2. Honest(late', interviews')
  BY <1>1, HonestPart DEF HonestInv
<1>3. QED
  BY <1>1, <1>2

\* Nothing happens to the connection.
LEMMA SameConnection ==
  ASSUME SockInv, SockShape(sock, late), Outgrows(interviews', interviews),
         HonestInv(sock, late, interviews), UNCHANGED <<sock, late>>
  PROVE  SockShape(sock', late') /\ HonestInv(sock', late', interviews')
<1>1. Part(sock.down, sock.down) /\ Part(late, late)
  BY PartOf, SockSeqs
<1>2. Honest(late, interviews') /\ (sock.kind = "text" => Honest(sock.down, interviews'))
  BY <1>1, HonestPart DEF HonestInv
<1>3. QED
  BY <1>2 DEF HonestInv

\* The server's frames, in order.
LEMMA ShakeScene ==
  ASSUME Parts, SockInv, LinesInv, WellSaid(interviews), Outgrows(interviews', interviews),
         SockShape(sock, late), HonestInv(sock, late, interviews), Shake
  PROVE  SockShape(sock', late') /\ HonestInv(sock', late', interviews') /\ sock'.kind = sock.kind
<1>1. /\ UNCHANGED late /\ sock.st = "open" /\ sock.up # <<>> /\ sock.id = 0
      /\ \/ \E i : interviews' = Append(interviews, i) /\ Greets(Len(interviews'), FALSE)
         \/ /\ UNCHANGED interviews
            /\ \E id \in 1 .. Len(interviews) : Greets(id, TRUE)
         \/ /\ UNCHANGED interviews /\ sock.kind = "text"
            /\ \E reason : TurnsAway(reason) /\ (Len(interviews) = 0 => reason = "campaign_not_live")
  BY ShakeIs
<1>2. late = <<>> /\ sock.down = <<>> /\ (\A k \in DOMAIN sock.up : k > 1 => sock.up[k].type = "reply")
      /\ Honest(late, interviews')
  <2>1. DOMAIN <<>> = {}
    OBVIOUS
  <2>2. QED
    BY <1>1, <2>1 DEF SockShape, Honest
<1>3. PICK up : up = Tail(sock.up)
  OBVIOUS
<1>4. \A k \in DOMAIN up : up[k].type = "reply"
  <2>1. PICK S : sock.up \in Seq(S)
    BY SockSeqs DEF IsSeq
  <2>2. \A k \in DOMAIN up : up[k] = sock.up[k + 1] /\ k + 1 \in DOMAIN sock.up /\ k + 1 > 1
    BY <1>1, <1>3, <2>1
  <2>3. QED
    BY <1>2, <2>2
<1>5. ASSUME NEW id, NEW resumed, id # 0, Greets(id, resumed),
             sock.kind = "text" => HonestFrame(Hello(id, resumed), interviews')
      PROVE  SockShape(sock', late') /\ HonestInv(sock', late', interviews') /\ sock'.kind = sock.kind
  <2>1. PICK f : f = IF sock.kind = "text" THEN Hello(id, resumed) ELSE DrainSendJson("hello", 0)
    OBVIOUS
  <2>2. PICK q : q = <<f>>
    OBVIOUS
  <2>3. Append(<<>>, f) = <<f>> /\ DOMAIN <<f>> = {1} /\ <<f>>[1] = f
    OBVIOUS
  <2>4. /\ sock'.kind = sock.kind /\ sock'.st = "open" /\ sock'.id = id /\ sock'.up = up /\ sock'.down = q
    BY <1>2, <1>3, <1>5, <2>1, <2>2, <2>3 DEF Greets, Now
  <2>5. sock.kind = "text" => f.type = "hello"
    BY <2>1 DEF Hello
  <2>6. sock.kind = "text" => \A k \in DOMAIN q : ~Ends(q[k]) /\ HonestFrame(q[k], interviews')
    BY <1>5, <2>1, <2>2, <2>3, <2>5 DEF Ends
  <2>7. late' = <<>>
    BY <1>1, <1>2
  <2>8. sock.kind # "none"
    BY <1>1 DEF SockShape
  <2>9. SockShape(sock', late')
    BY <1>4, <1>5, <2>4, <2>6, <2>7, <2>8 DEF SockShape
  <2>10. HonestInv(sock', late', interviews')
    BY <1>2, <2>4, <2>6, <2>7 DEF HonestInv, Honest
  <2>11. QED
    BY <2>4, <2>9, <2>10
<1>6. ASSUME NEW i, interviews' = Append(interviews, i), Greets(Len(interviews'), FALSE)
      PROVE  SockShape(sock', late') /\ HonestInv(sock', late', interviews') /\ sock'.kind = sock.kind
  <2>1. Len(interviews') # 0
    <3>1. Longer(interviews', interviews, i)
      BY <1>6, OneLonger, LedgerIs DEF IsLedger
    <3>2. DOMAIN interviews' = 1 .. Len(interviews')
      BY DEF Outgrows
    <3>3. QED
      BY <3>1, <3>2 DEF Longer
  <2>2. HonestFrame(Hello(Len(interviews'), FALSE), interviews')
    BY <2>1 DEF HonestFrame, Hello
  <2>3. QED
    BY <1>5, <1>6, <2>1, <2>2
<1>7. ASSUME UNCHANGED interviews, NEW id \in 1 .. Len(interviews), Greets(id, TRUE)
      PROVE  SockShape(sock', late') /\ HonestInv(sock', late', interviews') /\ sock'.kind = sock.kind
  <2>1. id \in DOMAIN interviews /\ id # 0 /\ Len(interviews) # 0
    BY <1>7 DEF Outgrows
  <2>2. PICK lines : lines = interviews[id].lines
    OBVIOUS
  <2>3. IsSeq(lines) /\ \A a \in DOMAIN lines : lines[a] = Line(lines[a].who, lines[a].n)
    BY <2>1, <2>2, LedgerIs DEF IsLedger, WellSaid
  <2>4. ASSUME NEW j \in DOMAIN lines, lines[j].who = "respondent" PROVE RecordedIn(interviews, lines[j].n)
    <3>1. j \in 1 .. Len(lines) /\ lines[j] = Line("respondent", lines[j].n)
      BY <2>3, <2>4 DEF IsSeq
    <3>2. Contains(lines, Line("respondent", lines[j].n))
      BY <3>1 DEF Contains
    <3>3. QED
      BY <2>1, <2>2, <3>2 DEF RecordedIn
  <2>5. Hello(id, TRUE).type = "hello" /\ Hello(id, TRUE).resumed /\ Hello(id, TRUE).history = lines
    BY <2>2 DEF Hello
  <2>6. HonestFrame(Hello(id, TRUE), interviews')
    BY <1>7, <2>1, <2>3, <2>4, <2>5 DEF HonestFrame
  <2>7. QED
    BY <1>5, <1>7, <2>1, <2>6
<1>8. ASSUME UNCHANGED interviews, sock.kind = "text", NEW reason, TurnsAway(reason),
             Len(interviews) = 0 => reason = "campaign_not_live"
      PROVE  SockShape(sock', late') /\ HonestInv(sock', late', interviews') /\ sock'.kind = sock.kind
  <2>1. PICK f : f = ErrorFrame(reason, FALSE)
    OBVIOUS
  <2>2. DOMAIN <<f>> = {1} /\ <<f>>[1] = f /\ DOMAIN <<>> = {}
    OBVIOUS
  <2>3. /\ sock'.kind = "text" /\ sock'.st = "ending" /\ sock'.id = 0 /\ sock'.up = <<>> /\ sock'.down = <<f>>
    BY <1>1, <1>8, <2>1 DEF TurnsAway, Now
  <2>4. HonestFrame(f, interviews')
    BY <1>8, <2>1 DEF HonestFrame, ErrorFrame
  <2>5. late' = <<>>
    BY <1>1, <1>2
  <2>6. SockShape(sock', late')
    BY <2>1, <2>2, <2>3, <2>5 DEF SockShape
  <2>7. HonestInv(sock', late', interviews')
    BY <1>2, <2>2, <2>3, <2>4, <2>5 DEF HonestInv, Honest
  <2>8. QED
    BY <1>8, <2>3, <2>6, <2>7
<1>9. QED
  BY <1>1, <1>6, <1>7, <1>8

LEMMA ServeScene ==
  ASSUME Parts, SockInv, LinesInv, Outgrows(interviews', interviews),
         SockShape(sock, late), HonestInv(sock, late, interviews), Serve \/ ServeVoice
  PROVE  SockShape(sock', late') /\ HonestInv(sock', late', interviews') /\ sock'.kind = sock.kind
<1>1. /\ UNCHANGED late /\ sock.st = "open" /\ sock.up # <<>> /\ sock.id \in 1 .. Len(interviews)
  BY ServeIs, ServeVoiceIs
<1>2. late = <<>> /\ Honest(late', interviews') /\ sock.id # 0 /\ Len(interviews') # 0
  <2>1. DOMAIN <<>> = {}
    OBVIOUS
  <2>2. QED
    BY <1>1, <2>1 DEF SockShape, Honest, Outgrows
<1>3. PICK up : up = Tail(sock.up)
  OBVIOUS
<1>4. \A k \in DOMAIN up : up[k].type = "reply"
  <2>1. PICK S : sock.up \in Seq(S)
    BY SockSeqs DEF IsSeq
  <2>2. \A k \in DOMAIN up : up[k] = sock.up[k + 1] /\ k + 1 \in DOMAIN sock.up
    BY <1>1, <1>3, <2>1
  <2>3. QED
    BY <1>2, <2>2 DEF SockShape
<1>5. ASSUME NEW f, sock.kind = "text", SendsOne(f), ~Ends(f),
             f.type = "turn" \/ f = ErrorFrame("interviewer_unavailable", TRUE)
      PROVE  SockShape(sock', late') /\ HonestInv(sock', late', interviews') /\ sock'.kind = sock.kind
  <2>1. HonestFrame(f, interviews')
    BY <1>2, <1>5 DEF HonestFrame, ErrorFrame
  <2>2. PICK down : down = Append(sock.down, f)
    OBVIOUS
  <2>3. Honest(sock.down, interviews')
    BY <1>5, PartOf, SockSeqs, HonestPart DEF HonestInv
  <2>4. Honest(down, interviews')
    BY <2>1, <2>2, <2>3, HonestMore, SockSeqs
  <2>5. Longer(down, sock.down, f)
    BY <2>2, OneLonger, SockSeqs
  <2>6. \A k \in DOMAIN down : (k \in DOMAIN sock.down /\ down[k] = sock.down[k]) \/ down[k] = f
    BY <2>5 DEF Longer
  <2>7. \A k \in DOMAIN down : ~Ends(down[k])
    BY <1>1, <1>5, <2>6 DEF SockShape
  <2>8. sock'.kind = "text" /\ sock'.st = "open" /\ sock'.id = sock.id /\ sock'.up = up /\ sock'.down = down
    BY <1>3, <1>5, <2>2 DEF SendsOne, Now
  <2>9. late' = <<>>
    BY <1>1, <1>2
  <2>10. SockShape(sock', late')
    BY <1>2, <1>4, <2>7, <2>8, <2>9 DEF SockShape
  <2>11. HonestInv(sock', late', interviews')
    BY <1>2, <2>4, <2>8 DEF HonestInv
  <2>12. QED
    BY <1>5, <2>8, <2>10, <2>11
<1>6. CASE Serve
  <2>1. sock.kind = "text"
    BY <1>6, ServeIs
  <2>2. ASSUME NEW f, f.type = "turn", SendsOne(f)
        PROVE  SockShape(sock', late') /\ HonestInv(sock', late', interviews') /\ sock'.kind = sock.kind
    BY <1>5, <2>1, <2>2 DEF Ends
  <2>3. PICK f : f = ErrorFrame("interviewer_unavailable", TRUE)
    OBVIOUS
  <2>4. ~Ends(f)
    BY <2>3 DEF Ends, ErrorFrame
  <2>5. (\E g : g.type = "turn" /\ SendsOne(g)) \/ SendsOne(f)
    BY <1>6, <2>3, ServeIs
  <2>6. QED
    BY <1>5, <2>1, <2>2, <2>3, <2>4, <2>5
<1>7. CASE ServeVoice
  <2>1. PICK down : Now("voice", "open", sock.id, up, down)
    BY <1>3, <1>7, ServeVoiceIs
  <2>2. sock.kind = "voice"
    BY <1>7, ServeVoiceIs
  <2>3. sock'.kind = "voice" /\ sock'.st = "open" /\ sock'.id = sock.id /\ sock'.up = up
    BY <2>1 DEF Now
  <2>4. late' = <<>>
    BY <1>1, <1>2
  <2>5. SockShape(sock', late')
    BY <1>2, <1>4, <2>3, <2>4 DEF SockShape
  <2>6. HonestInv(sock', late', interviews')
    BY <1>2, <2>3 DEF HonestInv
  <2>7. QED
    BY <2>2, <2>3, <2>5, <2>6
<1>8. QED
  BY <1>6, <1>7

\* A frame the page takes.
LEMMA MessageScene ==
  ASSUME Parts, LedgerInv, SockInv, UNCHANGED interviews, Outgrows(interviews, interviews),
         Scene(page, sock, late, interviews), OnMessage
  PROVE  /\ Scene(page', sock', late', interviews')
         /\ page.mode = "text" /\ (TextOn(page') => TextOn(page))
<1>1. PICK f : HonestFrame(f, interviews) /\ Understands(f) /\ (TakesCurrent(f) \/ TakesEarlier(f))
  BY OnMessageIs DEF Scene
<1>2. PageShape(page, sock, late) /\ SockShape(sock, late) /\ HonestInv(sock, late, interviews)
  BY DEF Scene
<1>3. late # <<>> \/ sock.kind = "text"
  BY <1>1 DEF TakesCurrent, TakesEarlier
<1>4. page.phase # "consent" /\ page.mode = "text" /\ page.info \in {"ready", "unavailable", "left"}
  BY <1>2, <1>3 DEF PageShape, Infos
<1>5. /\ page'.info \in {page.info, "unavailable"} /\ page'.phase \in {page.phase, "done"} /\ page'.mode = page.mode
      /\ page'.dropped \in {page.dropped, TRUE}
  BY <1>1 DEF Understands, Shows
<1>6. IsSeq(page'.log)
  <2>1. IsSeq(page.log)
    BY <1>2 DEF PageShape
  <2>2. \A l : IsSeq(Append(Settled(page.log), l))
    BY <2>1, LogGoesOn DEF GoesOn
  <2>3. IsSeq(Notice(page.log))
    BY <2>2 DEF Notice
  <2>4. IsSeq(<<Line("interviewer", 0)>>)
    <3>1. PICK l : l = Line("interviewer", 0)
      OBVIOUS
    <3>2. <<l>> \in Seq({l})
      OBVIOUS
    <3>3. QED
      BY <3>1, <3>2 DEF IsSeq
  <2>5. f.type = "hello" /\ f.resumed => IsSeq(f.history)
    BY <1>1 DEF HonestFrame
  <2>6. QED
    BY <1>1, <2>1, <2>2, <2>3, <2>4, <2>5 DEF Understands, Shows
<1>7. IsSeq(late) /\ IsSeq(sock.down)
  BY SockSeqs
<1>8. CASE TakesCurrent(f)
  <2>1. /\ sock.kind = "text" /\ sock.st \in {"open", "ending"} /\ sock.down # <<>> /\ f = Head(sock.down)
        /\ UNCHANGED late
    BY <1>8 DEF TakesCurrent
  <2>2. late = <<>> /\ late' = <<>> /\ 1 \in DOMAIN sock.down /\ f = sock.down[1]
    <3>1. 1 \in DOMAIN sock.down /\ f = sock.down[1]
      BY <1>7, <2>1 DEF IsSeq
    <3>2. QED
      BY <1>2, <2>1, <3>1 DEF SockShape
  <2>3. Honest(late', interviews')
    <3>1. DOMAIN <<>> = {}
      OBVIOUS
    <3>2. QED
      BY <2>2, <3>1 DEF Honest
  <2>4. CASE Ends(f)
    <3>1. sock.st = "ending" /\ sock.up = <<>>
      BY <1>2, <2>1, <2>2, <2>4 DEF SockShape
    <3>2. Now("text", "closing", sock.id, <<>>, <<>>) \/ Now("none", "closed", 0, <<>>, <<>>)
      BY <1>8, <2>4, <3>1 DEF TakesCurrent
    <3>3. DOMAIN <<>> = {}
      OBVIOUS
    <3>4. SockShape(sock', late') /\ sock'.kind \in {"text", "none"} /\ sock'.down = <<>>
      BY <3>2, <3>3 DEF SockShape, Now
    <3>5. HonestInv(sock', late', interviews')
      BY <2>3, <3>3, <3>4 DEF HonestInv, Honest
    <3>6. PageShape(page', sock', late')
      BY <1>4, <1>5, <1>6, <2>2, <3>4 DEF PageShape, Infos, TextOn
    <3>7. QED
      BY <1>4, <1>5, <3>4, <3>5, <3>6 DEF Scene, TextOn
  <2>5. CASE ~Ends(f)
    <3>1. PICK down : down = Tail(sock.down)
      OBVIOUS
    <3>2. Now("text", sock.st, sock.id, sock.up, down)
      BY <1>8, <2>5, <3>1 DEF TakesCurrent
    <3>3. Part(down, sock.down)
      BY <1>7, <2>1, <3>1, PartOf
    <3>4. Honest(down, interviews')
      BY <1>2, <2>1, <3>3, HonestPart DEF HonestInv
    <3>5. sock.st = "open"
      <4>1. ASSUME NEW reason, sock.down = <<ErrorFrame(reason, FALSE)>> PROVE FALSE
        <5>1. f = ErrorFrame(reason, FALSE)
          BY <2>1, <4>1
        <5>2. QED
          BY <2>5, <5>1 DEF Ends, ErrorFrame
      <4>2. QED
        BY <1>2, <2>1, <4>1 DEF SockShape
    <3>6. sock.id # 0
      BY <1>2, <2>1, <3>5 DEF SockShape
    <3>7. \A k \in DOMAIN down : ~Ends(down[k])
      BY <1>2, <2>1, <3>3, <3>5 DEF SockShape, Part, Embeds
    <3>8. sock'.kind = "text" /\ sock'.st = "open" /\ sock'.id = sock.id /\ sock'.up = sock.up /\ sock'.down = down
      BY <3>2, <3>5 DEF Now
    <3>9. SockShape(sock', late')
      BY <1>2, <2>2, <3>5, <3>6, <3>7, <3>8 DEF SockShape
    <3>10. HonestInv(sock', late', interviews')
      BY <2>3, <3>4, <3>8 DEF HonestInv
    <3>11. PageShape(page', sock', late')
      BY <1>4, <1>5, <1>6, <2>2, <3>8 DEF PageShape, Infos, TextOn
    <3>12. QED
      BY <1>4, <1>5, <3>9, <3>10, <3>11 DEF Scene, TextOn
  <2>6. QED
    BY <2>4, <2>5
<1>9. CASE TakesEarlier(f)
  <2>1. /\ late # <<>> /\ late' = Tail(late)
        /\ Now("none", "closed", 0, <<>>, <<>>) \/ UNCHANGED sock
    BY <1>9 DEF TakesEarlier
  <2>2. PICK l : l = Tail(late)
    OBVIOUS
  <2>3. Part(l, late)
    BY <1>7, <2>1, <2>2, PartOf
  <2>4. Honest(l, interviews')
    BY <1>2, <2>3, HonestPart DEF HonestInv
  <2>5. sock.st \notin {"open", "ending"}
    BY <1>2, <2>1 DEF SockShape
  <2>6. DOMAIN <<>> = {}
    OBVIOUS
  <2>7. SockShape(sock', late') /\ sock'.kind \in {"text", "none"} /\ sock'.down = <<>>
    <3>1. CASE UNCHANGED sock
      BY <1>2, <1>4, <2>5, <3>1 DEF SockShape, PageShape
    <3>2. CASE Now("none", "closed", 0, <<>>, <<>>)
      BY <2>6, <3>2 DEF SockShape, Now
    <3>3. QED
      BY <2>1, <3>1, <3>2
  <2>8. HonestInv(sock', late', interviews')
    BY <2>1, <2>2, <2>4, <2>6, <2>7 DEF HonestInv, Honest
  <2>9. TextOn(page') => TextOn(page) /\ page.dropped
    BY <1>2, <1>4, <1>5, <2>1 DEF PageShape, TextOn
  <2>10. PageShape(page', sock', late')
    BY <1>4, <1>5, <1>6, <2>7, <2>9 DEF PageShape, Infos, TextOn
  <2>11. QED
    BY <1>4, <2>7, <2>8, <2>9, <2>10 DEF Scene
<1>10. QED
  BY <1>1, <1>8, <1>9

\* Steps that leave the connection alone.
LEMMA PageScene ==
  ASSUME Parts, SockInv, Outgrows(interviews', interviews), Scene(page, sock, late, interviews),
         \/ Preflight \/ Align \/ Tick \/ StaleClose \/ Watchdog \/ Redirect \/ AudioEnds \/ MicAnswered
         \/ ToggleReadAloud \/ HostOpen \/ ReadyTimeout \/ HandleMessage \/ (Straggler /\ UNCHANGED pageVars)
         \/ UNCHANGED vars
  PROVE  Scene(page', sock', late', interviews')
<1>1. PageShape(page, sock, late) /\ SockShape(sock, late) /\ HonestInv(sock, late, interviews)
  BY DEF Scene
<1>2. UNCHANGED <<sock, late>>
  BY DEF Preflight, Align, Tick, StaleClose, Watchdog, Redirect, AudioEnds, MicAnswered,
         ToggleReadAloud, HostOpen, ReadyTimeout, HandleMessage, Straggler, pageVars, vars
<1>3. SockShape(sock', late') /\ HonestInv(sock', late', interviews')
  BY <1>1, <1>2, SameConnection
<1>4. CASE Stays
  <2>1. PageShape(page', sock', late')
    BY <1>1, <1>2, <1>4 DEF PageShape, Stays, Shows, TextOn
  <2>2. QED
    BY <1>3, <2>1 DEF Scene
<1>5. CASE Tick \/ AudioEnds \/ ToggleReadAloud \/ page' = page
  BY <1>4, <1>5, StillIs DEF Parts
<1>6. CASE Preflight
  <2>1. page.info = "loading"
    BY <1>6 DEF Preflight
  <2>2. PICK info \in {"ready", "unavailable"} :
          Shows(info, page.phase, page.mode, page.log, page.connected, page.dropped, page.awaiting)
    BY <1>6, PreflightIs DEF Parts
  <2>3. PageShape(page', sock', late')
    BY <1>1, <1>2, <2>1, <2>2 DEF PageShape, Infos, Shows, TextOn
  <2>4. QED
    BY <1>3, <2>3 DEF Scene
<1>7. ASSUME page.info \in {"loading", "absent"}, NEW info \in {"loading", "absent"},
             Shows(info, "consent", "text", <<>>, FALSE, FALSE, FALSE)
      PROVE  Scene(page', sock', late', interviews')
  <2>1. late = <<>> /\ sock.kind = "none"
    BY <1>1, <1>7 DEF PageShape
  <2>2. IsSeq(<<>>)
    <3>1. <<>> \in Seq({})
      OBVIOUS
    <3>2. QED
      BY <3>1 DEF IsSeq
  <2>3. PageShape(page', sock', late')
    BY <1>2, <1>7, <2>1, <2>2 DEF PageShape, Infos, Shows, TextOn
  <2>4. QED
    BY <1>3, <2>3 DEF Scene
<1>8. CASE Align
  <2>1. page.info = "loading" /\ page' = Mounted(TRUE, page.embedded)
    BY <1>8 DEF Align
  <2>2. \E info \in {"loading", "absent"} : Shows(info, "consent", "text", <<>>, FALSE, FALSE, FALSE)
    BY <2>1, MountsIs
  <2>3. QED
    BY <1>7, <2>1, <2>2
<1>9. CASE HostOpen /\ page' # page
  <2>1. page.info = "absent" /\ \E aligned \in BOOLEAN : page' = Mounted(aligned, TRUE)
    BY <1>9 DEF HostOpen, Framed
  <2>2. \E info \in {"loading", "absent"} : Shows(info, "consent", "text", <<>>, FALSE, FALSE, FALSE)
    BY <2>1, MountsIs
  <2>3. QED
    BY <1>7, <2>1, <2>2
<1>10. CASE StaleClose
  <2>1. Shows(page.info, page.phase, page.mode, page.log, FALSE, page.dropped, page.awaiting)
    BY <1>10, StaleCloseIs
  <2>2. PageShape(page', sock', late')
    BY <1>1, <1>2, <2>1 DEF PageShape, Shows, TextOn
  <2>3. QED
    BY <1>3, <2>2 DEF Scene
<1>11. ASSUME NEW log, NEW l, GoesOn(log, page.log, l), l.who = "system",
              Shows(page.info, page.phase, page.mode, log, page.connected, page.dropped, FALSE),
              page.awaiting
       PROVE  Scene(page', sock', late', interviews')
  <2>1. IsSeq(log) /\ (Mute(page.log) => Mute(log))
    BY <1>11, StillMute DEF GoesOn
  <2>2. PageShape(page', sock', late')
    BY <1>1, <1>2, <1>11, <2>1 DEF PageShape, Shows, TextOn
  <2>3. QED
    BY <1>3, <2>2 DEF Scene
<1>12. CASE Watchdog
  <2>1. PICK l : l = Line("system", 0)
    OBVIOUS
  <2>2. PICK q : q = Append(Settled(page.log), l)
    OBVIOUS
  <2>3. GoesOn(q, page.log, l)
        /\ Shows(page.info, page.phase, page.mode, q, page.connected, page.dropped, FALSE)
    <3>1. GoesOn(q, page.log, l)
      BY <1>1, <2>2, LogGoesOn DEF PageShape
    <3>2. Shows(page.info, page.phase, page.mode, q, page.connected, page.dropped, FALSE)
      BY <1>12, <2>1, <2>2, WatchdogIs DEF Notice
    <3>3. QED
      BY <3>1, <3>2
  <2>4. page.awaiting
    BY <1>12 DEF Watchdog
  <2>5. l.who = "system"
    BY <2>1 DEF Line
  <2>6. QED
    BY <1>11, <2>3, <2>4, <2>5
<1>13. CASE MicAnswered
  <2>1. sock.kind = "voice" /\ page.mode = "voice" /\ page.phase # "consent"
    <3>1. sock.kind = "voice"
      BY <1>13, MicAnsweredIs
    <3>2. QED
      BY <1>1, <3>1 DEF PageShape
  <2>2. PICK l : l = Line("system", 0)
    OBVIOUS
  <2>3. PICK q : q = Append(page.log, l)
    OBVIOUS
  <2>4. Longer(q, page.log, l)
    BY <1>1, <2>3, OneLonger DEF PageShape
  <2>5. l.who \notin {"respondent", "interviewer"}
    BY <2>2 DEF Line
  <2>6. \A k \in DOMAIN q : (k \in DOMAIN page.log /\ q[k] = page.log[k]) \/ q[k] = l
    BY <2>4 DEF Longer
  <2>7. IsSeq(q) /\ Mute(q)
    BY <1>1, <2>1, <2>4, <2>5, <2>6 DEF Longer, Mute, PageShape
  <2>8. \/ Stays
        \/ Shows(page.info, page.phase, page.mode, q, page.connected, page.dropped, page.awaiting)
    BY <1>13, <2>2, <2>3, MicAnsweredIs DEF Stays
  <2>9. ASSUME Shows(page.info, page.phase, page.mode, q, page.connected, page.dropped, page.awaiting)
        PROVE  Scene(page', sock', late', interviews')
    <3>1. PageShape(page', sock', late')
      BY <1>1, <1>2, <2>1, <2>7, <2>9 DEF PageShape, Shows, TextOn
    <3>2. QED
      BY <1>3, <3>1 DEF Scene
  <2>10. QED
    BY <1>4, <2>8, <2>9
<1>14. CASE Redirect
  <2>1. page.phase = "done"
        /\ Shows("left", page.phase, page.mode, page.log, page.connected, page.dropped, page.awaiting)
    BY <1>14, RedirectIs
  <2>2. PageShape(page', sock', late')
    BY <1>1, <1>2, <2>1 DEF PageShape, Infos, Shows, TextOn
  <2>3. QED
    BY <1>3, <2>2 DEF Scene
<1>15. CASE ReadyTimeout \/ HandleMessage \/ (Straggler /\ UNCHANGED pageVars) \/ UNCHANGED vars
  <2>1. page' = page
    BY <1>15 DEF ReadyTimeout, HandleMessage, pageVars, vars
  <2>2. QED
    BY <1>5, <2>1
<1>16. QED
  BY <1>5, <1>6, <1>8, <1>9, <1>10, <1>12, <1>13, <1>14, <1>15

\* Steps that open, replace or end the connection.
LEMMA ConnectionScene ==
  ASSUME Parts, SockInv, Outgrows(interviews', interviews), Scene(page, sock, late, interviews),
         \/ (\E mode \in {"text", "voice"} : Start(mode)) \/ Opened \/ Closed \/ Reconnect
         \/ SwitchToText \/ LingerEnds \/ Reload \/ HostClose
  PROVE  Scene(page', sock', late', interviews')
<1>1. PageShape(page, sock, late) /\ SockShape(sock, late) /\ HonestInv(sock, late, interviews)
  BY DEF Scene
<1>2. ASSUME NEW kind, NEW st \in {"connecting", "closed"}, kind = "none" => st = "closed",
             Now(kind, st, 0, <<>>, <<>>), Honest(late', interviews'), PageShape(page', sock', late')
      PROVE  Scene(page', sock', late', interviews')
  <2>1. SockShape(sock', late') /\ HonestInv(sock', late', interviews')
    BY <1>2, FreshConnection
  <2>2. QED
    BY <1>2, <2>1 DEF Scene
<1>3. ASSUME NEW k \in 0 .. Len(sock.down), Leaves(k)
      PROVE  /\ Honest(late', interviews')
             /\ late' # <<>> => late # <<>> \/ sock.kind = "text"
             /\ sock.kind # "text" => late' = late
  BY <1>1, <1>3, StillHonest
<1>4. DOMAIN <<>> = {} /\ Honest(<<>>, interviews')
  <2>1. DOMAIN <<>> = {}
    OBVIOUS
  <2>2. QED
    BY <2>1 DEF Honest
<1>5. ASSUME NEW mode \in {"text", "voice"}, Start(mode) PROVE Scene(page', sock', late', interviews')
  <2>1. /\ page.info = "ready" /\ page.phase = "consent" /\ late' = late
        /\ Shows(page.info, IF mode = "voice" THEN "voice" ELSE "chat", mode, page.log, page.connected, page.dropped, page.awaiting)
        /\ Now(mode, "connecting", 0, <<>>, <<>>)
    BY <1>5, StartIs
  <2>2. page.log = <<>> /\ late' = <<>> /\ Mute(page.log)
    BY <1>1, <1>4, <2>1 DEF PageShape, Mute
  <2>3. sock'.kind = mode
    BY <2>1 DEF Now
  <2>4. PageShape(page', sock', late')
    BY <1>1, <2>1, <2>2, <2>3 DEF PageShape, Shows, TextOn
  <2>5. QED
    BY <1>2, <1>4, <2>1, <2>2, <2>4
<1>6. CASE Opened
  <2>1. /\ sock.st = "connecting" /\ late = <<>> /\ late' = <<>>
        /\ Shows(page.info, page.phase, page.mode, page.log, TRUE,
                 IF sock.kind = "text" THEN FALSE ELSE page.dropped, page.awaiting)
    BY <1>6, OpenedIs
  <2>2. PICK f : f.type \in {"start", "resume"} /\ (f.type = "start" => f.n = 0)
                 /\ Now(sock.kind, "open", sock.id, <<f>>, sock.down)
    BY <1>6, OpenedIs
  <2>3. sock.down = <<>> /\ sock.id = 0 /\ sock.kind # "none"
    BY <1>1, <2>1 DEF SockShape
  <2>4. DOMAIN <<f>> = {1} /\ <<f>>[1] = f
    OBVIOUS
  <2>5. PICK up : up = <<f>>
    OBVIOUS
  <2>6. sock'.kind = sock.kind /\ sock'.st = "open" /\ sock'.id = 0 /\ sock'.up = up /\ sock'.down = <<>>
    BY <2>2, <2>3, <2>5 DEF Now
  <2>7. DOMAIN up = {1} /\ up[1] = f
    BY <2>4, <2>5
  <2>8. SockShape(sock', late')
    BY <1>4, <2>1, <2>2, <2>3, <2>6, <2>7 DEF SockShape
  <2>9. HonestInv(sock', late', interviews')
    BY <1>4, <2>1, <2>6 DEF HonestInv
  <2>10. PageShape(page', sock', late')
    BY <1>1, <2>1, <2>6 DEF PageShape, Shows, TextOn
  <2>11. QED
    BY <2>8, <2>9, <2>10 DEF Scene
<1>7. CASE Closed
  <2>1. /\ sock.st \in {"connecting", "open", "ending", "closing"}
        /\ Now(sock.kind, "closed", 0, <<>>, <<>>)
        /\ Shows(page.info, page.phase, page.mode, page.log, FALSE,
                 IF sock.kind = "text" THEN TRUE ELSE page.dropped, page.awaiting)
    BY <1>7, ClosedIs
  <2>2. PICK k \in 0 .. Len(sock.down) : Leaves(k)
    BY <1>7, ClosedIs DEF Leaves
  <2>3. Honest(late', interviews') /\ (sock.kind # "text" => late' = late)
    BY <1>3, <2>2
  <2>4. sock.kind # "none" /\ sock'.kind = sock.kind
    BY <1>1, <2>1 DEF SockShape, Now
  <2>5. PageShape(page', sock', late')
    BY <1>1, <2>1, <2>3, <2>4 DEF PageShape, Shows, TextOn
  <2>6. QED
    BY <1>2, <2>1, <2>3, <2>5
<1>8. CASE Reconnect
  <2>1. page' = page /\ page.dropped /\ TextOn(page) /\ Now("text", "connecting", 0, <<>>, <<>>)
    BY <1>8, ReconnectIs
  <2>2. PICK k \in 0 .. Len(sock.down) : Leaves(k)
    BY <1>8, ReconnectIs
  <2>3. Honest(late', interviews') /\ sock'.kind = "text"
    BY <1>3, <2>1, <2>2 DEF Now
  <2>4. PageShape(page', sock', late')
    BY <1>1, <2>1, <2>3 DEF PageShape, TextOn
  <2>5. QED
    BY <1>2, <2>1, <2>3, <2>4
<1>9. CASE SwitchToText
  <2>1. /\ page.mode = "voice" /\ page.phase # "consent" /\ page.info = "ready"
        /\ Now("text", "connecting", 0, <<>>, <<>>) /\ Leaves(0)
        /\ Shows(page.info, "chat", "text", page.log, page.connected, page.dropped, page.awaiting)
    BY <1>9, SwitchToTextIs
  <2>2. late = <<>> /\ sock.kind # "text"
    BY <1>1, <2>1 DEF PageShape
  <2>3. 0 \in 0 .. Len(sock.down)
    BY SockSeqs DEF IsSeq
  <2>4. late' = <<>>
    BY <1>3, <2>1, <2>2, <2>3
  <2>5. sock'.kind = "text"
    BY <2>1 DEF Now
  <2>6. PageShape(page', sock', late')
    BY <1>1, <2>1, <2>4, <2>5 DEF PageShape, Shows, TextOn
  <2>7. QED
    BY <1>2, <1>4, <2>1, <2>4, <2>6
<1>10. CASE LingerEnds
  <2>1. /\ Now("none", "closed", 0, <<>>, <<>>)
        /\ Shows(page.info, "done", page.mode, page.log, page.connected, page.dropped, page.awaiting)
    BY <1>10, LingerEndsIs
  <2>2. PICK k \in 0 .. Len(sock.down) : Leaves(k)
    BY <1>10, LingerEndsIs
  <2>3. Honest(late', interviews') /\ (sock.kind # "text" => late' = late) /\ sock'.kind = "none"
    BY <1>3, <2>1, <2>2 DEF Now
  <2>4. PageShape(page', sock', late')
    BY <1>1, <2>1, <2>3 DEF PageShape, Shows, TextOn
  <2>5. QED
    BY <1>2, <2>1, <2>3, <2>4
<1>11. CASE Reload \/ HostClose
  <2>1. sock' = NoSock /\ late' = <<>> /\ (page' = Mounted(TRUE, page.embedded) \/ page' = Absent)
    BY <1>11 DEF Reload, HostClose
  <2>2. Now("none", "closed", 0, <<>>, <<>>)
    BY <2>1, SockParts DEF Parts
  <2>3. PICK info \in {"loading", "absent"} : Shows(info, "consent", "text", <<>>, FALSE, FALSE, FALSE)
    BY <2>1, MountsIs
  <2>4. IsSeq(<<>>)
    <3>1. <<>> \in Seq({})
      OBVIOUS
    <3>2. QED
      BY <3>1 DEF IsSeq
  <2>5. sock'.kind = "none"
    BY <2>2 DEF Now
  <2>6. PageShape(page', sock', late')
    BY <2>1, <2>3, <2>4, <2>5 DEF PageShape, Infos, Shows, TextOn
  <2>7. QED
    BY <1>2, <1>4, <2>1, <2>2, <2>6
<1>12. QED
  BY <1>5, <1>6, <1>7, <1>8, <1>9, <1>10, <1>11

\* Steps in which the respondent speaks, or is spoken to.
LEMMA SpeechScene ==
  ASSUME Parts, SockInv, Outgrows(interviews', interviews), Scene(page, sock, late, interviews),
         SendReply \/ OrbTap \/ OnVoiceMessage
  PROVE  Scene(page', sock', late', interviews')
<1>1. PageShape(page, sock, late) /\ SockShape(sock, late) /\ HonestInv(sock, late, interviews)
  BY DEF Scene
<1>2. ASSUME NEW n, UNCHANGED late, sock.st = "open",
             Now(sock.kind, sock.st, sock.id, Append(sock.up, [type |-> "reply", n |-> n]), sock.down)
      PROVE  SockShape(sock', late') /\ HonestInv(sock', late', interviews') /\ sock'.kind = sock.kind
  <2>1. SockShape(sock', late')
    BY <1>1, <1>2, OneReplyMore
  <2>2. sock'.kind = sock.kind /\ sock'.down = sock.down
    BY <1>2 DEF Now
  <2>3. Honest(late, interviews') /\ (sock.kind = "text" => Honest(sock.down, interviews'))
    BY <1>1, PartOf, SockSeqs, HonestPart DEF HonestInv
  <2>4. QED
    BY <1>2, <2>1, <2>2, <2>3 DEF HonestInv
<1>3. ASSUME UNCHANGED <<sock, late>>
      PROVE  SockShape(sock', late') /\ HonestInv(sock', late', interviews') /\ sock'.kind = sock.kind
  BY <1>1, <1>3, SameConnection
<1>4. CASE SendReply
  <2>1. /\ UNCHANGED late /\ TextOn(page)
        /\ IF sock.st = "open"
           THEN Now(sock.kind, sock.st, sock.id, Append(sock.up, [type |-> "reply", n |-> replies']), sock.down)
           ELSE sock' = sock
        /\ SaysUnsent \/ SaysSent
    BY <1>4, SendReplyIs
  <2>2. SockShape(sock', late') /\ HonestInv(sock', late', interviews') /\ sock'.kind = sock.kind
    <3>1. PICK n : n = replies'
      OBVIOUS
    <3>2. CASE sock.st = "open"
      BY <1>2, <2>1, <3>1, <3>2
    <3>3. CASE sock.st # "open"
      BY <1>3, <2>1, <3>3
    <3>4. QED
      BY <3>2, <3>3
  <2>3. IsSeq(page'.log)
    <3>1. PICK l, m, o : l = Line("respondent", replies') /\ m = Line("pending", 0) /\ o = Line("unsent", replies')
      OBVIOUS
    <3>2. PICK S : page.log \in Seq(S)
      BY <1>1 DEF PageShape, IsSeq
    <3>3. page.log \in Seq(S \union {l, m, o}) /\ <<l, m>> \in Seq(S \union {l, m, o})
      BY <3>2
    <3>4. page.log \o <<l, m>> \in Seq(S \union {l, m, o}) /\ Append(page.log, o) \in Seq(S \union {l, m, o})
      BY <3>3
    <3>5. page'.log = page.log \o <<l, m>> \/ page'.log = Append(page.log, o)
      BY <2>1, <3>1 DEF Shows, SaysSent, SaysUnsent
    <3>6. QED
      BY <3>4, <3>5 DEF IsSeq
  <2>4. PageShape(page', sock', late')
    BY <1>1, <2>1, <2>2, <2>3 DEF PageShape, Shows, SaysSent, SaysUnsent, TextOn
  <2>5. QED
    BY <2>2, <2>4 DEF Scene
<1>5. ASSUME Stays, UNCHANGED late, page.mode = "voice",
             SockShape(sock', late'), HonestInv(sock', late', interviews'), sock'.kind = sock.kind
      PROVE  Scene(page', sock', late', interviews')
  <2>1. PageShape(page', sock', late')
    BY <1>1, <1>5 DEF PageShape, Stays, Shows, TextOn
  <2>2. QED
    BY <1>5, <2>1 DEF Scene
<1>6. CASE OrbTap
  <2>1. /\ UNCHANGED late /\ page.mode = "voice" /\ Stays
        /\ \/ UNCHANGED sock
           \/ /\ sock.st = "open"
              /\ Now(sock.kind, sock.st, sock.id, Append(sock.up, [type |-> "reply", n |-> replies']), sock.down)
    BY <1>6, OrbTapIs
  <2>2. SockShape(sock', late') /\ HonestInv(sock', late', interviews') /\ sock'.kind = sock.kind
    <3>1. PICK n : n = replies'
      OBVIOUS
    <3>2. QED
      BY <1>2, <1>3, <2>1, <3>1
  <2>3. QED
    BY <1>5, <2>1, <2>2
<1>7. CASE OnVoiceMessage
  <2>1. /\ UNCHANGED late /\ sock.kind = "voice" /\ sock.st = "open"
        /\ Stays /\ Now("voice", "open", sock.id, sock.up, Tail(sock.down))
    BY <1>7, OnVoiceMessageIs
  <2>2. page.mode = "voice"
    BY <1>1, <2>1 DEF PageShape
  <2>3. /\ sock'.kind = "voice" /\ sock'.st = "open" /\ sock'.id = sock.id /\ sock'.up = sock.up
        /\ sock'.down = Tail(sock.down)
    BY <2>1 DEF Now
  <2>4. sock'.id = 0 => sock'.down = <<>>
    <3>1. sock.id = 0 => sock.down = <<>>
      BY <1>1, <2>1 DEF SockShape
    <3>2. sock.down # <<>>
      BY <1>7 DEF OnVoiceMessage
    <3>3. QED
      BY <2>3, <3>1, <3>2
  <2>5. SockShape(sock', late')
    BY <1>1, <2>1, <2>3, <2>4 DEF SockShape
  <2>6. Honest(late, interviews')
    BY <1>1, PartOf, SockSeqs, HonestPart DEF HonestInv
  <2>7. HonestInv(sock', late', interviews')
    BY <2>1, <2>3, <2>6 DEF HonestInv
  <2>8. QED
    BY <1>5, <2>1, <2>2, <2>3, <2>5, <2>7
<1>8. QED
  BY <1>4, <1>6, <1>7

LEMMA SceneKept ==
  ASSUME Parts, LedgerInv, SockInv, LinesInv, WellSaid(interviews), Scene(page, sock, late, interviews),
         [Next]_vars, surface # "headless"
  PROVE  Scene(page', sock', late', interviews')
<1>1. Outgrows(interviews', interviews)
  BY LedgerMoves
<1>2. PageShape(page, sock, late) /\ SockShape(sock, late) /\ HonestInv(sock, late, interviews)
  BY DEF Scene
<1>3. CASE Shake \/ Serve \/ ServeVoice
  <2>1. SockShape(sock', late') /\ HonestInv(sock', late', interviews') /\ sock'.kind = sock.kind
    BY <1>1, <1>2, <1>3, ShakeScene, ServeScene
  <2>2. UNCHANGED <<page, late>>
    BY <1>3 DEF Shake, Serve, ServeVoice
  <2>3. PageShape(page', sock', late')
    BY <1>2, <2>1, <2>2 DEF PageShape
  <2>4. QED
    BY <2>1, <2>3 DEF Scene
<1>4. CASE OnMessage
  <2>1. UNCHANGED interviews
    BY <1>4 DEF OnMessage, serverVars
  <2>2. Outgrows(interviews, interviews)
    BY SameInterviews
  <2>3. QED
    BY <1>4, <2>1, <2>2, MessageScene
<1>5. CASE SendReply \/ OrbTap \/ OnVoiceMessage
  BY <1>1, <1>5, SpeechScene
<1>6. CASE \/ (\E mode \in {"text", "voice"} : Start(mode)) \/ Opened \/ Closed \/ Reconnect
           \/ SwitchToText \/ LingerEnds \/ Reload \/ HostClose
  BY <1>1, <1>6, ConnectionScene
<1>7. CASE \/ Preflight \/ Align \/ Tick \/ StaleClose \/ Watchdog \/ Redirect \/ AudioEnds \/ MicAnswered
           \/ ToggleReadAloud \/ HostOpen \/ ReadyTimeout \/ HandleMessage \/ (Straggler /\ UNCHANGED pageVars)
           \/ UNCHANGED vars
  BY <1>1, <1>7, PageScene
<1>8. QED
  BY <1>3, <1>4, <1>5, <1>6, <1>7 DEF Next, Embedded, Direct, Headless, ElementStep, PageStep, HostStep

-----------------------------------------------------------------------------
(* The text interview, step by step.                                       *)

\* It begins on a page where nothing has been said, and goes on.
LEMMA TextSteps ==
  ASSUME Parts, SockInv, LinesInv, Scene(page, sock, late, interviews), [Next]_vars, surface # "headless",
         TextOn(page')
  PROVE  \/ /\ Mute(page'.log) /\ late' = <<>> /\ UNCHANGED interviews
            /\ Now("text", "connecting", 0, <<>>, <<>>)
         \/ /\ TextOn(page)
            /\ \/ Stays /\ UNCHANGED <<sock, late>> /\ Len(interviews') = Len(interviews)
               \/ Opened \/ Closed \/ StaleClose \/ Reconnect \/ Shake \/ Serve \/ OnMessage \/ SendReply
               \/ Watchdog
<1>1. PageShape(page, sock, late) /\ SockShape(sock, late)
  BY DEF Scene
<1>2. ASSUME Stays, UNCHANGED <<sock, late>>, Len(interviews') = Len(interviews)
      PROVE  TextOn(page) /\ Stays /\ UNCHANGED <<sock, late>> /\ Len(interviews') = Len(interviews)
  BY <1>2 DEF Stays, Shows, TextOn
<1>3. ASSUME NEW mode \in {"text", "voice"}, Start(mode)
      PROVE  /\ Mute(page'.log) /\ late' = <<>> /\ UNCHANGED interviews
             /\ Now("text", "connecting", 0, <<>>, <<>>)
  <2>1. /\ page.info = "ready" /\ page.phase = "consent" /\ UNCHANGED <<late, interviews>>
        /\ Now(mode, "connecting", 0, <<>>, <<>>) /\ page'.log = page.log /\ page'.mode = mode
    BY <1>3, StartIs DEF Shows
  <2>2. mode = "text" /\ page.log = <<>> /\ late = <<>>
    BY <1>1, <2>1 DEF PageShape, TextOn
  <2>3. DOMAIN <<>> = {}
    OBVIOUS
  <2>4. QED
    BY <2>1, <2>2, <2>3 DEF Mute
<1>4. ASSUME SwitchToText
      PROVE  /\ Mute(page'.log) /\ late' = <<>> /\ UNCHANGED interviews
             /\ Now("text", "connecting", 0, <<>>, <<>>)
  <2>1. page.mode = "voice" /\ Leaves(0) /\ page'.log = page.log /\ UNCHANGED interviews
        /\ Now("text", "connecting", 0, <<>>, <<>>)
    BY <1>4, SwitchToTextIs DEF Shows
  <2>2. late' = <<>>
    BY <1>1, <2>1 DEF Leaves, PageShape
  <2>3. QED
    BY <1>1, <2>1, <2>2 DEF PageShape
<1>5. ASSUME Preflight \/ Align \/ LingerEnds \/ Redirect \/ Reload \/ (HostOpen /\ page' # page) \/ HostClose
      PROVE  FALSE
  <2>1. CASE Preflight
    <3>1. page.info = "loading" /\ page'.phase = page.phase
      BY <2>1, PreflightIs DEF Preflight, Parts, Shows
    <3>2. QED
      BY <1>1, <3>1 DEF PageShape, TextOn
  <2>2. CASE LingerEnds \/ Redirect
    BY <2>2, LingerEndsIs, RedirectIs DEF Shows, TextOn
  <2>3. CASE Align \/ Reload \/ HostClose \/ (HostOpen /\ page' # page)
    <3>1. PICK aligned, embedded : page' = Mounted(aligned, embedded) \/ page' = Absent
      BY <2>3 DEF Align, Reload, HostClose, HostOpen
    <3>2. PICK info \in {"loading", "absent"} : Shows(info, "consent", "text", <<>>, FALSE, FALSE, FALSE)
      BY <3>1, MountsIs
    <3>3. QED
      BY <3>2 DEF Shows, TextOn
  <2>4. QED
    BY <1>5, <2>1, <2>2, <2>3
<1>6. ASSUME ServeVoice \/ OnVoiceMessage \/ MicAnswered \/ OrbTap \/ ToggleReadAloud PROVE FALSE
  <2>1. page.mode = "voice" /\ page'.mode = page.mode
    <3>1. CASE ServeVoice
      BY <1>1, <3>1 DEF ServeVoice, PageShape
    <3>2. CASE OnVoiceMessage
      BY <1>1, <3>2, OnVoiceMessageIs DEF PageShape, Stays, Shows
    <3>3. CASE MicAnswered
      BY <1>1, <3>3, MicAnsweredIs DEF PageShape, Shows
    <3>4. CASE OrbTap
      BY <3>4, OrbTapIs DEF Stays, Shows
    <3>5. CASE ToggleReadAloud
      BY <3>5, StillIs, ScreenIs DEF ToggleReadAloud, Parts, Stays, Shows
    <3>6. QED
      BY <1>6, <3>1, <3>2, <3>3, <3>4, <3>5
  <2>2. QED
    BY <2>1 DEF TextOn
<1>7. ASSUME \/ Tick \/ AudioEnds \/ (HostOpen /\ page' = page) \/ ReadyTimeout \/ HandleMessage
             \/ (Straggler /\ UNCHANGED pageVars) \/ UNCHANGED vars
      PROVE  Stays /\ UNCHANGED <<sock, late>> /\ Len(interviews') = Len(interviews)
  <2>1. UNCHANGED <<sock, late>>
    BY <1>7 DEF Tick, AudioEnds, HostOpen, ReadyTimeout, HandleMessage, pageVars, vars
  <2>2. Stays
    <3>1. Tick \/ AudioEnds \/ page' = page
      BY <1>7 DEF HostOpen, ReadyTimeout, HandleMessage, pageVars, vars
    <3>2. QED
      BY <3>1, StillIs DEF Parts
  <2>3. Len(interviews') = Len(interviews)
    <3>1. UNCHANGED interviews \/ \E i, n, kind : interviews' = WithTurn(i, n, kind)
      BY <1>7 DEF Tick, AudioEnds, HostOpen, ReadyTimeout, HandleMessage, Straggler, vars, serverVars
    <3>2. ASSUME NEW i, NEW n, NEW kind, interviews' = WithTurn(i, n, kind)
          PROVE  Len(interviews') = Len(interviews)
      BY <3>2, WithTurnIs DEF TurnIn
    <3>3. QED
      BY <3>1, <3>2
  <2>4. QED
    BY <2>1, <2>2, <2>3
<1>8. CASE Opened \/ Closed \/ StaleClose \/ Reconnect \/ Shake \/ Serve \/ OnMessage \/ SendReply \/ Watchdog
  <2>1. TextOn(page)
    <3>1. CASE Opened \/ Closed \/ StaleClose \/ Watchdog
      BY <3>1, OpenedIs, ClosedIs, StaleCloseIs, WatchdogIs DEF Shows, TextOn
    <3>2. CASE Reconnect \/ Shake \/ Serve
      BY <3>2 DEF Reconnect, Shake, Serve
    <3>3. CASE SendReply
      BY <3>3, SendReplyIs
    <3>4. CASE OnMessage
      <4>1. UNCHANGED interviews /\ Outgrows(interviews, interviews)
        BY <3>4, SameInterviews DEF OnMessage, serverVars
      <4>2. QED
        BY <3>4, <4>1, MessageScene DEF LinesInv
    <3>5. QED
      BY <1>8, <3>1, <3>2, <3>3, <3>4
  <2>2. QED
    BY <1>8, <2>1
<1>9. \/ Opened \/ Closed \/ StaleClose \/ Reconnect \/ Shake \/ Serve \/ OnMessage \/ SendReply \/ Watchdog
      \/ Tick \/ AudioEnds \/ (HostOpen /\ page' = page) \/ ReadyTimeout \/ HandleMessage
      \/ (Straggler /\ UNCHANGED pageVars) \/ UNCHANGED vars
      \/ (\E mode \in {"text", "voice"} : Start(mode)) \/ SwitchToText
  BY <1>5, <1>6 DEF Next, Embedded, Direct, Headless, ElementStep, PageStep, HostStep
<1>10. QED
  BY <1>2, <1>3, <1>4, <1>7, <1>8, <1>9

-----------------------------------------------------------------------------
(* What becomes of an answer the page shows.                               *)

\* A line after it says that something went wrong.
Noted(log, k) == \E m \in DOMAIN log : m > k /\ log[m].who = "system"

\* The respondent has said nothing since and waits.
Waits(p, k) == p.awaiting /\ \A m \in DOMAIN p.log : m > k => p.log[m].who # "respondent"

InUp(s, n) == \E k \in DOMAIN s.up : s.up[k].type = "reply" /\ s.up[k].n = n

Answers(f) == f.type = "turn" \/ (f.type = "error" /\ f.recoverable)

\* Neither a reply nor what answers one is under way.
Hush(s) == /\ \A k \in DOMAIN s.up : s.up[k].type # "reply"
           /\ \A k \in DOMAIN s.down : ~Answers(s.down[k])

\* An error under way will say it.
Failing(s) == \E k \in DOMAIN s.down : s.down[k].type = "error" /\ s.down[k].recoverable

Returns(q) == q # <<>> /\ Head(q).type = "hello" /\ Head(q).resumed

\* The page will be what the server has of the interview, or is under the banner.
Restoring(p, s) ==
  \/ p.dropped \/ ~p.connected \/ s.st = "ending"
  \/ s.st = "open" /\ s.id = 0
  \/ Returns(s.down)

Answered(p, s, m, k) ==
  \/ Noted(p.log, k) \/ InUp(s, p.log[k].n) \/ (Waits(p, k) /\ Hush(s))
  \/ RecordedIn(m, p.log[k].n) \/ Failing(s) \/ Restoring(p, s)

\* Before the interview has begun an answer can only be waiting for it.
Pending(p, s, k) == Noted(p.log, k) \/ (Waits(p, k) /\ (InUp(s, p.log[k].n) \/ Hush(s)))

Accounted(p, s, m) ==
  TextOn(p) =>
    \A k \in DOMAIN p.log :
      p.log[k].who = "respondent" =>
        /\ Len(m) = 0 => Pending(p, s, k)
        /\ Len(m) = 1 => Answered(p, s, m, k)

\* A line that stays keeps what is said after it.
LEMMA NotedStays ==
  ASSUME NEW q, NEW log, NEW l, IsSeq(log), GoesOn(q, log, l), NEW k \in DOMAIN q, q[k].who # l.who
  PROVE  \E j \in DOMAIN log : log[j] = q[k] /\ (Noted(log, j) => Noted(q, k))
<1>1. PICK r : Kept(r, log) /\ Longer(q, r, l)
  BY DEF GoesOn
<1>2. PICK g : Embeds(g, r, log) /\ \A m \in DOMAIN log : log[m].who # "pending" => \E i \in DOMAIN r : g[i] = m
  BY <1>1 DEF Kept
<1>3. k \in DOMAIN r /\ q[k] = r[k] /\ DOMAIN r \subseteq Nat /\ DOMAIN log \subseteq Nat
  <2>1. k # Len(r) + 1
    BY <1>1 DEF Longer
  <2>2. k \in DOMAIN r /\ q[k] = r[k]
    BY <1>1, <2>1 DEF Longer
  <2>3. DOMAIN r \subseteq Nat
    BY <1>1 DEF Longer
  <2>4. DOMAIN log \subseteq Nat
    BY DEF IsSeq
  <2>5. QED
    BY <2>2, <2>3, <2>4
<1>4. PICK j : j = g[k]
  OBVIOUS
<1>5. j \in DOMAIN log /\ log[j] = q[k]
  BY <1>2, <1>3, <1>4 DEF Embeds
<1>6. ASSUME NEW m \in DOMAIN log, m > j, log[m].who = "system"
      PROVE  \E i \in DOMAIN q : i > k /\ q[i].who = "system"
  <2>1. PICK i \in DOMAIN r : g[i] = m
    BY <1>2, <1>6
  <2>2. i > k
    <3>1. CASE i < k
      <4>1. g[i] < g[k] /\ m \in Nat /\ j \in Nat
        BY <1>2, <1>3, <1>5, <1>6, <2>1, <3>1 DEF Embeds
      <4>2. QED
        BY <1>4, <1>6, <2>1, <4>1
    <3>2. CASE i = k
      <4>1. m = j /\ j \in Nat
        BY <1>3, <1>4, <1>5, <2>1, <3>2
      <4>2. QED
        BY <1>6, <4>1
    <3>3. QED
      BY <1>3, <2>1, <3>1, <3>2
  <2>3. r[i] = log[m] /\ i \in DOMAIN q /\ q[i] = r[i]
    BY <1>1, <1>2, <2>1 DEF Embeds, Longer
  <2>4. QED
    BY <1>6, <2>2, <2>3
<1>7. Noted(log, j) => Noted(q, k)
  BY <1>6 DEF Noted
<1>8. QED
  BY <1>5, <1>7

\* A notice is said after everything.
LEMMA NoticeIs ==
  ASSUME NEW log, IsSeq(log), NEW k \in DOMAIN Notice(log), Notice(log)[k].who = "respondent"
  PROVE  Noted(Notice(log), k)
<1>1. PICK l : l = Line("system", 0)
  OBVIOUS
<1>2. PICK q : q = Notice(log)
  OBVIOUS
<1>3. GoesOn(q, log, l) /\ l.who = "system"
  BY <1>1, <1>2, LogGoesOn DEF Notice, Line
<1>4. PICK r : Longer(q, r, l)
  BY <1>3 DEF GoesOn
<1>5. k \in DOMAIN q /\ q[k].who = "respondent"
  BY <1>2
<1>6. k \in 1 .. Len(r) + 1 /\ k # Len(r) + 1 /\ Len(r) \in Nat /\ q[Len(r) + 1] = l /\ Len(r) + 1 \in DOMAIN q
  BY <1>3, <1>4, <1>5 DEF Longer
<1>7. Len(r) + 1 > k
  BY <1>6
<1>8. Noted(q, k)
  BY <1>3, <1>6, <1>7 DEF Noted
<1>9. QED
  BY <1>2, <1>8

Talking ==
  /\ Parts /\ LedgerInv /\ SockInv /\ LinesInv /\ WellSaid(interviews)
  /\ Scene(page, sock, late, interviews)

AnsweredAt(p, s, m, k) == (Len(m) = 0 => Pending(p, s, k)) /\ (Len(m) = 1 => Answered(p, s, m, k))

\* The connection opens, is lost or is replaced, or nothing happens to it.
LEMMA LineAccounted ==
  ASSUME Talking, Outgrows(interviews', interviews), Len(interviews') = Len(interviews),
         TextOn(page), Accounted(page, sock, interviews),
         page'.log = page.log, page'.awaiting = page.awaiting,
         \/ Restoring(page', sock') /\ (Hush(sock') \/ UNCHANGED sock)
         \/ UNCHANGED sock /\ page'.dropped = page.dropped /\ page'.connected = page.connected
  PROVE  Accounted(page', sock', interviews')
<1> SUFFICES ASSUME NEW k \in DOMAIN page.log, page.log[k].who = "respondent"
             PROVE  AnsweredAt(page', sock', interviews', k)
  BY DEF Accounted, AnsweredAt
<1>1. AnsweredAt(page, sock, interviews, k)
  BY DEF Accounted, AnsweredAt
<1>2. Noted(page.log, k) => Noted(page'.log, k)
  OBVIOUS
<1>3. Waits(page, k) => Waits(page', k)
  BY DEF Waits
<1>4. \A n : RecordedIn(interviews, n) => RecordedIn(interviews', n)
  BY RecordedIs
<1>5. ASSUME Len(interviews') = 0 PROVE Pending(page', sock', k)
  BY <1>1, <1>2, <1>3, <1>5 DEF AnsweredAt, Pending
<1>6. ASSUME Len(interviews') = 1 PROVE Answered(page', sock', interviews', k)
  <2>1. CASE Restoring(page', sock')
    BY <2>1 DEF Answered
  <2>2. CASE UNCHANGED sock /\ page'.dropped = page.dropped /\ page'.connected = page.connected
    <3>1. Restoring(page, sock) => Restoring(page', sock')
      BY <2>2 DEF Restoring
    <3>2. QED
      BY <1>1, <1>2, <1>3, <1>4, <1>6, <2>2, <3>1 DEF AnsweredAt, Answered
  <2>3. QED
    BY <2>1, <2>2
<1>7. QED
  BY <1>5, <1>6 DEF AnsweredAt

LEMMA ConnectionAccounted ==
  ASSUME Talking, Outgrows(interviews', interviews), TextOn(page), Accounted(page, sock, interviews),
         \/ Stays /\ UNCHANGED <<sock, late>> /\ Len(interviews') = Len(interviews)
         \/ Opened \/ Closed \/ StaleClose \/ Reconnect
  PROVE  Accounted(page', sock', interviews')
<1>1. Parts /\ SockShape(sock, late) /\ PageShape(page, sock, late)
  BY DEF Talking, Scene
<1>2. DOMAIN <<>> = {}
  OBVIOUS
<1>3. CASE Stays /\ UNCHANGED <<sock, late>> /\ Len(interviews') = Len(interviews)
  BY <1>3, LineAccounted DEF Stays, Shows
<1>4. CASE Opened
  <2>1. /\ sock.st = "connecting" /\ UNCHANGED interviews
        /\ page'.log = page.log /\ page'.awaiting = page.awaiting
    BY <1>1, <1>4, OpenedIs DEF Shows
  <2>2. PICK f : f.type \in {"start", "resume"} /\ Now(sock.kind, "open", sock.id, <<f>>, sock.down)
    BY <1>1, <1>4, OpenedIs
  <2>3. DOMAIN <<f>> = {1} /\ <<f>>[1] = f
    OBVIOUS
  <2>4. sock.id = 0 /\ sock.down = <<>>
    BY <1>1, <2>1 DEF SockShape
  <2>5. sock'.st = "open" /\ sock'.id = 0 /\ sock'.up = <<f>> /\ sock'.down = <<>>
    BY <2>2, <2>4 DEF Now
  <2>6. Hush(sock')
    BY <1>2, <2>2, <2>3, <2>5 DEF Hush
  <2>7. Restoring(page', sock')
    BY <2>5 DEF Restoring
  <2>8. QED
    BY <2>1, <2>6, <2>7, LineAccounted
<1>5. CASE Closed \/ Reconnect
  <2>1. /\ UNCHANGED interviews /\ page'.log = page.log /\ page'.awaiting = page.awaiting
        /\ (page'.dropped \/ ~page'.connected)
    <3>1. CASE Closed
      <4>1. Shows(page.info, page.phase, page.mode, page.log, FALSE,
                  IF sock.kind = "text" THEN TRUE ELSE page.dropped, page.awaiting)
        BY <1>1, <3>1, ClosedIs
      <4>2. QED
        BY <1>1, <3>1, <4>1, ClosedIs DEF Shows
    <3>2. QED
      BY <1>1, <1>5, <3>1, ReconnectIs
  <2>2. sock'.up = <<>> /\ sock'.down = <<>>
    BY <1>1, <1>5, ClosedIs, ReconnectIs DEF Now
  <2>3. Hush(sock')
    BY <1>2, <2>2 DEF Hush
  <2>4. Restoring(page', sock')
    BY <2>1 DEF Restoring
  <2>5. QED
    BY <2>1, <2>3, <2>4, LineAccounted
<1>6. CASE StaleClose
  <2>1. UNCHANGED <<interviews, sock>> /\ page'.log = page.log /\ page'.awaiting = page.awaiting /\ ~page'.connected
    BY <1>1, <1>6, StaleCloseIs DEF Shows
  <2>2. Restoring(page', sock')
    BY <2>1 DEF Restoring
  <2>3. QED
    BY <2>1, <2>2, LineAccounted
<1>7. QED
  BY <1>3, <1>4, <1>5, <1>6

\* The handshake: a new interview is begun with the replies that are under way.
LEMMA ShakeAccounted ==
  ASSUME Talking, TextOn(page), Accounted(page, sock, interviews), Shake
  PROVE  Accounted(page', sock', interviews')
<1>1. Parts /\ SockInv /\ LinesInv /\ SockShape(sock, late) /\ PageShape(page, sock, late)
  BY DEF Talking, Scene
<1>2. /\ page' = page /\ sock.st = "open" /\ sock.up # <<>> /\ sock.id = 0
      /\ \/ \E i : interviews' = Append(interviews, i) /\ Greets(Len(interviews'), FALSE)
         \/ /\ UNCHANGED interviews
            /\ \E id \in 1 .. Len(interviews) : Greets(id, TRUE)
         \/ /\ UNCHANGED interviews
            /\ \E reason : TurnsAway(reason)
  BY <1>1, ShakeIs
<1>3. sock.kind = "text" /\ sock.down = <<>>
  BY <1>1, <1>2 DEF PageShape, SockShape, TextOn
<1>4. DOMAIN <<>> = {} /\ \A f : DOMAIN <<f>> = {1} /\ <<f>>[1] = f /\ Append(<<>>, f) = <<f>> /\ <<f>> # <<>> /\ Head(<<f>>) = f
  OBVIOUS
<1> SUFFICES ASSUME NEW k \in DOMAIN page.log, page.log[k].who = "respondent"
             PROVE  AnsweredAt(page', sock', interviews', k)
  BY <1>2 DEF Accounted, AnsweredAt
<1>5. AnsweredAt(page, sock, interviews, k) /\ Len(interviews) \in Nat
  BY <1>1 DEF Accounted, AnsweredAt, LinesInv, LedgerInv
<1>6. ASSUME NEW i, interviews' = Append(interviews, i), Greets(Len(interviews'), FALSE)
      PROVE  AnsweredAt(page', sock', interviews', k)
  <2>1. Len(interviews') = Len(interviews) + 1
    BY <1>1, <1>6 DEF LinesInv, LedgerInv
  <2>2. PICK f : f = Hello(Len(interviews'), FALSE)
    OBVIOUS
  <2>3. sock'.up = Tail(sock.up) /\ sock'.down = <<f>> /\ f.type = "hello"
    BY <1>3, <1>4, <1>6, <2>2 DEF Greets, Now, Hello
  <2>4. PICK S : sock.up \in Seq(S)
    BY <1>1, SockSeqs DEF IsSeq
  <2>5. PICK up : up = Tail(sock.up)
    OBVIOUS
  <2>6. (\A j \in DOMAIN up : up[j] = sock.up[j + 1] /\ j + 1 \in DOMAIN sock.up) /\ Head(sock.up) = sock.up[1]
        /\ \A j \in DOMAIN sock.up : j = 1 \/ (j - 1 \in DOMAIN up /\ (j - 1) + 1 = j)
    BY <1>2, <2>4, <2>5
  <2>7. Head(sock.up).type # "reply"
    BY <1>1, <1>2 DEF SockInv
  <2>8. ASSUME NEW n, InUp(sock, n) PROVE InUp(sock', n)
    <3>1. PICK j \in DOMAIN sock.up : sock.up[j].type = "reply" /\ sock.up[j].n = n
      BY <2>8 DEF InUp
    <3>2. j - 1 \in DOMAIN up /\ up[j - 1] = sock.up[j]
      BY <2>6, <2>7, <3>1
    <3>3. QED
      BY <2>3, <2>5, <3>1, <3>2 DEF InUp
  <2>9. Hush(sock) => Hush(sock')
    <3>1. \A j \in DOMAIN sock'.down : ~Answers(sock'.down[j])
      BY <1>4, <2>3 DEF Answers
    <3>2. ASSUME Hush(sock) PROVE \A j \in DOMAIN sock'.up : sock'.up[j].type # "reply"
      BY <2>3, <2>5, <2>6, <3>2 DEF Hush
    <3>3. QED
      BY <3>1, <3>2 DEF Hush
  <2>10. ASSUME Len(interviews') = 1 PROVE Answered(page', sock', interviews', k)
    <3>1. Pending(page, sock, k)
      BY <1>5, <2>1, <2>10 DEF AnsweredAt
    <3>2. QED
      BY <1>2, <2>8, <2>9, <3>1 DEF Pending, Answered
  <2>11. QED
    BY <1>5, <2>1, <2>10 DEF AnsweredAt
<1>7. ASSUME UNCHANGED interviews, NEW id \in 1 .. Len(interviews), Greets(id, TRUE)
      PROVE  AnsweredAt(page', sock', interviews', k)
  <2>1. PICK f : f = Hello(id, TRUE)
    OBVIOUS
  <2>2. sock'.down = <<f>> /\ f.type = "hello" /\ f.resumed
    BY <1>3, <1>4, <1>7, <2>1 DEF Greets, Now, Hello
  <2>3. Restoring(page', sock')
    BY <1>4, <2>2 DEF Restoring, Returns
  <2>4. Len(interviews') # 0
    BY <1>5, <1>7
  <2>5. QED
    BY <2>3, <2>4 DEF AnsweredAt, Answered
<1>8. ASSUME UNCHANGED interviews, NEW reason, TurnsAway(reason)
      PROVE  AnsweredAt(page', sock', interviews', k)
  <2>1. PICK f : f = ErrorFrame(reason, FALSE)
    OBVIOUS
  <2>2. sock'.up = <<>> /\ sock'.down = <<f>> /\ ~Answers(f) /\ sock'.st = "ending"
    BY <1>8, <2>1 DEF TurnsAway, Now, ErrorFrame, Answers
  <2>3. Hush(sock')
    BY <1>4, <2>2 DEF Hush
  <2>4. Restoring(page', sock')
    BY <2>2 DEF Restoring
  <2>5. Len(interviews') = 0 => Pending(page', sock', k)
    BY <1>2, <1>5, <1>8, <2>3 DEF AnsweredAt, Pending
  <2>6. QED
    BY <2>4, <2>5 DEF AnsweredAt, Answered
<1>9. QED
  BY <1>2, <1>6, <1>7, <1>8

\* A reply is answered: its line is recorded, or an error is under way.
LEMMA ServeAccounted ==
  ASSUME Talking, Outgrows(interviews', interviews), TextOn(page), Accounted(page, sock, interviews), Serve
  PROVE  Accounted(page', sock', interviews')
<1>1. Parts /\ SockInv /\ LinesInv /\ SockShape(sock, late)
  BY DEF Talking, Scene
<1>2. /\ page' = page /\ sock.st = "open" /\ sock.up # <<>> /\ Head(sock.up).type = "reply"
      /\ sock.id \in 1 .. Len(interviews)
      /\ \/ \E kind, f : interviews' = WithTurn(sock.id, Head(sock.up).n, kind) /\ SendsOne(f)
         \/ UNCHANGED interviews /\ SendsOne(ErrorFrame("interviewer_unavailable", TRUE))
  <2>1. /\ page' = page /\ sock.st = "open" /\ sock.up # <<>> /\ Head(sock.up).type = "reply"
        /\ sock.id \in 1 .. Len(interviews)
    BY <1>1, ServeIs
  <2>2. \/ \E kind, f : /\ interviews' = WithTurn(sock.id, Head(sock.up).n, kind)
                        /\ f.type = "turn" /\ f.n = Head(sock.up).n /\ SendsOne(f)
        \/ UNCHANGED interviews /\ SendsOne(ErrorFrame("interviewer_unavailable", TRUE))
    BY <1>1, ServeIs
  <2>3. QED
    BY <2>1, <2>2
<1>3. PICK n : n = Head(sock.up).n
  OBVIOUS
<1>4. PICK f : SendsOne(f)
  BY <1>2
<1>5. Len(interviews') = Len(interviews) /\ Len(interviews) \in Nat /\ Len(interviews) # 0 /\ sock.id # 0
  <2>1. Len(interviews) \in Nat
    BY <1>1 DEF LinesInv, LedgerInv
  <2>2. ASSUME NEW kind, interviews' = WithTurn(sock.id, n, kind) PROVE Len(interviews') = Len(interviews)
    BY <1>1, <2>2, WithTurnIs DEF TurnIn
  <2>3. Len(interviews) # 0 /\ sock.id # 0
    BY <1>2, <2>1
  <2>4. QED
    BY <1>2, <1>3, <2>1, <2>2, <2>3
<1>6. PICK up, down : up = Tail(sock.up) /\ down = Append(sock.down, f)
  OBVIOUS
<1>7. sock'.st = "open" /\ sock'.id = sock.id /\ sock'.up = up /\ sock'.down = down
  BY <1>4, <1>6 DEF SendsOne, Now
<1>8. /\ Head(sock.up) = sock.up[1] /\ 1 \in DOMAIN sock.up
      /\ \A j \in DOMAIN sock.up : j = 1 \/ (j - 1 \in DOMAIN up /\ up[j - 1] = sock.up[j])
  <2>1. PICK S : sock.up \in Seq(S)
    BY <1>1, SockSeqs DEF IsSeq
  <2>2. QED
    BY <1>2, <1>6, <2>1
<1>9. Longer(down, sock.down, f)
  BY <1>1, <1>6, OneLonger, SockSeqs
<1>10. RecordedIn(interviews', n) \/ Failing(sock')
  <2>1. CASE \E kind : interviews' = WithTurn(sock.id, n, kind)
    <3>1. TurnIn(interviews', interviews, sock.id, n)
      BY <1>1, <2>1, WithTurnIs
    <3>2. sock.id \in DOMAIN interviews /\ sock.id \in DOMAIN interviews'
      BY <1>2, <3>1 DEF Outgrows, TurnIn
    <3>3. TwoMore(interviews'[sock.id].lines, interviews[sock.id].lines, n)
      BY <3>1, <3>2 DEF TurnIn
    <3>4. PICK new, a : new = interviews'[sock.id].lines /\ a = Len(interviews[sock.id].lines) + 1
      OBVIOUS
    <3>5. a \in DOMAIN new /\ new[a] = Line("respondent", n) /\ IsSeq(new)
      BY <3>3, <3>4 DEF TwoMore
    <3>6. a \in 1 .. Len(new)
      BY <3>5 DEF IsSeq
    <3>7. Contains(new, Line("respondent", n))
      BY <3>5, <3>6 DEF Contains
    <3>8. QED
      BY <3>2, <3>4, <3>7 DEF RecordedIn
  <2>2. CASE SendsOne(ErrorFrame("interviewer_unavailable", TRUE))
    <3>1. PICK g : g = ErrorFrame("interviewer_unavailable", TRUE)
      OBVIOUS
    <3>2. Longer(sock'.down, sock.down, g) /\ g.type = "error" /\ g.recoverable
      BY <1>1, <2>2, <3>1, OneLonger, SockSeqs DEF SendsOne, Now, ErrorFrame
    <3>3. Len(sock.down) + 1 \in DOMAIN sock'.down /\ sock'.down[Len(sock.down) + 1] = g
      BY <3>2 DEF Longer
    <3>4. QED
      BY <3>2, <3>3 DEF Failing
  <2>3. QED
    BY <1>2, <1>3, <2>1, <2>2
<1> SUFFICES ASSUME NEW k \in DOMAIN page.log, page.log[k].who = "respondent", Len(interviews) = 1
             PROVE  Answered(page', sock', interviews', k)
  BY <1>2, <1>5 DEF Accounted
<1>11. Answered(page, sock, interviews, k)
  BY DEF Accounted
<1>12. ~Hush(sock)
  BY <1>2, <1>8 DEF Hush
<1>13. InUp(sock, page.log[k].n) => InUp(sock', page.log[k].n) \/ page.log[k].n = n
  BY <1>3, <1>7, <1>8 DEF InUp
<1>14. Failing(sock) => Failing(sock')
  BY <1>7, <1>9 DEF Failing, Longer
<1>15. Restoring(page, sock) => Restoring(page', sock')
  BY <1>2, <1>5, <1>7, <1>9 DEF Restoring, Returns, Longer
<1>16. RecordedIn(interviews, page.log[k].n) => RecordedIn(interviews', page.log[k].n)
  BY RecordedIs
<1>17. QED
  BY <1>2, <1>10, <1>11, <1>12, <1>13, <1>14, <1>15, <1>16 DEF Answered

\* A frame the page takes.
LEMMA MessageAccounted ==
  ASSUME Talking, TextOn(page), TextOn(page'), Accounted(page, sock, interviews), OnMessage
  PROVE  Accounted(page', sock', interviews')
<1>1. /\ Parts /\ LedgerInv /\ SockInv /\ LinesInv /\ SockShape(sock, late) /\ PageShape(page, sock, late)
      /\ HonestInv(sock, late, interviews)
  BY DEF Talking, Scene
<1>2. PICK f : /\ HonestFrame(f, interviews) /\ Understands(f)
               /\ (TakesCurrent(f) \/ TakesEarlier(f))
  BY <1>1, OnMessageIs
<1>3. UNCHANGED interviews
  BY DEF OnMessage, serverVars
<1>4. Len(interviews) # 0
  <2>1. ASSUME Len(interviews) = 0 PROVE FALSE
    <3>1. f = ErrorFrame("campaign_not_live", FALSE)
      BY <1>2, <2>1 DEF HonestFrame
    <3>2. Ends(f) /\ f.type = "error" /\ ~f.recoverable /\ f.reason = "campaign_not_live"
      BY <3>1 DEF Ends, ErrorFrame
    <3>3. page'.info = "unavailable"
      BY <1>2, <3>2 DEF Understands, Shows
    <3>4. QED
      BY <3>3 DEF TextOn
  <2>2. QED
    BY <2>1
<1> SUFFICES ASSUME NEW k \in DOMAIN page'.log, page'.log[k].who = "respondent", Len(interviews) = 1
             PROVE  Answered(page', sock', interviews', k)
  BY <1>3, <1>4 DEF Accounted
<1>5. IsSeq(sock.down) /\ IsSeq(page.log)
  BY <1>1, SockSeqs DEF PageShape
<1>6. CASE TakesEarlier(f)
  <2>1. page.dropped
    BY <1>1, <1>6 DEF TakesEarlier, PageShape
  <2>2. page'.dropped
    BY <1>2, <2>1 DEF Understands, Shows
  <2>3. QED
    BY <2>2 DEF Answered, Restoring
<1>7. CASE Ends(f)
  <2>1. page'.dropped
    BY <1>2, <1>7 DEF Understands, Shows, Ends, TextOn
  <2>2. QED
    BY <2>1 DEF Answered, Restoring
<1>8. CASE f.type = "error" /\ f.recoverable
  <2>1. page'.log = Notice(page.log)
    BY <1>2, <1>8 DEF Understands, Shows, Ends
  <2>2. Noted(page'.log, k)
    BY <1>5, <2>1, NoticeIs
  <2>3. QED
    BY <2>2 DEF Answered
<1>9. CASE f.type = "hello" /\ f.resumed
  <2>1. page'.log = IF f.history = <<>> THEN <<Line("interviewer", 0)>> ELSE f.history
    BY <1>2, <1>9 DEF Understands, Shows, Ends
  <2>2. f.history # <<>>
    <3>1. PICK l : l = Line("interviewer", 0)
      OBVIOUS
    <3>2. DOMAIN <<l>> = {1} /\ <<l>>[1] = l /\ l.who # "respondent"
      BY <3>1 DEF Line
    <3>3. QED
      BY <2>1, <3>1, <3>2
  <2>3. RecordedIn(interviews, page'.log[k].n)
    BY <1>2, <1>9, <2>1, <2>2 DEF HonestFrame
  <2>4. QED
    BY <1>3, <2>3 DEF Answered
<1>10. CASE TakesCurrent(f) /\ ((f.type = "hello" /\ ~f.resumed) \/ f.type = "turn")
  <2>1. ~Ends(f)
    BY <1>10 DEF Ends
  <2>2. /\ sock.kind = "text" /\ sock.st \in {"open", "ending"} /\ sock.down # <<>> /\ f = Head(sock.down)
        /\ Now("text", sock.st, sock.id, sock.up, Tail(sock.down))
    BY <1>10, <2>1 DEF TakesCurrent
  <2>3. PICK down : down = Tail(sock.down)
    OBVIOUS
  <2>4. f = sock.down[1] /\ 1 \in DOMAIN sock.down
        /\ (\A j \in DOMAIN sock.down : j = 1 \/ (j - 1 \in DOMAIN down /\ down[j - 1] = sock.down[j]))
        /\ (\A j \in DOMAIN down : j + 1 \in DOMAIN sock.down /\ down[j] = sock.down[j + 1])
    BY <1>5, <2>2, <2>3 DEF IsSeq
  <2>5. sock'.st = sock.st /\ sock'.id = sock.id /\ sock'.up = sock.up /\ sock'.down = down
    BY <2>2, <2>3 DEF Now
  <2>6. sock.st # "ending"
    <3>1. ASSUME NEW reason, sock.down = <<ErrorFrame(reason, FALSE)>> PROVE FALSE
      <4>1. f = ErrorFrame(reason, FALSE)
        BY <2>2, <3>1
      <4>2. QED
        BY <2>1, <4>1 DEF Ends, ErrorFrame
    <3>2. QED
      BY <1>1, <3>1 DEF SockShape
  <2>7. ~(sock.st = "open" /\ sock.id = 0)
    BY <1>1, <2>2 DEF SockShape
  <2>8. Restoring(page, sock) => page.dropped \/ ~page.connected
    BY <1>10, <2>2, <2>6, <2>7 DEF Restoring, Returns
  <2>9. page'.dropped = page.dropped /\ page'.connected = page.connected
    BY <1>2, <1>10, <2>1 DEF Understands, Shows
  <2>10. Restoring(page, sock) => Restoring(page', sock')
    BY <2>8, <2>9 DEF Restoring
  <2>11. Failing(sock) => Failing(sock')
    BY <1>10, <2>4, <2>5 DEF Failing
  <2>12. \A n : InUp(sock, n) => InUp(sock', n)
    BY <2>5 DEF InUp
  <2>13. CASE f.type = "hello"
    <3>1. Shows(page.info, page.phase, page.mode,
                IF page.log = <<>> THEN <<Line("interviewer", 0)>> ELSE page.log,
                page.connected, page.dropped, page.awaiting)
      BY <1>2, <1>10, <2>1, <2>13 DEF Understands
    <3>2. page.log # <<>> /\ page'.log = page.log
      <4>1. PICK l : l = Line("interviewer", 0)
        OBVIOUS
      <4>2. DOMAIN <<l>> = {1} /\ <<l>>[1] = l /\ l.who # "respondent"
        BY <4>1 DEF Line
      <4>3. page'.log = IF page.log = <<>> THEN <<l>> ELSE page.log
        BY <3>1, <4>1 DEF Shows
      <4>4. QED
        BY <4>2, <4>3
    <3>3. Answered(page, sock, interviews, k)
      BY <3>2 DEF Accounted
    <3>4. Hush(sock) => Hush(sock')
      BY <2>4, <2>5 DEF Hush
    <3>5. Waits(page, k) => Waits(page', k)
      BY <3>1, <3>2 DEF Waits, Shows
    <3>6. QED
      BY <1>3, <2>10, <2>11, <2>12, <3>2, <3>3, <3>4, <3>5 DEF Answered
  <2>14. CASE f.type = "turn"
    <3>1. PICK l : l = Line("interviewer", f.n)
      OBVIOUS
    <3>2. PICK q : q = page'.log
      OBVIOUS
    <3>3. q = Append(Settled(page.log), l)
      BY <1>2, <2>1, <2>14, <3>1, <3>2 DEF Understands, Shows
    <3>4. GoesOn(q, page.log, l) /\ l.who # "respondent"
      BY <1>5, <3>1, <3>3, LogGoesOn DEF Line
    <3>5. PICK j \in DOMAIN page.log : page.log[j] = q[k] /\ (Noted(page.log, j) => Noted(q, k))
      BY <1>5, <3>2, <3>4, NotedStays
    <3>6. Answered(page, sock, interviews, j)
      BY <3>2, <3>5 DEF Accounted
    <3>7. ~Hush(sock)
      BY <2>4, <2>14 DEF Hush, Answers
    <3>8. QED
      BY <1>3, <2>10, <2>11, <2>12, <3>2, <3>5, <3>6, <3>7 DEF Answered
  <2>15. QED
    BY <1>10, <2>13, <2>14
<1>11. QED
  BY <1>2, <1>6, <1>7, <1>8, <1>9, <1>10 DEF Understands

\* The respondent answers; the watchdog gives up.
LEMMA SpeechAccounted ==
  ASSUME Talking, Outgrows(interviews', interviews), TextOn(page), Accounted(page, sock, interviews),
         SendReply \/ Watchdog
  PROVE  Accounted(page', sock', interviews')
<1>1. /\ Parts /\ SockInv /\ LinesInv /\ SockShape(sock, late) /\ PageShape(page, sock, late)
  BY DEF Talking, Scene
<1>2. IsSeq(page.log)
  BY <1>1 DEF PageShape
<1>3. CASE Watchdog
  <2>1. page'.log = Notice(page.log)
    BY <1>1, <1>3, WatchdogIs DEF Shows
  <2>2. ASSUME NEW k \in DOMAIN page'.log, page'.log[k].who = "respondent" PROVE Noted(page'.log, k)
    BY <1>2, <2>1, <2>2, NoticeIs
  <2>3. QED
    BY <2>2 DEF Accounted, Pending, Answered
<1>4. CASE SendReply /\ sock.st = "connecting"
  <2>1. UNCHANGED <<interviews, sock>> /\ ~page.awaiting /\ SaysUnsent
    BY <1>1, <1>4, SendReplyIs
  <2>2. PICK l, log : l = Line("unsent", replies') /\ log = Append(page.log, l)
    OBVIOUS
  <2>3. Longer(log, page.log, l) /\ l.who # "respondent"
    BY <1>2, <2>2, OneLonger DEF Line
  <2>4. page'.log = log /\ page'.dropped = page.dropped /\ page'.connected = page.connected
    BY <2>1, <2>2 DEF Shows, SaysUnsent
  <2>5. Restoring(page, sock) => Restoring(page', sock')
    BY <2>1, <2>4 DEF Restoring
  <2>6. ASSUME NEW k \in DOMAIN log, log[k].who = "respondent" PROVE AnsweredAt(page', sock', interviews', k)
    <3>1. k \in DOMAIN page.log /\ log[k] = page.log[k]
      BY <2>3, <2>6 DEF Longer
    <3>2. AnsweredAt(page, sock, interviews, k)
      BY <2>6, <3>1 DEF Accounted, AnsweredAt
    <3>3. Noted(page.log, k) => Noted(log, k)
      BY <2>3 DEF Noted, Longer
    <3>4. ~Waits(page, k)
      BY <2>1 DEF Waits
    <3>5. QED
      BY <2>1, <2>4, <2>5, <3>1, <3>2, <3>3, <3>4 DEF AnsweredAt, Pending, Answered
  <2>7. QED
    BY <2>4, <2>6 DEF Accounted, AnsweredAt
<1>5. CASE SendReply /\ sock.st # "connecting"
  <2>1. /\ UNCHANGED interviews /\ ~page.awaiting
        /\ IF sock.st = "open"
           THEN Now(sock.kind, sock.st, sock.id, Append(sock.up, [type |-> "reply", n |-> replies']), sock.down)
           ELSE sock' = sock
        /\ SaysSent
    BY <1>1, <1>5, SendReplyIs
  <2>2. PICK n, l, m : n = replies' /\ l = Line("respondent", n) /\ m = Line("pending", 0)
    OBVIOUS
  <2>3. PICK log : log = page.log \o <<l, m>>
    OBVIOUS
  <2>4. /\ DOMAIN page.log = 1 .. Len(page.log) /\ Len(page.log) \in Nat /\ DOMAIN log = 1 .. Len(page.log) + 2
        /\ \A j \in DOMAIN page.log : log[j] = page.log[j]
        /\ log[Len(page.log) + 1] = l /\ log[Len(page.log) + 2] = m
    <3>1. PICK S : page.log \in Seq(S)
      BY <1>2 DEF IsSeq
    <3>2. page.log \in Seq(S \union {l, m}) /\ <<l, m>> \in Seq(S \union {l, m})
      BY <3>1
    <3>3. /\ Len(page.log) \in Nat /\ log \in Seq(S \union {l, m})
          /\ Len(log) = Len(page.log) + 2
          /\ \A j \in 1 .. Len(page.log) : log[j] = page.log[j]
          /\ log[Len(page.log) + 1] = l /\ log[Len(page.log) + 2] = m
      BY <2>3, <3>2
    <3>4. QED
      BY <3>1, <3>3
  <2>5. page'.log = log /\ page'.awaiting /\ page'.dropped = page.dropped /\ page'.connected = page.connected
    BY <2>1, <2>2, <2>3 DEF Shows, SaysSent
  <2>6. m.who # "respondent" /\ l.n = n
    BY <2>2 DEF Line
  <2>7. /\ \A i : InUp(sock, i) => InUp(sock', i)
        /\ InUp(sock', n) \/ Hush(sock')
        /\ sock'.down = sock.down /\ sock'.st = sock.st /\ sock'.id = sock.id
    <3>1. CASE sock.st = "open"
      <4>1. PICK f : f = [type |-> "reply", n |-> n]
        OBVIOUS
      <4>2. PICK up : up = Append(sock.up, f)
        OBVIOUS
      <4>3. Longer(up, sock.up, f)
        BY <1>1, <4>2, OneLonger, SockSeqs
      <4>4. sock'.up = up /\ sock'.down = sock.down /\ sock'.st = sock.st /\ sock'.id = sock.id
        BY <2>1, <2>2, <3>1, <4>1, <4>2 DEF Now
      <4>5. \A i : InUp(sock, i) => InUp(sock', i)
        BY <4>3, <4>4 DEF InUp, Longer
      <4>6. Len(sock.up) + 1 \in DOMAIN up /\ up[Len(sock.up) + 1] = f
        BY <4>3 DEF Longer
      <4>7. InUp(sock', n)
        BY <4>1, <4>4, <4>6 DEF InUp
      <4>8. QED
        BY <4>4, <4>5, <4>7
    <3>2. CASE sock.st # "open"
      <4>1. sock' = sock /\ sock.up = <<>>
        BY <1>1, <2>1, <3>2 DEF SockShape
      <4>2. DOMAIN <<>> = {}
        OBVIOUS
      <4>3. \A j \in DOMAIN sock.down : ~Answers(sock.down[j])
        <5>1. ASSUME NEW reason, sock.down = <<ErrorFrame(reason, FALSE)>>
              PROVE  \A j \in DOMAIN sock.down : ~Answers(sock.down[j])
          <6>1. PICK f : f = ErrorFrame(reason, FALSE)
            OBVIOUS
          <6>2. DOMAIN <<f>> = {1} /\ <<f>>[1] = f /\ ~Answers(f)
            BY <6>1 DEF ErrorFrame, Answers
          <6>3. QED
            BY <5>1, <6>1, <6>2
        <5>2. QED
          BY <1>1, <3>2, <4>2, <5>1 DEF SockShape
      <4>4. QED
        BY <4>1, <4>2, <4>3 DEF Hush
    <3>3. QED
      BY <3>1, <3>2
  <2>8. Restoring(page, sock) => Restoring(page', sock')
    BY <2>5, <2>7 DEF Restoring, Returns
  <2>9. Failing(sock) => Failing(sock')
    BY <2>7 DEF Failing
  <2>10. ASSUME NEW k \in DOMAIN log, log[k].who = "respondent" PROVE AnsweredAt(page', sock', interviews', k)
    <3>1. CASE k \in DOMAIN page.log
      <4>1. AnsweredAt(page, sock, interviews, k) /\ log[k] = page.log[k]
        BY <2>4, <2>10, <3>1 DEF Accounted, AnsweredAt
      <4>2. Noted(page.log, k) => Noted(log, k)
        BY <2>4 DEF Noted
      <4>3. ~Waits(page, k)
        BY <2>1 DEF Waits
      <4>4. QED
        BY <2>1, <2>5, <2>7, <2>8, <2>9, <4>1, <4>2, <4>3 DEF AnsweredAt, Pending, Answered
    <3>2. CASE k \notin DOMAIN page.log
      <4>1. k = Len(page.log) + 1
        <5>1. k = Len(page.log) + 1 \/ k = Len(page.log) + 2
          BY <2>4, <2>10, <3>2
        <5>2. QED
          BY <2>4, <2>6, <2>10, <5>1
      <4>2. \A j \in DOMAIN log : j > k => j = Len(page.log) + 2
        BY <2>4, <4>1
      <4>3. Waits(page', k)
        BY <2>4, <2>5, <2>6, <4>2 DEF Waits
      <4>4. log[k].n = n
        BY <2>4, <2>6, <4>1
      <4>5. QED
        BY <2>5, <2>7, <4>3, <4>4 DEF AnsweredAt, Pending, Answered
    <3>3. QED
      BY <3>1, <3>2
  <2>11. QED
    BY <2>5, <2>10 DEF Accounted, AnsweredAt
<1>6. QED
  BY <1>3, <1>4, <1>5

LEMMA AccountedKept ==
  ASSUME Talking, Accounted(page, sock, interviews), [Next]_vars, surface # "headless"
  PROVE  Accounted(page', sock', interviews')
<1> SUFFICES ASSUME TextOn(page') PROVE Accounted(page', sock', interviews')
  BY DEF Accounted
<1>1. Outgrows(interviews', interviews)
  BY LedgerMoves DEF Talking
<1>2. CASE Mute(page'.log)
  BY <1>2 DEF Accounted, Mute
<1>3. CASE /\ TextOn(page)
           /\ \/ Stays /\ UNCHANGED <<sock, late>> /\ Len(interviews') = Len(interviews)
              \/ Opened \/ Closed \/ StaleClose \/ Reconnect \/ Shake \/ Serve \/ OnMessage \/ SendReply
              \/ Watchdog
  <2>1. CASE \/ Stays /\ UNCHANGED <<sock, late>> /\ Len(interviews') = Len(interviews)
             \/ Opened \/ Closed \/ StaleClose \/ Reconnect
    BY <1>1, <1>3, <2>1, ConnectionAccounted
  <2>2. CASE Shake \/ Serve
    BY <1>1, <1>3, <2>2, ShakeAccounted, ServeAccounted
  <2>3. CASE OnMessage
    BY <1>3, <2>3, MessageAccounted
  <2>4. CASE SendReply \/ Watchdog
    BY <1>1, <1>3, <2>4, SpeechAccounted
  <2>5. QED
    BY <1>3, <2>1, <2>2, <2>3, <2>4
<1>4. QED
  BY <1>2, <1>3, TextSteps DEF Talking

TalkInv ==
  /\ surface = "headless" => page.info = "absent"
  /\ surface # "headless" =>
       WellSaid(interviews) /\ Scene(page, sock, late, interviews) /\ Accounted(page, sock, interviews)

LEMMA TalkStarts == Init => TalkInv
<1> SUFFICES ASSUME Init PROVE TalkInv
  OBVIOUS
<1>1. /\ page \in {Mounted(TRUE, FALSE), Absent} /\ (surface = "headless" => page = Absent)
      /\ sock = NoSock /\ late = <<>> /\ interviews = <<>>
  BY DEF Init, PageInit
<1>2. /\ DOMAIN <<>> = {} /\ <<>> \in Seq({})
  OBVIOUS
<1>3. /\ page.phase = "consent" /\ page.mode = "text" /\ page.log = <<>> /\ ~page.awaiting
      /\ page.info \in {"loading", "absent"} /\ (page = Absent => page.info = "absent")
  <2>1. PICK p : p = Mounted(TRUE, TRUE)
    OBVIOUS
  <2>2. IsPage(p) /\ p.phase = "consent" /\ p.mode = "text" /\ p.log = <<>> /\ ~p.awaiting
    BY <2>1 DEF Mounted, IsPage, PageFields
  <2>3. Absent = [p EXCEPT !.info = "absent"]
    BY <2>1 DEF Absent
  <2>4. CASE page = Absent
    BY <2>2, <2>3, <2>4 DEF IsPage, PageFields
  <2>5. CASE page = Mounted(TRUE, FALSE)
    <3>1. page.phase = "consent" /\ page.mode = "text" /\ page.log = <<>> /\ ~page.awaiting /\ page.info = "loading"
      BY <2>5 DEF Mounted
    <3>2. page # Absent
      <4>1. Absent.info = "absent"
        BY AbsentIs
      <4>2. QED
        BY <3>1, <4>1
    <3>3. QED
      BY <3>1, <3>2
  <2>6. QED
    BY <1>1, <2>4, <2>5
<1>4. sock.kind = "none" /\ sock.st = "closed" /\ sock.id = 0 /\ sock.up = <<>> /\ sock.down = <<>>
  BY <1>1 DEF NoSock
<1>5. WellSaid(interviews)
  BY <1>1, <1>2 DEF WellSaid
<1>6. PageShape(page, sock, late)
  BY <1>1, <1>2, <1>3, <1>4 DEF PageShape, Infos, IsSeq, TextOn
<1>7. SockShape(sock, late)
  BY <1>1, <1>2, <1>4 DEF SockShape
<1>8. HonestInv(sock, late, interviews)
  BY <1>1, <1>2, <1>4 DEF HonestInv, Honest
<1>9. Accounted(page, sock, interviews)
  BY <1>2, <1>3 DEF Accounted
<1>10. QED
  BY <1>1, <1>3, <1>5, <1>6, <1>7, <1>8, <1>9 DEF TalkInv, Scene

LEMMA TalkingIs ==
  ASSUME SiteInv, ClientInv, TalkInv, surface # "headless"
  PROVE  Talking
<1>1. WellSaid(interviews) /\ Scene(page, sock, late, interviews)
  BY DEF TalkInv
<1>2. page.info \in Infos /\ page.mode \in {"text", "voice"}
  BY <1>1 DEF Scene, PageShape
<1>3. Parts
  BY <1>2 DEF SiteInv, SockInv, PageInv, Parts
<1>4. QED
  BY <1>1, <1>3 DEF SiteInv, ClientInv, Talking

LEMMA TalkHolds == SiteInv /\ ClientInv /\ TalkInv /\ [Next]_vars => TalkInv'
<1> SUFFICES ASSUME SiteInv, ClientInv, TalkInv, [Next]_vars PROVE TalkInv'
  OBVIOUS
<1>1. UNCHANGED surface
  BY DEF Next, Embedded, Direct, Headless, vars
<1>2. CASE surface = "headless"
  <2>1. UNCHANGED page
    BY <1>2 DEF Next, Embedded, Direct, Headless, vars, pageVars
  <2>2. QED
    BY <1>1, <1>2, <2>1 DEF TalkInv
<1>3. CASE surface # "headless"
  <2>1. Talking /\ Accounted(page, sock, interviews)
    BY <1>3, TalkingIs DEF TalkInv
  <2>2. WellSaid(interviews')
    BY <1>3, <2>1, LedgerMoves DEF Talking
  <2>3. Scene(page', sock', late', interviews')
    BY <1>3, <2>1, SceneKept DEF Talking
  <2>4. Accounted(page', sock', interviews')
    BY <1>3, <2>1, AccountedKept
  <2>5. QED
    BY <1>1, <1>3, <2>2, <2>3, <2>4 DEF TalkInv
<1>4. QED
  BY <1>2, <1>3

LEMMA TalkAlways == Spec => []TalkInv
<1>1. Init => SiteInv /\ ClientInv /\ TalkInv
  BY SiteStarts, ClientStarts, TalkStarts
<1>2. QED
  BY SiteAlways, ClientAlways, TalkStarts, TalkHolds, PTL DEF Spec

\* As long as the respondent is in the interview they began, an answer that was
\* sent and that the page shows is in the interview's log once nothing is on its
\* way, or the page says that something went wrong; whatever is lost, sent again
\* or late.  Of a line the connecting socket refused it says nothing: that one
\* is shown and never sent, and the page does not say so.
THEOREM CapturedAnswersAreKept == Spec => []CapturedIsSaved
<1>1. SiteInv /\ ClientInv /\ TalkInv => CapturedIsSaved
  <2> SUFFICES ASSUME SiteInv, ClientInv, TalkInv, Screen = "text", Len(interviews) = 1,
                      NEW k \in DOMAIN page.log, page.log[k].who = "respondent"
               PROVE  Vouched(k)
    BY DEF CapturedIsSaved
  <2>1. page.info # "absent"
    BY DEF Screen
  <2>2. Talking /\ Accounted(page, sock, interviews)
    BY <2>1, TalkingIs DEF TalkInv
  <2>3. TextOn(page)
    BY <2>2, ScreenIs DEF Talking
  <2>4. Answered(page, sock, interviews, k)
    BY <2>2, <2>3 DEF Accounted
  <2>5. CASE Noted(page.log, k)
    <3>1. IsSeq(page.log)
      BY <2>2 DEF Talking, Scene, PageShape
    <3>2. DOMAIN page.log = 1 .. Len(page.log) /\ Len(page.log) \in Nat
      BY <3>1 DEF IsSeq
    <3>3. QED
      BY <2>5, <3>2 DEF Noted, Vouched
  <2>6. CASE InUp(sock, page.log[k].n)
    BY <2>6 DEF InUp, Underway, Vouched
  <2>7. CASE Waits(page, k)
    BY <2>7 DEF Waits, Vouched
  <2>8. CASE RecordedIn(interviews, page.log[k].n)
    BY <2>8 DEF RecordedIn, Recorded, Vouched
  <2>9. CASE Failing(sock)
    <3>1. DOMAIN <<>> = {}
      OBVIOUS
    <3>2. QED
      BY <2>9, <3>1 DEF Failing, Vouched
  <2>10. CASE Restoring(page, sock)
    <3>1. sock.st = "ending" => sock.down # <<>>
      <4>1. ASSUME NEW reason, sock.down = <<ErrorFrame(reason, FALSE)>> PROVE sock.down # <<>>
        BY <4>1
      <4>2. QED
        BY <2>2, <4>1 DEF Talking, Scene, SockShape
    <3>2. sock.st = "open" /\ sock.id = 0 => sock.up # <<>>
      BY <2>2 DEF Talking, SockInv
    <3>3. QED
      BY <2>10, <3>1, <3>2 DEF Restoring, Returns, Vouched
  <2>11. QED
    BY <2>4, <2>5, <2>6, <2>7, <2>8, <2>9, <2>10 DEF Answered
<1>2. QED
  BY <1>1, SiteAlways, ClientAlways, TalkAlways, PTL

-----------------------------------------------------------------------------
(* The order of the questions.                                             *)

Question(n) == Line("interviewer", n)
Put(lines, l) == \E a \in DOMAIN lines : lines[a] = l

\* The questions of a log are in lines, in the same order.
LogIn(lines, log) ==
  /\ \A k \in DOMAIN log : log[k].who = "interviewer" => Put(lines, log[k])
  /\ \A j, k \in DOMAIN log :
       j < k /\ log[j].who = "interviewer" /\ log[k].who = "interviewer" => Precedes(lines, log[j], log[k])

\* So are the turns under way; only the first frame is a greeting.
TurnsIn(lines, q) ==
  /\ \A k \in DOMAIN q :
       /\ k > 1 => q[k].type # "hello"
       /\ q[k].type = "turn" => q[k].n # 0 /\ Put(lines, Question(q[k].n))
  /\ \A j, k \in DOMAIN q :
       j < k /\ q[j].type = "turn" /\ q[k].type = "turn" =>
         Precedes(lines, Question(q[j].n), Question(q[k].n))

\* They come after the questions of the log they will be added to.
TurnsAfter(lines, log, q) ==
  \A j \in DOMAIN log : \A k \in DOMAIN q :
    log[j].who = "interviewer" /\ q[k].type = "turn" => Precedes(lines, log[j], Question(q[k].n))
Base(log, q) == IF Returns(q) THEN Head(q).history ELSE log

QueueIn(lines, log, q) ==
  TurnsIn(lines, q) /\ LogIn(lines, Base(log, q)) /\ TurnsAfter(lines, Base(log, q), q)

Beginning(was, lines) == \A a \in DOMAIN was : a \in DOMAIN lines /\ lines[a] = was[a]

\* It stays so as the interview goes on.
LEMMA OrderLasts ==
  ASSUME NEW was, NEW lines, Beginning(was, lines), NEW log, NEW q
  PROVE  (LogIn(was, log) => LogIn(lines, log)) /\ (QueueIn(was, log, q) => QueueIn(lines, log, q))
<1>1. \A l : Put(was, l) => Put(lines, l)
  BY DEF Put, Beginning
<1>2. \A l, m : Precedes(was, l, m) => Precedes(lines, l, m)
  BY DEF Precedes, Beginning
<1>3. \A r : LogIn(was, r) => LogIn(lines, r)
  BY <1>1, <1>2 DEF LogIn
<1>4. TurnsIn(was, q) => TurnsIn(lines, q)
  BY <1>1, <1>2 DEF TurnsIn
<1>5. \A r : TurnsAfter(was, r, q) => TurnsAfter(lines, r, q)
  BY <1>2 DEF TurnsAfter
<1>6. QED
  BY <1>3, <1>4, <1>5 DEF QueueIn

\* A log that has no questions but those of another, in their order.
Within(log, was) ==
  \E g : \A k \in DOMAIN log :
    log[k].who = "interviewer" =>
      /\ g[k] \in DOMAIN was /\ was[g[k]] = log[k]
      /\ \A j \in DOMAIN log : j < k /\ log[j].who = "interviewer" => g[j] < g[k]

LEMMA WithinIsIn ==
  ASSUME NEW log, NEW was, Within(log, was), NEW lines, NEW q
  PROVE  (LogIn(lines, was) => LogIn(lines, log)) /\ (QueueIn(lines, was, q) => QueueIn(lines, log, q))
<1>1. PICK g : \A k \in DOMAIN log :
    log[k].who = "interviewer" =>
      /\ g[k] \in DOMAIN was /\ was[g[k]] = log[k]
      /\ \A j \in DOMAIN log : j < k /\ log[j].who = "interviewer" => g[j] < g[k]
  BY DEF Within
<1>2. LogIn(lines, was) => LogIn(lines, log)
  <2> SUFFICES ASSUME LogIn(lines, was) PROVE LogIn(lines, log)
    OBVIOUS
  <2>1. \A k \in DOMAIN log : log[k].who = "interviewer" => Put(lines, log[k])
    BY <1>1 DEF LogIn
  <2>2. ASSUME NEW j \in DOMAIN log, NEW k \in DOMAIN log,
               j < k, log[j].who = "interviewer", log[k].who = "interviewer"
        PROVE  Precedes(lines, log[j], log[k])
    <3>1. /\ g[j] \in DOMAIN was /\ was[g[j]] = log[j] /\ g[k] \in DOMAIN was /\ was[g[k]] = log[k]
          /\ g[j] < g[k]
      BY <1>1, <2>2
    <3>2. QED
      BY <2>2, <3>1 DEF LogIn
  <2>3. QED
    BY <2>1, <2>2 DEF LogIn
<1>3. TurnsAfter(lines, was, q) => TurnsAfter(lines, log, q)
  BY <1>1 DEF TurnsAfter
<1>4. QED
  BY <1>2, <1>3 DEF QueueIn, Base

\* The bubble goes and a line is said.
LEMMA GoesOnIn ==
  ASSUME NEW q, NEW log, NEW l, IsSeq(log), GoesOn(q, log, l), NEW lines, LogIn(lines, log)
  PROVE  /\ l.who # "interviewer" => Within(q, log)
         /\ l.who = "interviewer" /\ Put(lines, l)
            /\ (\A k \in DOMAIN log : log[k].who = "interviewer" => Precedes(lines, log[k], l))
            => LogIn(lines, q) /\ \A k \in DOMAIN q : q[k].who = "interviewer" => q[k] = l \/ Put(log, q[k])
<1>1. PICK r : Kept(r, log) /\ Longer(q, r, l)
  BY DEF GoesOn
<1>2. PICK g : Embeds(g, r, log)
  BY <1>1 DEF Kept
<1>3. /\ \A k \in DOMAIN q : (k \in DOMAIN r /\ q[k] = r[k] /\ k < Len(r) + 1) \/ (k = Len(r) + 1 /\ q[k] = l)
      /\ Len(r) \in Nat /\ DOMAIN q \subseteq Nat
  <2>1. \A k \in DOMAIN q : k \in 1 .. Len(r) + 1
    BY <1>1 DEF Longer
  <2>2. QED
    BY <1>1, <2>1 DEF Longer
<1>4. \A k \in DOMAIN r : g[k] \in DOMAIN log /\ log[g[k]] = r[k] /\ \A j \in DOMAIN r : j < k => g[j] < g[k]
  BY <1>2 DEF Embeds
<1>5. ASSUME l.who # "interviewer" PROVE Within(q, log)
  <2>1. \A k \in DOMAIN q : q[k].who = "interviewer" => k \in DOMAIN r /\ q[k] = r[k]
    BY <1>3, <1>5
  <2>2. QED
    BY <1>4, <2>1 DEF Within
<1>6. ASSUME l.who = "interviewer", Put(lines, l),
             \A k \in DOMAIN log : log[k].who = "interviewer" => Precedes(lines, log[k], l)
      PROVE  LogIn(lines, q) /\ \A k \in DOMAIN q : q[k].who = "interviewer" => q[k] = l \/ Put(log, q[k])
  <2>1. ASSUME NEW k \in DOMAIN q, q[k].who = "interviewer"
        PROVE  Put(lines, q[k]) /\ (q[k] = l \/ Put(log, q[k]))
    <3>1. CASE q[k] = l
      BY <1>6, <3>1
    <3>2. CASE q[k] # l
      <4>1. k \in DOMAIN r /\ g[k] \in DOMAIN log /\ log[g[k]] = q[k]
        BY <1>3, <1>4, <2>1, <3>2
      <4>2. QED
        BY <2>1, <4>1 DEF LogIn, Put
    <3>3. QED
      BY <3>1, <3>2
  <2>2. ASSUME NEW j \in DOMAIN q, NEW k \in DOMAIN q, j < k, q[j].who = "interviewer", q[k].who = "interviewer"
        PROVE  Precedes(lines, q[j], q[k])
    <3>1. j \in DOMAIN r /\ q[j] = r[j]
      BY <1>3, <2>2
    <3>2. g[j] \in DOMAIN log /\ log[g[j]] = q[j]
      BY <1>4, <3>1
    <3>3. CASE k = Len(r) + 1
      BY <1>3, <1>6, <2>2, <3>2, <3>3
    <3>4. CASE k # Len(r) + 1
      <4>1. k \in DOMAIN r /\ q[k] = r[k]
        BY <1>3, <2>2, <3>4
      <4>2. g[k] \in DOMAIN log /\ log[g[k]] = q[k] /\ g[j] < g[k]
        BY <1>4, <2>2, <3>1, <4>1
      <4>3. QED
        BY <2>2, <3>2, <4>2 DEF LogIn
    <3>5. QED
      BY <3>3, <3>4
  <2>3. QED
    BY <2>1, <2>2 DEF LogIn
<1>7. QED
  BY <1>5, <1>6

\* The frames that are left of a connection.
LEMMA QueuePart ==
  ASSUME NEW lines, NEW log, LogIn(lines, log), NEW q, IsSeq(q), QueueIn(lines, log, q), NEW k \in 0 .. Len(q)
  PROVE  QueueIn(lines, log, <<>>) /\ QueueIn(lines, log, SubSeq(q, 1, k))
<1>1. DOMAIN <<>> = {}
  OBVIOUS
<1>2. QueueIn(lines, log, <<>>)
  BY <1>1 DEF QueueIn, TurnsIn, TurnsAfter, Base, Returns
<1>3. PICK S : q \in Seq(S)
  BY DEF IsSeq
<1>4. PICK r : r = SubSeq(q, 1, k)
  OBVIOUS
<1>5. CASE k = 0
  <2>1. r = <<>>
    BY <1>3, <1>4, <1>5
  <2>2. QED
    BY <1>2, <1>4, <2>1
<1>6. CASE k # 0
  <2>1. q # <<>> /\ r # <<>> /\ Head(r) = Head(q) /\ \A j \in DOMAIN r : j \in DOMAIN q /\ r[j] = q[j]
    BY <1>3, <1>4, <1>6
  <2>2. TurnsIn(lines, r)
    BY <2>1 DEF QueueIn, TurnsIn
  <2>3. Base(log, r) = Base(log, q)
    BY <2>1 DEF Base, Returns
  <2>4. TurnsAfter(lines, Base(log, r), r)
    BY <2>1, <2>3 DEF QueueIn, TurnsAfter
  <2>5. QueueIn(lines, log, r)
    BY <2>2, <2>3, <2>4 DEF QueueIn
  <2>6. QED
    BY <1>2, <1>4, <2>5
<1>7. QED
  BY <1>5, <1>6

\* A frame alone.
LEMMA OneQueued ==
  ASSUME NEW lines, NEW log, NEW f, f.type # "turn",
         IF f.type = "hello" /\ f.resumed THEN LogIn(lines, f.history) ELSE LogIn(lines, log)
  PROVE  QueueIn(lines, log, <<f>>)
<1>1. DOMAIN <<f>> = {1} /\ <<f>>[1] = f /\ Head(<<f>>) = f /\ <<f>> # <<>>
  OBVIOUS
<1>2. PICK q : q = <<f>>
  OBVIOUS
<1>3. DOMAIN q = {1} /\ q[1] = f /\ Head(q) = f /\ q # <<>>
  BY <1>1, <1>2
<1>4. LogIn(lines, Base(log, q))
  BY <1>3 DEF Base, Returns
<1>5. TurnsIn(lines, q) /\ TurnsAfter(lines, Base(log, q), q)
  BY <1>3 DEF TurnsIn, TurnsAfter
<1>6. QED
  BY <1>2, <1>4, <1>5 DEF QueueIn

\* One frame more: the turn that has just been recorded, or an error.
LEMMA QueueMore ==
  ASSUME NEW was, NEW lines, NEW log, NEW q, IsSeq(q), QueueIn(was, log, q), NEW f, f.type # "hello",
         Beginning(was, lines),
         f.type = "turn" => f.n # 0 /\ TwoMore(lines, was, f.n)
  PROVE  QueueIn(lines, log, Append(q, f))
<1>1. QueueIn(lines, log, q)
  BY OrderLasts
<1>2. PICK r : r = Append(q, f)
  OBVIOUS
<1>3. Longer(r, q, f)
  BY <1>2, OneLonger
<1>4. /\ Len(q) \in Nat /\ DOMAIN q = 1 .. Len(q) /\ r # <<>>
      /\ \A k \in DOMAIN r : (k \in DOMAIN q /\ r[k] = q[k] /\ k < Len(q) + 1) \/ (k = Len(q) + 1 /\ r[k] = f)
  <2>1. \A k \in DOMAIN r : k \in 1 .. Len(q) + 1
    BY <1>3 DEF Longer
  <2>2. QED
    BY <1>3, <2>1 DEF Longer
<1>5. Base(log, r) = Base(log, q)
  <2>1. CASE q = <<>>
    <3>1. Head(r) = f
      <4>1. r = <<f>>
        BY <1>3, <2>1 DEF Longer
      <4>2. QED
        BY <4>1
    <3>2. QED
      BY <2>1, <3>1 DEF Base, Returns
  <2>2. CASE q # <<>>
    BY <1>3, <2>2 DEF Base, Returns, Longer
  <2>3. QED
    BY <2>1, <2>2
<1>6. ASSUME f.type = "turn"
      PROVE  /\ Put(lines, Question(f.n))
             /\ \A l : Put(was, l) => Precedes(lines, l, Question(f.n))
  <2>1. /\ Len(was) \in Nat /\ DOMAIN was = 1 .. Len(was) /\ DOMAIN lines = 1 .. Len(was) + 2
        /\ lines[Len(was) + 2] = Question(f.n)
    BY <1>6 DEF TwoMore, Question
  <2>2. Len(was) + 2 \in DOMAIN lines
    BY <2>1
  <2>3. ASSUME NEW a \in DOMAIN was PROVE Precedes(lines, was[a], Question(f.n))
    <3>1. a \in DOMAIN lines /\ lines[a] = was[a] /\ a < Len(was) + 2
      BY <2>1, <2>3 DEF Beginning
    <3>2. QED
      BY <2>1, <2>2, <3>1 DEF Precedes
  <2>4. QED
    BY <2>1, <2>2, <2>3 DEF Put
<1>7. TurnsIn(lines, r)
  <2>1. ASSUME NEW k \in DOMAIN r
        PROVE  /\ k > 1 => r[k].type # "hello"
               /\ r[k].type = "turn" => r[k].n # 0 /\ Put(lines, Question(r[k].n))
    BY <1>1, <1>4, <1>6, <2>1 DEF QueueIn, TurnsIn
  <2>2. ASSUME NEW j \in DOMAIN r, NEW k \in DOMAIN r, j < k, r[j].type = "turn", r[k].type = "turn"
        PROVE  Precedes(lines, Question(r[j].n), Question(r[k].n))
    <3>1. j \in DOMAIN q /\ r[j] = q[j]
      <4>1. k \in 1 .. Len(q) + 1 /\ j \in 1 .. Len(q) + 1
        BY <1>3, <2>2 DEF Longer
      <4>2. j # Len(q) + 1
        BY <1>4, <2>2, <4>1
      <4>3. QED
        BY <1>4, <2>2, <4>2
    <3>2. CASE k \in DOMAIN q /\ r[k] = q[k]
      BY <1>1, <2>2, <3>1, <3>2 DEF QueueIn, TurnsIn
    <3>3. CASE r[k] = f
      <4>1. Put(was, Question(q[j].n))
        BY <2>2, <3>1 DEF QueueIn, TurnsIn
      <4>2. QED
        BY <1>6, <2>2, <3>1, <3>3, <4>1
    <3>4. QED
      BY <1>4, <2>2, <3>2, <3>3
  <2>3. QED
    BY <2>1, <2>2 DEF TurnsIn
<1>8. TurnsAfter(lines, Base(log, r), r)
  <2>1. PICK base : base = Base(log, q)
    OBVIOUS
  <2>2. ASSUME NEW j \in DOMAIN base, NEW k \in DOMAIN r, base[j].who = "interviewer", r[k].type = "turn"
        PROVE  Precedes(lines, base[j], Question(r[k].n))
    <3>1. CASE k \in DOMAIN q /\ r[k] = q[k]
      BY <1>1, <2>1, <2>2, <3>1 DEF QueueIn, TurnsAfter
    <3>2. CASE r[k] = f
      <4>1. Put(was, base[j])
        BY <2>1, <2>2 DEF QueueIn, LogIn
      <4>2. QED
        BY <1>6, <2>2, <3>2, <4>1
    <3>3. QED
      BY <1>4, <2>2, <3>1, <3>2
  <2>3. QED
    BY <1>5, <2>1, <2>2 DEF TurnsAfter
<1>9. LogIn(lines, Base(log, r))
  BY <1>1, <1>5 DEF QueueIn
<1>10. QED
  BY <1>2, <1>7, <1>8, <1>9 DEF QueueIn

\* What a page with this log makes of a frame of an interview with these lines.
Logs(f, lines, log, new) ==
  \/ f.type = "hello" /\ new = IF f.resumed THEN f.history ELSE log
  \/ f.type = "hello" /\ new = <<Question(0)>> /\ 1 \in DOMAIN lines /\ lines[1] = Question(0)
  \/ f.type = "turn" /\ new = Append(Settled(log), Question(f.n))
  \/ f.type = "error" /\ Within(new, log)

LEMMA FrameTaken ==
  ASSUME NEW lines, IsSeq(lines), NEW log, IsSeq(log), NEW q, IsSeq(q), q # <<>>,
         QueueIn(lines, log, q), LogIn(lines, log), NEW new, Logs(Head(q), lines, log, new)
  PROVE  LogIn(lines, new) /\ QueueIn(lines, new, Tail(q))
<1>1. PICK f, t : f = Head(q) /\ t = Tail(q)
  OBVIOUS
<1>2. /\ f = q[1] /\ 1 \in DOMAIN q
      /\ \A k \in DOMAIN t : k \in Nat /\ k + 1 > 1 /\ k + 1 \in DOMAIN q /\ t[k] = q[k + 1]
      /\ t # <<>> => 1 \in DOMAIN t /\ Head(t) = t[1]
  BY <1>1 DEF IsSeq
<1>3. TurnsIn(lines, q) /\ LogIn(lines, Base(log, q)) /\ TurnsAfter(lines, Base(log, q), q)
  BY DEF QueueIn
<1>4. TurnsIn(lines, t)
  <2>1. ASSUME NEW k \in DOMAIN t
        PROVE  t[k].type # "hello" /\ (t[k].type = "turn" => t[k].n # 0 /\ Put(lines, Question(t[k].n)))
    BY <1>2, <1>3, <2>1 DEF TurnsIn
  <2>2. ASSUME NEW j \in DOMAIN t, NEW k \in DOMAIN t, j < k, t[j].type = "turn", t[k].type = "turn"
        PROVE  Precedes(lines, Question(t[j].n), Question(t[k].n))
    <3>1. j + 1 < k + 1
      BY <1>2, <2>2
    <3>2. QED
      BY <1>2, <1>3, <2>2, <3>1 DEF TurnsIn
  <2>3. QED
    BY <2>1, <2>2 DEF TurnsIn
<1>5. ~Returns(t)
  BY <1>2, <1>3 DEF TurnsIn, Returns
<1>6. ASSUME LogIn(lines, new), TurnsAfter(lines, new, t)
      PROVE  LogIn(lines, new) /\ QueueIn(lines, new, t)
  BY <1>4, <1>5, <1>6 DEF QueueIn, Base
<1>7. CASE f.type = "hello" /\ new = IF f.resumed THEN f.history ELSE log
  <2>1. Base(log, q) = new
    BY <1>1, <1>7 DEF Base, Returns
  <2>2. TurnsAfter(lines, new, t)
    BY <1>2, <1>3, <2>1 DEF TurnsAfter
  <2>3. QED
    BY <1>1, <1>3, <1>6, <2>1, <2>2
<1>8. CASE f.type = "hello" /\ new = <<Question(0)>> /\ 1 \in DOMAIN lines /\ lines[1] = Question(0)
  <2>1. PICK l : l = Question(0)
    OBVIOUS
  <2>2. DOMAIN <<l>> = {1} /\ <<l>>[1] = l
    OBVIOUS
  <2>3. DOMAIN new = {1} /\ new[1] = Question(0)
    BY <1>8, <2>1, <2>2
  <2>4. LogIn(lines, new)
    BY <1>8, <2>3 DEF LogIn, Put
  <2>5. ASSUME NEW n, n # 0, Put(lines, Question(n)) PROVE Precedes(lines, Question(0), Question(n))
    <3>1. PICK a \in DOMAIN lines : lines[a] = Question(n)
      BY <2>5 DEF Put
    <3>2. a # 1 /\ a \in 1 .. Len(lines) /\ Len(lines) \in Nat
      <4>1. Question(n) # Question(0)
        <5>1. Question(n).n = n /\ Question(0).n = 0
          BY DEF Question, Line
        <5>2. QED
          BY <2>5, <5>1
      <4>2. DOMAIN lines = 1 .. Len(lines) /\ Len(lines) \in Nat
        BY DEF IsSeq
      <4>3. QED
        BY <1>8, <3>1, <4>1, <4>2
    <3>3. 1 < a
      BY <3>2
    <3>4. QED
      BY <1>8, <3>1, <3>3 DEF Precedes
  <2>6. TurnsAfter(lines, new, t)
    BY <1>4, <2>3, <2>5 DEF TurnsIn, TurnsAfter
  <2>7. QED
    BY <1>1, <1>6, <2>4, <2>6
<1>9. CASE f.type = "turn" /\ new = Append(Settled(log), Question(f.n))
  <2>1. PICK l : l = Question(f.n)
    OBVIOUS
  <2>2. GoesOn(new, log, l) /\ l.who = "interviewer"
    BY <1>9, <2>1, LogGoesOn DEF Question, Line
  <2>3. Base(log, q) = log
    BY <1>1, <1>9 DEF Base, Returns
  <2>4. Put(lines, l) /\ \A k \in DOMAIN log : log[k].who = "interviewer" => Precedes(lines, log[k], l)
    BY <1>2, <1>3, <1>9, <2>1, <2>3 DEF TurnsIn, TurnsAfter
  <2>5. LogIn(lines, new) /\ \A k \in DOMAIN new : new[k].who = "interviewer" => new[k] = l \/ Put(log, new[k])
    BY <2>2, <2>4, GoesOnIn
  <2>6. ASSUME NEW j \in DOMAIN new, NEW k \in DOMAIN t, new[j].who = "interviewer", t[k].type = "turn"
        PROVE  Precedes(lines, new[j], Question(t[k].n))
    <3>1. CASE new[j] = l
      <4>1. 1 < k + 1 /\ k + 1 \in DOMAIN q /\ t[k] = q[k + 1]
        BY <1>2
      <4>2. QED
        BY <1>2, <1>3, <1>9, <2>1, <2>6, <3>1, <4>1 DEF TurnsIn
    <3>2. CASE Put(log, new[j])
      <4>1. PICK i \in DOMAIN log : log[i] = new[j]
        BY <3>2 DEF Put
      <4>2. k + 1 \in DOMAIN q /\ t[k] = q[k + 1]
        BY <1>2
      <4>3. QED
        BY <1>3, <2>3, <2>6, <4>1, <4>2 DEF TurnsAfter
    <3>3. QED
      BY <2>5, <2>6, <3>1, <3>2
  <2>7. QED
    BY <1>1, <1>6, <2>5, <2>6 DEF TurnsAfter
<1>10. CASE f.type = "error" /\ Within(new, log)
  <2>1. LogIn(lines, new) /\ QueueIn(lines, new, q)
    BY <1>10, WithinIsIn
  <2>2. Base(new, q) = new
    BY <1>1, <1>10 DEF Base, Returns
  <2>3. TurnsAfter(lines, new, t)
    BY <1>2, <2>1, <2>2 DEF QueueIn, TurnsAfter
  <2>4. QED
    BY <1>1, <1>6, <2>1, <2>3
<1>11. QED
  BY <1>1, <1>7, <1>8, <1>9, <1>10 DEF Logs

-----------------------------------------------------------------------------
(* Every reply has a number of its own, and is recorded once.              *)

UsedIn(m, n) == \E i \in DOMAIN m : \E a \in DOMAIN m[i].lines : m[i].lines[a].n = n

\* Of a reply that is waiting, or that outlives its connection, no line has the
\* number; of two questions of an interview neither has the other's.
Numbered(up, left, m, r) ==
  /\ r \in Nat /\ IsSeq(left) /\ IsSeq(up)
  /\ \A k \in DOMAIN up : up[k].type = "reply" => up[k].n \in 1 .. r /\ ~UsedIn(m, up[k].n)
  /\ \A j, k \in DOMAIN up :
       j < k /\ up[j].type = "reply" /\ up[k].type = "reply" => up[j].n # up[k].n
  /\ \A k \in DOMAIN left : left[k].n \in 1 .. r /\ ~UsedIn(m, left[k].n)
  /\ \A j, k \in DOMAIN left : j < k => left[j].n # left[k].n
  /\ \A j \in DOMAIN up : \A k \in DOMAIN left : up[j].type = "reply" => up[j].n # left[k].n
  /\ \A i \in DOMAIN m : \A a \in DOMAIN m[i].lines : m[i].lines[a].n \in 0 .. r
  /\ \A i \in DOMAIN m : \A a, b \in DOMAIN m[i].lines :
       a < b /\ m[i].lines[a].who = "interviewer" /\ m[i].lines[b].who = "interviewer" =>
         m[i].lines[a].n # m[i].lines[b].n

LEMMA NumberedPart ==
  ASSUME NEW up, NEW left, NEW m, NEW r, Numbered(up, left, m, r),
         NEW v, Part(v, up), NEW w, Part(w, left)
  PROVE  Numbered(v, w, m, r)
<1>1. IsSeq(v) /\ IsSeq(w)
  BY DEF Part
<1>2. PICK g : Embeds(g, v, up)
  BY DEF Part
<1>3. PICK h : Embeds(h, w, left)
  BY DEF Part
<1>4. /\ \A k \in DOMAIN v : g[k] \in DOMAIN up /\ v[k] = up[g[k]]
      /\ \A k \in DOMAIN w : h[k] \in DOMAIN left /\ w[k] = left[h[k]]
      /\ \A j, k \in DOMAIN v : j < k => g[j] < g[k]
      /\ \A j, k \in DOMAIN w : j < k => h[j] < h[k]
  BY <1>2, <1>3 DEF Embeds
<1>5. \A k \in DOMAIN v : v[k].type = "reply" => v[k].n \in 1 .. r /\ ~UsedIn(m, v[k].n)
  BY <1>4 DEF Numbered
<1>6. ASSUME NEW j \in DOMAIN v, NEW k \in DOMAIN v, j < k, v[j].type = "reply", v[k].type = "reply"
      PROVE  v[j].n # v[k].n
  <2>1. g[j] < g[k] /\ g[j] \in DOMAIN up /\ g[k] \in DOMAIN up /\ v[j] = up[g[j]] /\ v[k] = up[g[k]]
    BY <1>4, <1>6
  <2>2. QED
    BY <1>6, <2>1 DEF Numbered
<1>7. \A k \in DOMAIN w : w[k].n \in 1 .. r /\ ~UsedIn(m, w[k].n)
  BY <1>4 DEF Numbered
<1>8. ASSUME NEW j \in DOMAIN w, NEW k \in DOMAIN w, j < k PROVE w[j].n # w[k].n
  <2>1. h[j] < h[k] /\ h[j] \in DOMAIN left /\ h[k] \in DOMAIN left /\ w[j] = left[h[j]] /\ w[k] = left[h[k]]
    BY <1>4, <1>8
  <2>2. QED
    BY <2>1 DEF Numbered
<1>9. \A j \in DOMAIN v : \A k \in DOMAIN w : v[j].type = "reply" => v[j].n # w[k].n
  BY <1>4 DEF Numbered
<1>10. QED
  BY <1>1, <1>5, <1>6, <1>7, <1>8, <1>9 DEF Numbered

\* A reply more, given or lost.
LEMMA NumberedMore ==
  ASSUME NEW up, NEW left, NEW m, NEW r, Numbered(up, left, m, r)
  PROVE  /\ Numbered(up, left, m, r + 1)
         /\ Numbered(Append(up, [type |-> "reply", n |-> r + 1]), left, m, r + 1)
<1>1. r \in Nat /\ r + 1 \in Nat /\ \A n \in 0 .. r : n \in 0 .. r + 1 /\ n # r + 1
  BY DEF Numbered
<1>2. \A n \in 1 .. r : n \in 1 .. r + 1 /\ n # r + 1
  BY <1>1
<1>3. Numbered(up, left, m, r + 1)
  BY <1>1, <1>2 DEF Numbered
<1>4. ~UsedIn(m, r + 1) /\ r + 1 \in 1 .. r + 1
  BY <1>1 DEF Numbered, UsedIn
<1>5. PICK f : f = [type |-> "reply", n |-> r + 1]
  OBVIOUS
<1>6. PICK v : v = Append(up, f)
  OBVIOUS
<1>7. Longer(v, up, f)
  BY <1>6, OneLonger DEF Numbered
<1>8. \A k \in DOMAIN v : (k \in DOMAIN up /\ v[k] = up[k] /\ k < Len(up) + 1) \/ (k = Len(up) + 1 /\ v[k] = f)
  <2>1. \A k \in DOMAIN v : k \in 1 .. Len(up) + 1
    BY <1>7 DEF Longer
  <2>2. QED
    BY <1>7, <2>1 DEF Longer
<1>9. \A k \in DOMAIN v : v[k].type = "reply" => v[k].n \in 1 .. r + 1 /\ ~UsedIn(m, v[k].n)
  BY <1>3, <1>4, <1>5, <1>8 DEF Numbered
<1>10. ASSUME NEW j \in DOMAIN v, NEW k \in DOMAIN v, j < k, v[j].type = "reply", v[k].type = "reply"
       PROVE  v[j].n # v[k].n
  <2>1. j \in DOMAIN up /\ v[j] = up[j]
    <3>1. j \in 1 .. Len(up) + 1 /\ k \in 1 .. Len(up) + 1 /\ Len(up) \in Nat
      BY <1>7, <1>10 DEF Longer
    <3>2. QED
      BY <1>8, <1>10, <3>1
  <2>2. CASE k \in DOMAIN up /\ v[k] = up[k]
    BY <1>3, <1>10, <2>1, <2>2 DEF Numbered
  <2>3. CASE v[k] = f
    BY <1>2, <1>5, <1>10, <2>1, <2>3 DEF Numbered
  <2>4. QED
    BY <1>8, <2>2, <2>3
<1>11. \A j \in DOMAIN v : \A k \in DOMAIN left : v[j].type = "reply" => v[j].n # left[k].n
  BY <1>2, <1>5, <1>8 DEF Numbered
<1>12. Numbered(v, left, m, r + 1)
  BY <1>3, <1>7, <1>9, <1>10, <1>11 DEF Numbered, Longer
<1>13. QED
  BY <1>3, <1>5, <1>6, <1>12

\* The replies of a connection that is gone.
LEMMA NumberedLeft ==
  ASSUME NEW up, NEW left, NEW m, NEW r, Numbered(up, left, m, r), \A k \in DOMAIN up : up[k].type = "reply", NEW id
  PROVE  Numbered(<<>>, left \o [k \in DOMAIN up |-> [id |-> id, n |-> up[k].n]], m, r)
<1>1. PICK s : s = [k \in DOMAIN up |-> [id |-> id, n |-> up[k].n]]
  OBVIOUS
<1>2. DOMAIN up = 1 .. Len(up) /\ Len(up) \in Nat
  BY DEF Numbered, IsSeq
<1>3. PICK T : T = {s[k] : k \in DOMAIN up}
  OBVIOUS
<1>4. DOMAIN s = 1 .. Len(up) /\ s \in Seq(T) /\ Len(s) = Len(up)
      /\ \A k \in DOMAIN up : s[k].n = up[k].n
  <2>1. s = [k \in 1 .. Len(up) |-> [id |-> id, n |-> up[k].n]]
    BY <1>1, <1>2
  <2>2. \A k \in DOMAIN up : s[k].n = up[k].n
    BY <1>1
  <2>3. s \in [1 .. Len(up) -> T]
    BY <1>1, <1>2, <1>3, <2>1
  <2>4. QED
    BY <1>2, <2>1, <2>2, <2>3
<1>5. PICK S : left \in Seq(S)
  BY DEF Numbered, IsSeq
<1>6. PICK w : w = left \o s
  OBVIOUS
<1>7. /\ w \in Seq(S \union T) /\ Len(left) \in Nat /\ DOMAIN left = 1 .. Len(left)
      /\ DOMAIN w = 1 .. Len(left) + Len(up)
      /\ \A k \in 1 .. Len(left) : w[k] = left[k]
      /\ \A k \in 1 .. Len(up) : w[Len(left) + k] = s[k]
  <2>1. left \in Seq(S \union T) /\ s \in Seq(S \union T)
    BY <1>4, <1>5
  <2>2. w \in Seq(S \union T) /\ Len(left) \in Nat /\ DOMAIN left = 1 .. Len(left) /\ Len(w) = Len(left) + Len(up)
    BY <1>4, <1>6, <2>1
  <2>3. (\A k \in 1 .. Len(left) : w[k] = left[k]) /\ \A k \in 1 .. Len(s) : w[Len(left) + k] = s[k]
    BY <1>6, <2>1
  <2>4. QED
    BY <1>4, <2>2, <2>3
<1>8. \A k \in DOMAIN w : \/ k \in DOMAIN left /\ w[k] = left[k]
                          \/ k - Len(left) \in DOMAIN up /\ w[k].n = up[k - Len(left)].n /\ k > Len(left)
  <2>1. ASSUME NEW k \in DOMAIN w, k \notin DOMAIN left
        PROVE  k - Len(left) \in 1 .. Len(up) /\ Len(left) + (k - Len(left)) = k /\ k > Len(left)
    BY <1>2, <1>7, <2>1
  <2>2. QED
    BY <1>2, <1>4, <1>7, <2>1
<1>9. \A k \in DOMAIN w : w[k].n \in 1 .. r /\ ~UsedIn(m, w[k].n)
  BY <1>8 DEF Numbered
<1>10. ASSUME NEW j \in DOMAIN w, NEW k \in DOMAIN w, j < k PROVE w[j].n # w[k].n
  <2>1. j \in Nat /\ k \in Nat
    BY <1>2, <1>7
  <2>2. CASE k \in DOMAIN left
    <3>1. j \in DOMAIN left /\ w[j] = left[j] /\ w[k] = left[k]
      BY <1>7, <1>10, <2>1, <2>2
    <3>2. QED
      BY <1>10, <2>2, <3>1 DEF Numbered
  <2>3. CASE k \notin DOMAIN left
    <3>1. k - Len(left) \in DOMAIN up /\ w[k].n = up[k - Len(left)].n
      BY <1>8, <2>3
    <3>2. CASE j \in DOMAIN left
      BY <1>7, <3>1, <3>2 DEF Numbered
    <3>3. CASE j \notin DOMAIN left
      <4>1. j - Len(left) \in DOMAIN up /\ w[j].n = up[j - Len(left)].n /\ j - Len(left) < k - Len(left)
        BY <1>7, <1>8, <1>10, <2>1, <3>3
      <4>2. QED
        BY <3>1, <4>1 DEF Numbered
    <3>4. QED
      BY <3>2, <3>3
  <2>4. QED
    BY <2>2, <2>3
<1>11. DOMAIN <<>> = {} /\ IsSeq(<<>>) /\ IsSeq(w)
  <2>1. DOMAIN <<>> = {} /\ <<>> \in Seq({})
    OBVIOUS
  <2>2. QED
    BY <1>7, <2>1 DEF IsSeq
<1>12. Numbered(<<>>, w, m, r)
  BY <1>9, <1>10, <1>11 DEF Numbered
<1>13. QED
  BY <1>1, <1>6, <1>12

\* A reply is recorded, with its turn.
LEMMA NumberedTurn ==
  ASSUME NEW up, NEW left, NEW was, NEW r, Numbered(up, left, was, r),
         NEW m, NEW i, NEW n \in 1 .. r, TurnIn(m, was, i, n), ~UsedIn(was, n),
         \A k \in DOMAIN up : up[k].type = "reply" => up[k].n # n,
         \A k \in DOMAIN left : left[k].n # n
  PROVE  Numbered(up, left, m, r)
<1>1. ASSUME NEW h \in DOMAIN m, NEW a \in DOMAIN m[h].lines
      PROVE  /\ h \in DOMAIN was
             /\ \/ a \in DOMAIN was[h].lines /\ m[h].lines[a] = was[h].lines[a] /\ a \in 1 .. Len(was[h].lines)
                \/ /\ m[h].lines[a].n = n
                   /\ m[h].lines[a].who = "interviewer" => a = Len(was[h].lines) + 2
                   /\ Len(was[h].lines) \in Nat /\ DOMAIN m[h].lines = 1 .. Len(was[h].lines) + 2
  <2>1. h \in DOMAIN was
    BY <1>1 DEF TurnIn
  <2>2. CASE h # i
    <3>1. m[h].lines = was[h].lines
      BY <2>1, <2>2 DEF TurnIn
    <3>2. a \in 1 .. Len(was[h].lines)
      BY <1>1, <3>1 DEF TurnIn, IsLedger, IsSeq
    <3>3. QED
      BY <1>1, <2>1, <3>1, <3>2
  <2>3. CASE h = i
    <3>1. TwoMore(m[h].lines, was[h].lines, n)
      BY <2>1, <2>3 DEF TurnIn
    <3>2. CASE a \in DOMAIN was[h].lines
      BY <2>1, <3>1, <3>2 DEF TwoMore
    <3>3. CASE a \notin DOMAIN was[h].lines
      <4>1. a = Len(was[h].lines) + 1 \/ a = Len(was[h].lines) + 2
        BY <1>1, <3>1, <3>3 DEF TwoMore
      <4>2. Line("respondent", n).n = n /\ Line("respondent", n).who # "interviewer" /\ Line("interviewer", n).n = n
        BY DEF Line
      <4>3. QED
        BY <2>1, <3>1, <4>1, <4>2 DEF TwoMore
    <3>4. QED
      BY <3>2, <3>3
  <2>4. QED
    BY <2>2, <2>3
<1>2. ASSUME NEW x, UsedIn(m, x) PROVE UsedIn(was, x) \/ x = n
  <2>1. PICK h \in DOMAIN m : \E a \in DOMAIN m[h].lines : m[h].lines[a].n = x
    BY <1>2 DEF UsedIn
  <2>2. PICK a \in DOMAIN m[h].lines : m[h].lines[a].n = x
    BY <2>1
  <2>3. QED
    BY <1>1, <2>2 DEF UsedIn
<1>3. \A k \in DOMAIN up : up[k].type = "reply" => up[k].n \in 1 .. r /\ ~UsedIn(m, up[k].n)
  BY <1>2 DEF Numbered
<1>4. \A k \in DOMAIN left : left[k].n \in 1 .. r /\ ~UsedIn(m, left[k].n)
  BY <1>2 DEF Numbered
<1>5. ASSUME NEW h \in DOMAIN m, NEW a \in DOMAIN m[h].lines PROVE m[h].lines[a].n \in 0 .. r
  <2>1. r \in Nat /\ n \in 0 .. r
    BY DEF Numbered
  <2>2. QED
    BY <1>1, <1>5, <2>1 DEF Numbered
<1>6. ASSUME NEW h \in DOMAIN m, NEW a \in DOMAIN m[h].lines, NEW b \in DOMAIN m[h].lines,
             a < b, m[h].lines[a].who = "interviewer", m[h].lines[b].who = "interviewer"
      PROVE  m[h].lines[a].n # m[h].lines[b].n
  <2>1. CASE a \in DOMAIN was[h].lines /\ m[h].lines[a] = was[h].lines[a]
    <3>1. m[h].lines[a].n # n
      BY <1>1, <1>6, <2>1 DEF UsedIn
    <3>2. QED
      BY <1>1, <1>6, <2>1, <3>1 DEF Numbered
  <2>2. CASE /\ a = Len(was[h].lines) + 2
             /\ Len(was[h].lines) \in Nat /\ DOMAIN m[h].lines = 1 .. Len(was[h].lines) + 2
    BY <1>6, <2>2
  <2>3. QED
    BY <1>1, <1>6, <2>1, <2>2
<1>7. QED
  BY <1>3, <1>4, <1>5, <1>6 DEF Numbered

\* An interview is begun.
LEMMA NumberedBegun ==
  ASSUME NEW up, NEW left, NEW was, NEW r, Numbered(up, left, was, r), IsSeq(was),
         NEW i, i.lines = <<Question(0)>> \/ i.lines = <<>>
  PROVE  Numbered(up, left, Append(was, i), r)
<1>1. PICK m : m = Append(was, i)
  OBVIOUS
<1>2. Longer(m, was, i)
  BY <1>1, OneLonger
<1>3. \A h \in DOMAIN m : (h \in DOMAIN was /\ m[h] = was[h]) \/ m[h] = i
  BY <1>2 DEF Longer
<1>4. \A a \in DOMAIN i.lines : a = 1 /\ i.lines[a].n = 0
  <2>1. PICK l : l = Question(0)
    OBVIOUS
  <2>2. DOMAIN <<l>> = {1} /\ <<l>>[1] = l /\ DOMAIN <<>> = {} /\ l.n = 0
    BY <2>1 DEF Question, Line
  <2>3. QED
    BY <2>1, <2>2
<1>5. ASSUME NEW x, UsedIn(m, x) PROVE UsedIn(was, x) \/ x = 0
  <2>1. PICK h \in DOMAIN m : \E a \in DOMAIN m[h].lines : m[h].lines[a].n = x
    BY <1>5 DEF UsedIn
  <2>2. PICK a \in DOMAIN m[h].lines : m[h].lines[a].n = x
    BY <2>1
  <2>3. QED
    BY <1>3, <1>4, <2>2 DEF UsedIn
<1>6. r \in Nat /\ 0 \in 0 .. r /\ 0 \notin 1 .. r
  BY DEF Numbered
<1>7. \A k \in DOMAIN up : up[k].type = "reply" => up[k].n \in 1 .. r /\ ~UsedIn(m, up[k].n)
  BY <1>5, <1>6 DEF Numbered
<1>8. \A k \in DOMAIN left : left[k].n \in 1 .. r /\ ~UsedIn(m, left[k].n)
  BY <1>5, <1>6 DEF Numbered
<1>9. ASSUME NEW h \in DOMAIN m, NEW a \in DOMAIN m[h].lines
      PROVE  /\ m[h].lines[a].n \in 0 .. r
             /\ \A b \in DOMAIN m[h].lines :
                  a < b /\ m[h].lines[a].who = "interviewer" /\ m[h].lines[b].who = "interviewer" =>
                    m[h].lines[a].n # m[h].lines[b].n
  <2>1. CASE h \in DOMAIN was /\ m[h] = was[h]
    BY <1>9, <2>1 DEF Numbered
  <2>2. CASE m[h] = i
    BY <1>4, <1>6, <1>9, <2>2
  <2>3. QED
    BY <1>3, <2>1, <2>2
<1>10. Numbered(up, left, m, r)
  BY <1>7, <1>8, <1>9 DEF Numbered
<1>11. QED
  BY <1>1, <1>10

\* The first reply of a connection is recorded, or lost.
LEMMA FirstReplyNumbered ==
  ASSUME Talking, Numbered(sock.up, limbo, interviews, replies), UNCHANGED <<limbo, replies>>,
         sock.up # <<>>, Head(sock.up).type = "reply", sock'.up = Tail(sock.up),
         \/ UNCHANGED interviews
         \/ \E kind : interviews' = WithTurn(sock.id, Head(sock.up).n, kind)
  PROVE  Numbered(sock'.up, limbo', interviews', replies')
<1>1. PICK up, t, n : up = sock.up /\ t = Tail(up) /\ n = Head(up).n
  OBVIOUS
<1>2. IsSeq(up) /\ IsSeq(limbo)
  BY <1>1 DEF Numbered
<1>3. Numbered(t, limbo, interviews, replies)
  <2>1. Part(t, up) /\ Part(limbo, limbo)
    BY <1>1, <1>2, PartOf
  <2>2. QED
    BY <1>1, <2>1, NumberedPart
<1>4. /\ 1 \in DOMAIN up /\ Head(up) = up[1]
      /\ \A k \in DOMAIN t : k + 1 \in DOMAIN up /\ 1 < k + 1 /\ t[k] = up[k + 1]
  BY <1>1, <1>2 DEF IsSeq
<1>5. n \in 1 .. replies /\ ~UsedIn(interviews, n) /\ \A k \in DOMAIN limbo : limbo[k].n # n
  BY <1>1, <1>4 DEF Numbered
<1>6. \A k \in DOMAIN t : t[k].type = "reply" => t[k].n # n
  BY <1>1, <1>4 DEF Numbered
<1>7. CASE UNCHANGED interviews
  BY <1>1, <1>3, <1>7
<1>8. ASSUME NEW kind, interviews' = WithTurn(sock.id, n, kind) PROVE Numbered(t, limbo, interviews', replies)
  <2>1. TurnIn(interviews', interviews, sock.id, n)
    BY <1>8, WithTurnIs DEF Talking
  <2>2. QED
    BY <1>3, <1>5, <1>6, <2>1, NumberedTurn
<1>9. QED
  BY <1>1, <1>7, <1>8

\* One that has outlived its connection.
LEMMA StragglerNumbered ==
  ASSUME Talking, Numbered(sock.up, limbo, interviews, replies), Straggler, UNCHANGED sock
  PROVE  Numbered(sock'.up, limbo', interviews', replies')
<1>1. PICK left, t, x : left = limbo /\ t = Tail(left) /\ x = Head(left)
  OBVIOUS
<1>2. IsSeq(left) /\ IsSeq(sock.up) /\ left # <<>>
  BY <1>1 DEF Numbered, Straggler
<1>3. limbo' = t /\ UNCHANGED replies
      /\ (UNCHANGED interviews \/ \E kind : interviews' = WithTurn(x.id, x.n, kind))
  BY <1>1 DEF Straggler
<1>4. Numbered(sock.up, t, interviews, replies)
  <2>1. Part(t, left) /\ Part(sock.up, sock.up)
    BY <1>1, <1>2, PartOf
  <2>2. QED
    BY <1>1, <2>1, NumberedPart
<1>5. /\ 1 \in DOMAIN left /\ x = left[1]
      /\ \A k \in DOMAIN t : k + 1 \in DOMAIN left /\ 1 < k + 1 /\ t[k] = left[k + 1]
  BY <1>1, <1>2 DEF IsSeq
<1>6. x.n \in 1 .. replies /\ ~UsedIn(interviews, x.n)
      /\ \A k \in DOMAIN sock.up : sock.up[k].type = "reply" => sock.up[k].n # x.n
  BY <1>1, <1>5 DEF Numbered
<1>7. \A k \in DOMAIN t : t[k].n # x.n
  BY <1>1, <1>5 DEF Numbered
<1>8. CASE UNCHANGED interviews
  BY <1>3, <1>4, <1>8
<1>9. ASSUME NEW kind, interviews' = WithTurn(x.id, x.n, kind) PROVE Numbered(sock.up, t, interviews', replies)
  <2>1. PICK id, n : id = x.id /\ n = x.n
    OBVIOUS
  <2>2. TurnIn(interviews', interviews, id, n)
    BY <1>9, <2>1, WithTurnIs DEF Talking
  <2>3. QED
    BY <1>4, <1>6, <1>7, <2>1, <2>2, NumberedTurn
<1>10. QED
  BY <1>3, <1>8, <1>9

\* A handshake takes a reply along only where it ends the connection.
LEMMA ShakeNumbered ==
  ASSUME Talking, Numbered(sock.up, limbo, interviews, replies), Shake
  PROVE  Numbered(sock'.up, limbo', interviews', replies')
<1>1. Parts /\ SockInv /\ LinesInv /\ SockShape(sock, late)
  BY DEF Talking, Scene
<1>2. /\ UNCHANGED <<limbo, replies>> /\ sock.up # <<>>
      /\ \/ \E i : /\ i = IF sock.kind = "text" THEN Begun ELSE [Begun EXCEPT !.lines = <<>>]
                   /\ interviews' = Append(interviews, i) /\ Greets(Len(interviews'), FALSE)
         \/ UNCHANGED interviews /\ \E id \in 1 .. Len(interviews) : Greets(id, TRUE)
         \/ UNCHANGED interviews /\ \E reason : TurnsAway(reason)
  BY <1>1, ShakeIs
<1>3. Part(sock.up, sock.up) /\ Part(<<>>, sock.up) /\ Part(Tail(sock.up), sock.up) /\ Part(limbo, limbo)
  BY <1>2, PartOf DEF Numbered
<1>4. Numbered(Tail(sock.up), limbo, interviews, replies) /\ Numbered(<<>>, limbo, interviews, replies)
  BY <1>3, NumberedPart
<1>5. ASSUME NEW i, i = IF sock.kind = "text" THEN Begun ELSE [Begun EXCEPT !.lines = <<>>],
             interviews' = Append(interviews, i), Greets(Len(interviews'), FALSE)
      PROVE  Numbered(sock'.up, limbo', interviews', replies')
  <2>1. i.lines = <<Question(0)>> \/ i.lines = <<>>
    BY <1>5 DEF Begun, Question
  <2>2. IsSeq(interviews)
    BY <1>1, LedgerIs DEF IsLedger
  <2>3. Numbered(Tail(sock.up), limbo, interviews', replies)
    BY <1>4, <1>5, <2>1, <2>2, NumberedBegun
  <2>4. QED
    BY <1>2, <1>5, <2>3 DEF Greets, Now
<1>6. ASSUME NEW id, Greets(id, TRUE), UNCHANGED interviews
      PROVE  Numbered(sock'.up, limbo', interviews', replies')
  BY <1>2, <1>4, <1>6 DEF Greets, Now
<1>7. ASSUME NEW reason, TurnsAway(reason), UNCHANGED interviews
      PROVE  Numbered(sock'.up, limbo', interviews', replies')
  BY <1>2, <1>4, <1>7 DEF TurnsAway, Now
<1>8. QED
  BY <1>2, <1>5, <1>6, <1>7

LEMMA NumberedKept ==
  ASSUME Talking, Numbered(sock.up, limbo, interviews, replies), [Next]_vars, surface # "headless"
  PROVE  Numbered(sock'.up, limbo', interviews', replies')
<1>1. Parts /\ LedgerInv /\ SockInv /\ LinesInv /\ SockShape(sock, late) /\ HonestInv(sock, late, interviews)
  BY DEF Talking, Scene
<1>2. IsSeq(sock.up) /\ IsSeq(limbo)
  BY DEF Numbered
<1>3. Part(sock.up, sock.up) /\ Part(<<>>, sock.up) /\ Part(limbo, limbo)
  BY <1>2, PartOf
<1>4. Numbered(<<>>, limbo, interviews, replies)
  BY <1>3, NumberedPart
<1>5. ASSUME UNCHANGED <<limbo, interviews, replies>>, sock'.up = sock.up \/ sock'.up = <<>>
      PROVE  Numbered(sock'.up, limbo', interviews', replies')
  BY <1>4, <1>5
<1>6. ASSUME UNCHANGED <<interviews, replies>>, sock'.up = <<>>,
             limbo' = limbo \/ (sock.id # 0 /\ limbo' = limbo \o Surviving(sock))
      PROVE  Numbered(sock'.up, limbo', interviews', replies')
  <2>1. CASE limbo' = limbo
    BY <1>4, <1>6, <2>1
  <2>2. CASE sock.id # 0 /\ limbo' = limbo \o Surviving(sock)
    <3>1. \A k \in DOMAIN sock.up : sock.up[k].type = "reply"
      BY <1>1, <2>2 DEF SockShape
    <3>2. limbo' = limbo \o [k \in DOMAIN sock.up |-> [id |-> sock.id, n |-> sock.up[k].n]]
      BY <2>2 DEF Surviving
    <3>3. Numbered(<<>>, limbo', interviews, replies)
      BY <3>1, <3>2, NumberedLeft
    <3>4. QED
      BY <1>6, <3>3
  <2>3. QED
    BY <1>6, <2>1, <2>2
<1>7. CASE Closed
  BY <1>1, <1>6, <1>7, ClosedIs DEF Now
<1>8. CASE LingerEnds
  BY <1>1, <1>6, <1>8, LingerEndsIs DEF Now
<1>9. CASE Reload \/ HostClose
  <2>1. sock' = NoSock /\ UNCHANGED <<interviews, replies>>
        /\ (limbo' = limbo \/ (sock.id # 0 /\ limbo' = limbo \o Surviving(sock)))
    BY <1>9 DEF Reload, HostClose
  <2>2. sock'.up = <<>>
    BY <2>1 DEF NoSock
  <2>3. QED
    BY <1>6, <2>1, <2>2
<1>10. CASE Opened
  <2>1. UNCHANGED <<limbo, interviews, replies>>
    BY <1>1, <1>10, OpenedIs
  <2>2. PICK f : f.type \in {"start", "resume"} /\ Now(sock.kind, "open", sock.id, <<f>>, sock.down)
    BY <1>1, <1>10, OpenedIs
  <2>3. DOMAIN <<f>> = {1} /\ <<f>>[1] = f /\ <<f>> \in Seq({f}) /\ DOMAIN <<>> = {}
    OBVIOUS
  <2>4. PICK up : up = <<f>>
    OBVIOUS
  <2>5. DOMAIN up = {1} /\ up[1] = f /\ IsSeq(up) /\ sock'.up = up
    BY <2>2, <2>3, <2>4 DEF Now, IsSeq
  <2>6. Numbered(up, limbo, interviews, replies)
    BY <1>4, <2>2, <2>5 DEF Numbered
  <2>7. QED
    BY <2>1, <2>5, <2>6
<1>11. CASE Shake
  BY <1>11, ShakeNumbered
<1>12. CASE Serve
  <2>1. /\ UNCHANGED <<limbo, replies>> /\ sock.up # <<>> /\ Head(sock.up).type = "reply"
        /\ UNCHANGED interviews \/ \E kind : interviews' = WithTurn(sock.id, Head(sock.up).n, kind)
        /\ \E f : SendsOne(f)
    BY <1>1, <1>12, ServeIs
  <2>2. sock'.up = Tail(sock.up)
    BY <2>1 DEF SendsOne, Now
  <2>3. QED
    BY <2>1, <2>2, FirstReplyNumbered
<1>13. CASE ServeVoice
  <2>1. /\ UNCHANGED <<limbo, replies>> /\ sock.up # <<>> /\ Head(sock.up).type = "reply"
        /\ \E kind : interviews' = WithTurn(sock.id, Head(sock.up).n, kind)
        /\ \E down : Now("voice", "open", sock.id, Tail(sock.up), down)
    BY <1>1, <1>13, ServeVoiceIs
  <2>2. sock'.up = Tail(sock.up)
    BY <2>1 DEF Now
  <2>3. QED
    BY <2>1, <2>2, FirstReplyNumbered
<1>14. CASE SendReply \/ OrbTap
  <2>1. /\ UNCHANGED <<limbo, interviews>>
        /\ \/ UNCHANGED <<sock, replies>>
           \/ UNCHANGED sock /\ replies' = replies + 1
           \/ /\ replies' = replies + 1
              /\ Now(sock.kind, sock.st, sock.id, Append(sock.up, [type |-> "reply", n |-> replies']), sock.down)
    <3>1. CASE SendReply
      BY <1>1, <3>1, SendReplyIs
    <3>2. CASE OrbTap
      BY <1>1, <3>2, OrbTapIs
    <3>3. QED
      BY <1>14, <3>1, <3>2
  <2>2. CASE UNCHANGED <<sock, replies>>
    BY <1>5, <2>1, <2>2
  <2>3. Numbered(sock.up, limbo, interviews, replies + 1)
        /\ Numbered(Append(sock.up, [type |-> "reply", n |-> replies + 1]), limbo, interviews, replies + 1)
    BY NumberedMore
  <2>4. CASE UNCHANGED sock /\ replies' = replies + 1
    BY <2>1, <2>3, <2>4
  <2>5. CASE /\ replies' = replies + 1
             /\ Now(sock.kind, sock.st, sock.id, Append(sock.up, [type |-> "reply", n |-> replies']), sock.down)
    BY <2>1, <2>3, <2>5 DEF Now
  <2>6. QED
    BY <2>1, <2>2, <2>4, <2>5
<1>15. CASE OnMessage
  <2>1. UNCHANGED <<limbo, interviews, replies>> /\ \E f : TakesCurrent(f) \/ TakesEarlier(f)
    BY <1>1, <1>15, OnMessageIs
  <2>2. PICK f : TakesCurrent(f) \/ TakesEarlier(f)
    BY <2>1
  <2>3. sock'.up = sock.up \/ sock'.up = <<>>
    BY <2>2 DEF TakesCurrent, TakesEarlier, Now
  <2>4. QED
    BY <1>5, <2>1, <2>3
<1>16. CASE OnVoiceMessage
  BY <1>1, <1>5, <1>16, OnVoiceMessageIs DEF Now
<1>17. CASE (\E mode \in {"text", "voice"} : Start(mode)) \/ Reconnect \/ SwitchToText
  <2>1. UNCHANGED <<limbo, interviews, replies>>
    BY <1>17 DEF Start, Reconnect, SwitchToText, serverVars
  <2>2. sock'.up = <<>>
    BY <1>17 DEF Start, Reconnect, SwitchToText, Dial, NoSock
  <2>3. QED
    BY <1>5, <2>1, <2>2
<1>18. CASE \/ Preflight \/ Align \/ Tick \/ StaleClose \/ Watchdog \/ Redirect \/ AudioEnds \/ MicAnswered
            \/ ToggleReadAloud \/ HostOpen \/ ReadyTimeout \/ HandleMessage \/ UNCHANGED vars
  <2>1. UNCHANGED <<sock, limbo, interviews, replies>>
    BY <1>18 DEF Preflight, Align, Tick, StaleClose, Watchdog, Redirect, AudioEnds, MicAnswered, ToggleReadAloud,
                 HostOpen, ReadyTimeout, HandleMessage, vars, pageVars, serverVars
  <2>2. QED
    BY <1>5, <2>1
<1>19. CASE Straggler /\ UNCHANGED pageVars
  BY <1>19, StragglerNumbered DEF pageVars
<1>20. QED
  BY <1>7, <1>8, <1>9, <1>10, <1>11, <1>12, <1>13, <1>14, <1>15, <1>16, <1>17, <1>18, <1>19
     DEF Next, Embedded, Direct, Headless, ElementStep, PageStep, HostStep

-----------------------------------------------------------------------------
(* Every interview of the text page opens with the first question.         *)

Opens(m, i) == i \in DOMAIN m /\ 1 \in DOMAIN m[i].lines /\ m[i].lines[1] = Question(0)

Resumes(f) == f.type = "resume"
Joins(f)   == f.type = "hello"

\* Those that the token, a frame to the server or a frame from it is about.
OpensInv(t, s, l, m) ==
  /\ t # 0 => Opens(m, t)
  /\ s.kind = "text" => /\ \A k \in DOMAIN s.up : Resumes(s.up[k]) => Opens(m, s.up[k].n)
                        /\ \A k \in DOMAIN s.down : Joins(s.down[k]) => Opens(m, s.down[k].id)
  /\ \A k \in DOMAIN l : Joins(l[k]) => Opens(m, l[k].id)

LEMMA OpensLasts ==
  ASSUME NEW m, NEW was, Outgrows(m, was), NEW i, Opens(was, i)
  PROVE  Opens(m, i)
<1>1. i \in DOMAIN was /\ 1 \in DOMAIN was[i].lines /\ was[i].lines[1] = Question(0)
  BY DEF Opens
<1>2. i \in DOMAIN m /\ 1 \in DOMAIN m[i].lines /\ m[i].lines[1] = was[i].lines[1]
  BY <1>1 DEF Outgrows
<1>3. QED
  BY <1>1, <1>2 DEF Opens

\* Nothing new is named.
LEMMA OpensStays ==
  ASSUME OpensInv(token, sock, late, interviews), Outgrows(interviews', interviews),
         token' = 0 \/ token' = token,
         sock'.kind = "text" =>
           /\ \A k \in DOMAIN sock'.up : Resumes(sock'.up[k]) =>
                sock.kind = "text" /\ \E j \in DOMAIN sock.up : sock'.up[k] = sock.up[j]
           /\ \A k \in DOMAIN sock'.down : Joins(sock'.down[k]) =>
                sock.kind = "text" /\ \E j \in DOMAIN sock.down : sock'.down[k] = sock.down[j],
         \A k \in DOMAIN late' :
           \/ \E j \in DOMAIN late : late'[k] = late[j]
           \/ sock.kind = "text" /\ \E j \in DOMAIN sock.down : late'[k] = sock.down[j]
  PROVE  OpensInv(token', sock', late', interviews')
<1>1. \A i : Opens(interviews, i) => Opens(interviews', i)
  BY OpensLasts
<1>2. token' # 0 => Opens(interviews', token')
  BY <1>1 DEF OpensInv
<1>3. ASSUME sock'.kind = "text", NEW k \in DOMAIN sock'.up, Resumes(sock'.up[k])
      PROVE  Opens(interviews', sock'.up[k].n)
  <2>1. PICK j \in DOMAIN sock.up : sock'.up[k] = sock.up[j] /\ sock.kind = "text"
    BY <1>3
  <2>2. Opens(interviews, sock.up[j].n)
    BY <1>3, <2>1 DEF OpensInv
  <2>3. QED
    BY <1>1, <2>1, <2>2
<1>4. ASSUME sock'.kind = "text", NEW k \in DOMAIN sock'.down, Joins(sock'.down[k])
      PROVE  Opens(interviews', sock'.down[k].id)
  <2>1. PICK j \in DOMAIN sock.down : sock'.down[k] = sock.down[j] /\ sock.kind = "text"
    BY <1>4
  <2>2. Opens(interviews, sock.down[j].id)
    BY <1>4, <2>1 DEF OpensInv
  <2>3. QED
    BY <1>1, <2>1, <2>2
<1>5. ASSUME NEW k \in DOMAIN late', Joins(late'[k]) PROVE Opens(interviews', late'[k].id)
  <2>1. CASE \E j \in DOMAIN late : late'[k] = late[j]
    BY <1>1, <1>5, <2>1 DEF OpensInv
  <2>2. CASE sock.kind = "text" /\ \E j \in DOMAIN sock.down : late'[k] = sock.down[j]
    BY <1>1, <1>5, <2>2 DEF OpensInv
  <2>3. QED
    BY <1>5, <2>1, <2>2
<1>6. QED
  BY <1>2, <1>3, <1>4, <1>5 DEF OpensInv

LEMMA PartElements ==
  ASSUME NEW q, NEW r, Part(r, q)
  PROVE  \A k \in DOMAIN r : \E j \in DOMAIN q : r[k] = q[j]
BY DEF Part, Embeds

LEMMA OneMoreElements ==
  ASSUME NEW q, NEW f, NEW r, Longer(r, q, f), f.type \notin {"hello", "resume"}
  PROVE  \A k \in DOMAIN r : Resumes(r[k]) \/ Joins(r[k]) => \E j \in DOMAIN q : r[k] = q[j]
<1>1. ASSUME NEW k \in DOMAIN r, Resumes(r[k]) \/ Joins(r[k]) PROVE k \in DOMAIN q /\ r[k] = q[k]
  <2>1. k # Len(q) + 1
    BY <1>1 DEF Longer, Resumes, Joins
  <2>2. QED
    BY <1>1, <2>1 DEF Longer
<1>2. QED
  BY <1>1

\* A connection begins, or is given up.
LEMMA OpensLeft ==
  ASSUME Talking, OpensInv(token, sock, late, interviews), Outgrows(interviews', interviews),
         token' = 0 \/ token' = token, sock'.up = <<>>, sock'.down = <<>>,
         \/ late' = <<>> \/ late' = late \/ \E k \in 0 .. Len(sock.down) : Leaves(k)
  PROVE  OpensInv(token', sock', late', interviews')
<1>1. SockInv /\ SockShape(sock, late)
  BY DEF Talking, Scene
<1>2. DOMAIN <<>> = {}
  OBVIOUS
<1>3. ASSUME NEW k \in 0 .. Len(sock.down), Leaves(k)
      PROVE  Part(late', late) \/ (sock.kind = "text" /\ Part(late', sock.down))
  BY <1>1, <1>3, KeptLateIs DEF Leaves
<1>4. \A k \in DOMAIN late' :
        \/ \E j \in DOMAIN late : late'[k] = late[j]
        \/ sock.kind = "text" /\ \E j \in DOMAIN sock.down : late'[k] = sock.down[j]
  <2>1. CASE late' = <<>> \/ late' = late
    BY <1>2, <2>1
  <2>2. CASE \E k \in 0 .. Len(sock.down) : Leaves(k)
    BY <1>3, <2>2, PartElements
  <2>3. QED
    BY <2>1, <2>2
<1>5. QED
  BY <1>2, <1>4, OpensStays

LEMMA ShakeOpens ==
  ASSUME Talking, OpensInv(token, sock, late, interviews), Outgrows(interviews', interviews), Shake
  PROVE  OpensInv(token', sock', late', interviews')
<1>1. Parts /\ SockInv /\ LinesInv /\ SockShape(sock, late) /\ IsSeq(sock.up) /\ IsSeq(sock.down)
  BY SockSeqs DEF Talking, Scene
<1>2. UNCHANGED <<late, token>> /\ sock.up # <<>> /\ sock.st = "open" /\ sock.id = 0
  BY <1>1, ShakeIs DEF Shake
<1>3. sock.down = <<>> /\ DOMAIN <<>> = {}
  BY <1>1, <1>2 DEF SockShape
<1>4. \A k \in DOMAIN Tail(sock.up) : \E j \in DOMAIN sock.up : Tail(sock.up)[k] = sock.up[j]
  <2>1. PICK t : t = Tail(sock.up)
    OBVIOUS
  <2>2. Part(t, sock.up)
    BY <1>1, <1>2, <2>1, PartOf
  <2>3. \A k \in DOMAIN t : \E j \in DOMAIN sock.up : t[k] = sock.up[j]
    BY <2>2, PartElements
  <2>4. QED
    BY <2>1, <2>3
<1>5. ASSUME sock'.kind # "text" PROVE OpensInv(token', sock', late', interviews')
  BY <1>2, <1>5, OpensStays
<1>6. ASSUME NEW id, NEW resumed, sock.kind = "text", Greets(id, resumed), Opens(interviews', id)
      PROVE  OpensInv(token', sock', late', interviews')
  <2>1. PICK f : f = Hello(id, resumed)
    OBVIOUS
  <2>2. f.id = id /\ Append(<<>>, f) = <<f>> /\ DOMAIN <<f>> = {1} /\ <<f>>[1] = f
    BY <2>1 DEF Hello
  <2>3. sock'.kind = "text" /\ sock'.up = Tail(sock.up) /\ sock'.down = <<f>>
    BY <1>3, <1>6, <2>1, <2>2 DEF Greets, Now
  <2>5. \A i : Opens(interviews, i) => Opens(interviews', i)
    BY OpensLasts
  <2>6. \A k \in DOMAIN sock'.up : Resumes(sock'.up[k]) => Opens(interviews', sock'.up[k].n)
    BY <1>4, <1>6, <2>3, <2>5 DEF OpensInv
  <2>7. \A k \in DOMAIN sock'.down : Joins(sock'.down[k]) => Opens(interviews', sock'.down[k].id)
    BY <1>6, <2>2, <2>3
  <2>8. (token' # 0 => Opens(interviews', token')) /\ \A k \in DOMAIN late' : Joins(late'[k]) => Opens(interviews', late'[k].id)
    BY <1>2, <2>5 DEF OpensInv
  <2>9. QED
    BY <2>6, <2>7, <2>8 DEF OpensInv
<1>7. ASSUME NEW i, i = IF sock.kind = "text" THEN Begun ELSE [Begun EXCEPT !.lines = <<>>],
             interviews' = Append(interviews, i), Greets(Len(interviews'), FALSE), sock.kind = "text"
      PROVE  OpensInv(token', sock', late', interviews')
  <2>1. PICK l : l = Question(0)
    OBVIOUS
  <2>2. i.lines = <<l>> /\ DOMAIN <<l>> = {1} /\ <<l>>[1] = l /\ <<l>> \in Seq({l})
    BY <1>7, <2>1 DEF Begun, Question
  <2>3. Len(interviews') = Len(interviews) + 1 /\ interviews'[Len(interviews) + 1] = i
    BY <1>1, <1>7, <2>2, OneInterviewMore DEF IsSeq
  <2>4. Len(interviews') \in DOMAIN interviews'
    BY <2>3 DEF Outgrows
  <2>5. Opens(interviews', Len(interviews'))
    BY <2>1, <2>2, <2>3, <2>4 DEF Opens
  <2>6. QED
    BY <1>6, <1>7, <2>5
<1>8. ASSUME NEW id, Greets(id, TRUE), Head(sock.up).type = "resume", id = Head(sock.up).n,
             UNCHANGED interviews, sock.kind = "text"
      PROVE  OpensInv(token', sock', late', interviews')
  <2>1. 1 \in DOMAIN sock.up /\ Head(sock.up) = sock.up[1]
    BY <1>1, <1>2 DEF IsSeq
  <2>2. Opens(interviews, id)
    BY <1>8, <2>1 DEF OpensInv, Resumes
  <2>3. QED
    BY <1>6, <1>8, <2>2
<1>9. ASSUME NEW reason, TurnsAway(reason)
      PROVE  OpensInv(token', sock', late', interviews')
  <2>1. PICK f : f = ErrorFrame(reason, FALSE)
    OBVIOUS
  <2>2. f.type = "error" /\ DOMAIN <<f>> = {1} /\ <<f>>[1] = f
    BY <2>1 DEF ErrorFrame
  <2>3. sock'.up = <<>> /\ sock'.down = <<f>>
    BY <1>9, <2>1 DEF TurnsAway, Now
  <2>4. QED
    BY <1>2, <1>3, <2>2, <2>3, OpensStays DEF Joins
<1>10. CASE sock.kind = "text"
  <2>1. \/ \E i : /\ i = IF sock.kind = "text" THEN Begun ELSE [Begun EXCEPT !.lines = <<>>]
                  /\ interviews' = Append(interviews, i) /\ Greets(Len(interviews'), FALSE)
        \/ UNCHANGED interviews /\ \E id : Greets(id, TRUE) /\ Head(sock.up).type = "resume" /\ id = Head(sock.up).n
        \/ \E reason : TurnsAway(reason)
    BY <1>1, ShakeIs
  <2>2. QED
    BY <1>7, <1>8, <1>9, <1>10, <2>1
<1>11. CASE sock.kind # "text"
  <2>1. sock'.kind = sock.kind
    <3>1. (\E id, resumed : Greets(id, resumed)) \/ sock.kind = "text"
      BY <1>1, ShakeIs
    <3>2. QED
      BY <1>11, <3>1 DEF Greets, Now
  <2>2. QED
    BY <1>5, <1>11, <2>1
<1>12. QED
  BY <1>10, <1>11

LEMMA OpensKept ==
  ASSUME Talking, OpensInv(token, sock, late, interviews), Outgrows(interviews', interviews),
         [Next]_vars, surface # "headless"
  PROVE  OpensInv(token', sock', late', interviews')
<1>1. /\ Parts /\ LedgerInv /\ SockInv /\ LinesInv /\ SockShape(sock, late) /\ PageShape(page, sock, late)
      /\ HonestInv(sock, late, interviews) /\ IsSeq(sock.up) /\ IsSeq(sock.down) /\ IsSeq(late)
  BY SockSeqs DEF Talking, Scene
<1>2. ASSUME UNCHANGED <<sock, late, token>> PROVE OpensInv(token', sock', late', interviews')
  BY <1>2, OpensStays
<1>3. ASSUME UNCHANGED <<late, token>>, sock'.kind = "voice" PROVE OpensInv(token', sock', late', interviews')
  BY <1>3, OpensStays
<1>4. DOMAIN <<>> = {}
  OBVIOUS
<1>5. CASE (\E mode \in {"text", "voice"} : Start(mode)) \/ Reconnect \/ SwitchToText \/ LingerEnds \/ Closed \/ Reload \/ HostClose
  <2>1. token' = 0 \/ token' = token
    BY <1>5 DEF Start, Reconnect, SwitchToText, LingerEnds, Closed, Reload, HostClose
  <2>2. sock'.up = <<>> /\ sock'.down = <<>>
    <3>1. (\E k : sock' = Dial(k)) \/ sock' = NoSock \/ sock' = [NoSock EXCEPT !.kind = sock.kind]
      BY <1>5 DEF Start, Reconnect, SwitchToText, LingerEnds, Closed, Reload, HostClose
    <3>2. QED
      BY <1>1, <3>1, SockParts DEF Parts, Now
  <2>3. late' = <<>> \/ late' = late \/ \E k \in 0 .. Len(sock.down) : Leaves(k)
    <3>1. CASE Start("text") \/ Start("voice") \/ Reload \/ HostClose
      BY <3>1 DEF Start, Reload, HostClose
    <3>2. CASE Reconnect
      BY <1>1, <3>2, ReconnectIs
    <3>3. CASE LingerEnds
      BY <1>1, <3>3, LingerEndsIs
    <3>4. CASE Closed
      BY <3>4 DEF Closed, Leaves
    <3>5. CASE SwitchToText
      <4>1. Leaves(0) /\ Len(sock.down) \in Nat
        BY <1>1, <3>5, SwitchToTextIs DEF IsSeq
      <4>2. QED
        BY <4>1
    <3>6. QED
      BY <1>5, <3>1, <3>2, <3>3, <3>4, <3>5
  <2>4. QED
    BY <2>1, <2>2, <2>3, OpensLeft
<1>6. CASE Opened
  <2>1. UNCHANGED <<late, token>> /\ sock.down = <<>>
    <3>1. sock.st = "connecting" /\ UNCHANGED <<late, token>>
      BY <1>6 DEF Opened
    <3>2. QED
      BY <1>1, <3>1 DEF SockShape
  <2>2. PICK f : /\ f.type = "resume" => f.n = token /\ token # 0
                 /\ Now(sock.kind, "open", sock.id, <<f>>, sock.down)
    BY <1>1, <1>6, OpenedIs
  <2>3. DOMAIN <<f>> = {1} /\ <<f>>[1] = f
    OBVIOUS
  <2>4. sock'.up = <<f>> /\ sock'.down = <<>>
    BY <2>1, <2>2 DEF Now
  <2>5. \A i : Opens(interviews, i) => Opens(interviews', i)
    BY OpensLasts
  <2>6. token' # 0 => Opens(interviews', token')
    BY <2>1, <2>5 DEF OpensInv
  <2>7. \A k \in DOMAIN sock'.up : Resumes(sock'.up[k]) => Opens(interviews', sock'.up[k].n)
    BY <2>1, <2>2, <2>3, <2>4, <2>6 DEF Resumes
  <2>8. \A k \in DOMAIN sock'.down : Joins(sock'.down[k]) => Opens(interviews', sock'.down[k].id)
    BY <1>4, <2>4
  <2>9. \A k \in DOMAIN late' : Joins(late'[k]) => Opens(interviews', late'[k].id)
    BY <2>1, <2>5 DEF OpensInv
  <2>10. QED
    BY <2>6, <2>7, <2>8, <2>9 DEF OpensInv
<1>7. CASE Shake
  BY <1>7, ShakeOpens
<1>8. CASE Serve
  <2>1. /\ UNCHANGED <<late, token>> /\ sock.kind = "text" /\ sock.up # <<>>
        /\ \E f : f.type \notin {"hello", "resume"} /\ SendsOne(f)
    <3>1. (\E f : f.type = "turn" /\ SendsOne(f)) \/ SendsOne(ErrorFrame("interviewer_unavailable", TRUE))
      BY <1>1, <1>8, ServeIs
    <3>2. ErrorFrame("interviewer_unavailable", TRUE).type = "error"
      BY DEF ErrorFrame
    <3>3. \E f : f.type \notin {"hello", "resume"} /\ SendsOne(f)
      BY <3>1, <3>2
    <3>4. QED
      BY <1>1, <1>8, <3>3, ServeIs DEF Serve
  <2>2. PICK f : f.type \notin {"hello", "resume"} /\ SendsOne(f)
    BY <2>1
  <2>3. PICK q, t : q = Append(sock.down, f) /\ t = Tail(sock.up)
    OBVIOUS
  <2>4. Longer(q, sock.down, f) /\ Part(t, sock.up)
    BY <1>1, <2>1, <2>3, OneLonger, PartOf
  <2>5. sock'.up = t /\ sock'.down = q
    BY <2>2, <2>3 DEF SendsOne, Now
  <2>6. /\ \A k \in DOMAIN t : \E j \in DOMAIN sock.up : t[k] = sock.up[j]
        /\ \A k \in DOMAIN q : Joins(q[k]) => \E j \in DOMAIN sock.down : q[k] = sock.down[j]
    BY <2>2, <2>4, PartElements, OneMoreElements
  <2>7. QED
    BY <2>1, <2>5, <2>6, OpensStays
<1>9. CASE ServeVoice
  <2>1. (\E down : Now("voice", "open", sock.id, Tail(sock.up), down)) /\ UNCHANGED <<late, token>>
    BY <1>1, <1>9, ServeVoiceIs DEF ServeVoice
  <2>2. QED
    BY <1>3, <2>1 DEF Now
<1>10. CASE OnVoiceMessage
  <2>1. Now("voice", "open", sock.id, sock.up, Tail(sock.down)) /\ UNCHANGED <<late, token>>
    BY <1>1, <1>10, OnVoiceMessageIs DEF OnVoiceMessage
  <2>2. QED
    BY <1>3, <2>1 DEF Now
<1>11. CASE SendReply \/ OrbTap
  <2>1. /\ UNCHANGED <<late, token>>
        /\ \/ UNCHANGED sock
           \/ Now(sock.kind, sock.st, sock.id, Append(sock.up, [type |-> "reply", n |-> replies']), sock.down)
    <3>1. CASE SendReply
      BY <1>1, <3>1, SendReplyIs DEF SendReply
    <3>2. CASE OrbTap
      BY <1>1, <3>2, OrbTapIs DEF OrbTap
    <3>3. QED
      BY <1>11, <3>1, <3>2
  <2>2. PICK f, q : f = [type |-> "reply", n |-> replies'] /\ q = Append(sock.up, f)
    OBVIOUS
  <2>3. \A k \in DOMAIN q : Resumes(q[k]) => \E j \in DOMAIN sock.up : q[k] = sock.up[j]
    <3>1. f.type \notin {"hello", "resume"} /\ Longer(q, sock.up, f)
      BY <1>1, <2>2, OneLonger
    <3>2. QED
      BY <3>1, OneMoreElements
  <2>4. CASE UNCHANGED sock
    BY <1>2, <2>1, <2>4
  <2>5. CASE Now(sock.kind, sock.st, sock.id, Append(sock.up, [type |-> "reply", n |-> replies']), sock.down)
    <3>1. sock'.kind = sock.kind /\ sock'.up = q /\ sock'.down = sock.down
      BY <2>2, <2>5 DEF Now
    <3>2. QED
      BY <2>1, <2>3, <3>1, OpensStays
  <2>6. QED
    BY <2>1, <2>4, <2>5
<1>12. CASE OnMessage
  <2>1. PICK f : /\ Current(f) \/ Earlier(f)
                 /\ page' = Understood(page, f) /\ token' = TokenAfter(f, page') /\ UNCHANGED interviews
    BY <1>12 DEF OnMessage, serverVars
  <2>2. Truthful(f, Len(interviews), Over)
    BY <1>1, <2>1, OnMessageKept
  <2>3. token' \in {0, token} \/ (Joins(f) /\ token' = f.id)
    BY <2>1, <2>2 DEF TokenAfter, Truthful, Joins
  <2>4. Joins(f) => Opens(interviews, f.id)
    <3>1. ASSUME NEW q, IsSeq(q), q # <<>>, f = Head(q) PROVE 1 \in DOMAIN q /\ f = q[1]
      BY <3>1 DEF IsSeq
    <3>2. QED
      BY <1>1, <2>1, <3>1 DEF Current, Earlier, OpensInv
  <2>5. token' # 0 => Opens(interviews', token')
    BY <2>1, <2>3, <2>4 DEF OpensInv
  <2>6. \/ UNCHANGED <<sock, late>>
        \/ late' = late /\ (sock'.down = <<>> \/ (sock.down # <<>> /\ sock'.down = Tail(sock.down))) /\ (sock'.up = <<>> \/ sock'.up = sock.up)
           /\ sock.kind = "text"
        \/ late # <<>> /\ late' = Tail(late) /\ (UNCHANGED sock \/ (sock'.up = <<>> /\ sock'.down = <<>>))
    <3>1. PICK g : TakesCurrent(g) \/ TakesEarlier(g)
      BY <1>1, <1>12, OnMessageIs
    <3>2. QED
      BY <3>1 DEF TakesCurrent, TakesEarlier, Now
  <2>7. /\ \A k \in DOMAIN late' : \E j \in DOMAIN late : late'[k] = late[j]
        /\ sock'.kind = "text" =>
             /\ \A k \in DOMAIN sock'.up : sock.kind = "text" /\ \E j \in DOMAIN sock.up : sock'.up[k] = sock.up[j]
             /\ \A k \in DOMAIN sock'.down : sock.kind = "text" /\ \E j \in DOMAIN sock.down : sock'.down[k] = sock.down[j]
    <3>1. ASSUME NEW q, IsSeq(q), q # <<>>
          PROVE  \A k \in DOMAIN Tail(q) : \E j \in DOMAIN q : Tail(q)[k] = q[j]
      <4>1. PICK t : t = Tail(q)
        OBVIOUS
      <4>2. Part(t, q)
        BY <3>1, <4>1, PartOf
      <4>3. \A k \in DOMAIN t : \E j \in DOMAIN q : t[k] = q[j]
        BY <4>2, PartElements
      <4>4. QED
        BY <4>1, <4>3
    <3>2. /\ late # <<>> => \A k \in DOMAIN Tail(late) : \E j \in DOMAIN late : Tail(late)[k] = late[j]
          /\ sock.down # <<>> => \A k \in DOMAIN Tail(sock.down) : \E j \in DOMAIN sock.down : Tail(sock.down)[k] = sock.down[j]
      BY <1>1, <3>1
    <3>3. CASE late' = late
      BY <1>4, <2>6, <3>2, <3>3
    <3>4. CASE late # <<>> /\ late' = Tail(late)
      BY <1>4, <2>6, <3>2, <3>4
    <3>5. QED
      BY <2>6, <3>3, <3>4
  <2>8. OpensInv(0, sock', late', interviews')
    BY <2>1, <2>5, <2>7 DEF OpensInv
  <2>9. QED
    BY <2>5, <2>8 DEF OpensInv
<1>13. CASE \/ Preflight \/ Align \/ Tick \/ StaleClose \/ Watchdog \/ Redirect \/ AudioEnds \/ MicAnswered
            \/ ToggleReadAloud \/ HostOpen \/ ReadyTimeout \/ HandleMessage \/ (Straggler /\ UNCHANGED pageVars)
            \/ UNCHANGED vars
  <2>1. UNCHANGED <<sock, late, token>>
    BY <1>13 DEF Preflight, Align, Tick, StaleClose, Watchdog, Redirect, AudioEnds, MicAnswered, ToggleReadAloud,
                 HostOpen, ReadyTimeout, HandleMessage, vars, pageVars
  <2>2. QED
    BY <1>2, <2>1
<1>14. QED
  BY <1>5, <1>6, <1>7, <1>8, <1>9, <1>10, <1>11, <1>12, <1>13
     DEF Next, Embedded, Direct, Headless, ElementStep, PageStep, HostStep

-----------------------------------------------------------------------------
(* The page puts the questions in their order.                             *)

NoQuestions(log) == \A k \in DOMAIN log : log[k].who # "interviewer"

\* Before the interview there are none.
OrderAt(m, log, down, l) ==
  /\ Len(m) = 0 => NoQuestions(log)
  /\ Len(m) = 1 => /\ LogIn(m[1].lines, log)
                   /\ QueueIn(m[1].lines, log, down) /\ QueueIn(m[1].lines, log, l)

OrderInv(p, s, l, m) == TextOn(p) => OrderAt(m, p.log, s.down, l)

LEMMA NothingQueued ==
  ASSUME NEW lines, NEW log
  PROVE  /\ LogIn(lines, log) => QueueIn(lines, log, <<>>)
         /\ NoQuestions(log) => LogIn(lines, log)
<1>1. DOMAIN <<>> = {}
  OBVIOUS
<1>2. LogIn(lines, log) => QueueIn(lines, log, <<>>)
  BY <1>1 DEF QueueIn, TurnsIn, TurnsAfter, Base, Returns
<1>3. NoQuestions(log) => LogIn(lines, log)
  BY DEF NoQuestions, LogIn
<1>4. QED
  BY <1>2, <1>3

LEMMA WithinItself ==
  ASSUME NEW log, IsSeq(log)
  PROVE  /\ Within(log, log)
         /\ \A a : a.who # "interviewer" => Within(Append(log, a), log)
         /\ \A a, b : a.who # "interviewer" /\ b.who # "interviewer" => Within(log \o <<a, b>>, log)
         /\ Within(Notice(log), log)
<1>1. PICK g : g = [k \in Nat |-> k]
  OBVIOUS
<1>2. DOMAIN log = 1 .. Len(log) /\ Len(log) \in Nat
  BY DEF IsSeq
<1>3. Within(log, log)
  <2>1. \A k \in DOMAIN log : g[k] = k
    BY <1>1, <1>2
  <2>2. QED
    BY <2>1 DEF Within
<1>4. ASSUME NEW a, NEW b, a.who # "interviewer", b.who # "interviewer"
      PROVE  Within(log \o <<a, b>>, log)
  <2>1. PICK S : log \in Seq(S)
    BY DEF IsSeq
  <2>2. log \in Seq(S \union {a, b}) /\ <<a, b>> \in Seq(S \union {a, b})
    BY <2>1
  <2>3. PICK q : q = log \o <<a, b>>
    OBVIOUS
  <2>4. /\ DOMAIN q = 1 .. Len(log) + 2 /\ \A k \in 1 .. Len(log) : q[k] = log[k]
        /\ q[Len(log) + 1] = a /\ q[Len(log) + 2] = b
    BY <2>2, <2>3
  <2>5. \A k \in DOMAIN q : q[k].who = "interviewer" => k \in 1 .. Len(log)
    <3>1. ASSUME NEW k \in DOMAIN q, k \notin 1 .. Len(log) PROVE q[k].who # "interviewer"
      <4>1. k = Len(log) + 1 \/ k = Len(log) + 2
        BY <1>2, <2>4, <3>1
      <4>2. QED
        BY <1>4, <2>4, <4>1
    <3>2. QED
      BY <3>1
  <2>6. \A k \in 1 .. Len(log) : k \in DOMAIN log /\ g[k] = k
    BY <1>1, <1>2
  <2>7. Within(q, log)
    BY <2>4, <2>5, <2>6 DEF Within
  <2>8. QED
    BY <2>3, <2>7
<1>5. ASSUME NEW a, a.who # "interviewer" PROVE Within(Append(log, a), log)
  <2>1. PICK q : q = Append(log, a)
    OBVIOUS
  <2>2. Longer(q, log, a)
    BY <2>1, OneLonger
  <2>3. \A k \in DOMAIN q : q[k].who = "interviewer" => k \in DOMAIN log /\ q[k] = log[k] /\ g[k] = k
    BY <1>1, <1>2, <1>5, <2>2 DEF Longer
  <2>4. Within(q, log)
    BY <2>3 DEF Within
  <2>5. QED
    BY <2>1, <2>4
<1>6. Within(Notice(log), log)
  <2>1. PICK l : l = Line("system", 0)
    OBVIOUS
  <2>2. PICK q : q = Notice(log)
    OBVIOUS
  <2>3. GoesOn(q, log, l) /\ l.who # "interviewer"
    BY <2>1, <2>2, LogGoesOn DEF Notice, Line
  <2>4. PICK r : Kept(r, log) /\ Longer(q, r, l)
    BY <2>3 DEF GoesOn
  <2>5. PICK h : Embeds(h, r, log)
    BY <2>4 DEF Kept
  <2>6. \A k \in DOMAIN q : q[k].who = "interviewer" => k \in DOMAIN r /\ q[k] = r[k]
    BY <2>3, <2>4 DEF Longer
  <2>7. Within(q, log)
    <3>1. ASSUME NEW k \in DOMAIN q, q[k].who = "interviewer"
          PROVE  /\ h[k] \in DOMAIN log /\ log[h[k]] = q[k]
                 /\ \A j \in DOMAIN q : j < k /\ q[j].who = "interviewer" => h[j] < h[k]
      BY <2>5, <2>6, <3>1 DEF Embeds
    <3>2. QED
      BY <3>1 DEF Within
  <2>8. QED
    BY <2>2, <2>7
<1>7. QED
  BY <1>3, <1>4, <1>5, <1>6

\* Some of the frames, from the first on.
Less(r, q) == r = q \/ r = <<>> \/ \E k \in 0 .. Len(q) : r = SubSeq(q, 1, k)

\* No question comes, and what is left of the frames comes in the order it had.
LEMMA OrderStays ==
  ASSUME NEW was, NEW log, NEW down, NEW l, IsSeq(down), IsSeq(l), OrderAt(was, log, down, l),
         NEW m, Outgrows(m, was), Len(m) = Len(was),
         NEW new, Within(new, log), NEW d, Less(d, down), NEW k, Less(k, l) \/ Less(k, down)
  PROVE  OrderAt(m, new, d, k)
<1>1. ASSUME Len(m) = 0 PROVE NoQuestions(new)
  BY <1>1 DEF OrderAt, NoQuestions, Within
<1>2. ASSUME Len(m) = 1
      PROVE  LogIn(m[1].lines, new) /\ QueueIn(m[1].lines, new, d) /\ QueueIn(m[1].lines, new, k)
  <2>1. PICK before, lines : before = was[1].lines /\ lines = m[1].lines
    OBVIOUS
  <2>2. 1 \in DOMAIN was /\ Beginning(before, lines)
    BY <1>2, <2>1 DEF Outgrows, Beginning
  <2>3. LogIn(before, log) /\ QueueIn(before, log, down) /\ QueueIn(before, log, l)
    BY <1>2, <2>1 DEF OrderAt
  <2>4. LogIn(lines, log) /\ QueueIn(lines, log, down) /\ QueueIn(lines, log, l)
    BY <2>2, <2>3, OrderLasts
  <2>5. LogIn(lines, new) /\ QueueIn(lines, new, down) /\ QueueIn(lines, new, l)
    BY <2>4, WithinIsIn
  <2>6. ASSUME NEW q, IsSeq(q), QueueIn(lines, new, q), NEW r, Less(r, q) PROVE QueueIn(lines, new, r)
    <3>1. Len(q) \in Nat
      BY <2>6 DEF IsSeq
    <3>2. QueueIn(lines, new, <<>>) /\ \A i \in 0 .. Len(q) : QueueIn(lines, new, SubSeq(q, 1, i))
      BY <2>5, <2>6, <3>1, QueuePart
    <3>3. QED
      BY <2>6, <3>2 DEF Less
  <2>7. QED
    BY <2>1, <2>5, <2>6
<1>3. QED
  BY <1>1, <1>2 DEF OrderAt

\* The connection opens, is lost or is replaced, or the respondent speaks.
LEMMA ConnectionOrder ==
  ASSUME Talking, TextOn(page), OrderAt(interviews, page.log, sock.down, late), Outgrows(interviews', interviews),
         \/ Stays /\ UNCHANGED <<sock, late>> /\ Len(interviews') = Len(interviews)
         \/ Opened \/ Closed \/ StaleClose \/ Reconnect \/ SendReply \/ Watchdog
  PROVE  OrderAt(interviews', page'.log, sock'.down, late')
<1>1. /\ Parts /\ SockInv /\ SockShape(sock, late) /\ PageShape(page, sock, late)
      /\ IsSeq(sock.down) /\ IsSeq(late) /\ IsSeq(page.log)
  BY SockSeqs DEF Talking, Scene, PageShape
<1>2. Within(page.log, page.log) /\ Within(Notice(page.log), page.log)
  BY <1>1, WithinItself
<1>3. ASSUME Len(interviews') = Len(interviews), Within(page'.log, page.log),
             Less(sock'.down, sock.down), Less(late', late) \/ Less(late', sock.down)
      PROVE  OrderAt(interviews', page'.log, sock'.down, late')
  <2>1. PICK down, l, log : down = sock'.down /\ l = late' /\ log = page'.log
    OBVIOUS
  <2>2. OrderAt(interviews', log, down, l)
    BY <1>1, <1>3, <2>1, OrderStays
  <2>3. QED
    BY <2>1, <2>2
<1>4. CASE Stays /\ UNCHANGED <<sock, late>> /\ Len(interviews') = Len(interviews)
  BY <1>2, <1>3, <1>4 DEF Stays, Shows, Less
<1>5. CASE StaleClose \/ Watchdog
  BY <1>1, <1>2, <1>3, <1>5, StaleCloseIs, WatchdogIs DEF Shows, Less
<1>6. CASE Opened
  <2>1. UNCHANGED <<late, interviews>> /\ page'.log = page.log
    BY <1>1, <1>6, OpenedIs DEF Shows
  <2>2. sock'.down = sock.down
    BY <1>1, <1>6, OpenedIs DEF Now
  <2>3. QED
    BY <1>2, <1>3, <2>1, <2>2 DEF Less
<1>7. CASE Closed \/ Reconnect
  <2>1. UNCHANGED interviews /\ page'.log = page.log
    BY <1>1, <1>7, ClosedIs, ReconnectIs DEF Shows
  <2>2. sock'.down = <<>>
    BY <1>1, <1>7, ClosedIs, ReconnectIs DEF Now
  <2>3. PICK k \in 0 .. Len(sock.down) : Leaves(k)
    BY <1>1, <1>7, ClosedIs, ReconnectIs DEF Leaves
  <2>4. late' = late \/ late' = SubSeq(sock.down, 1, k)
    BY <1>1, <2>3, KeptLateIs DEF Leaves
  <2>5. Less(late', late) \/ Less(late', sock.down)
    BY <2>4 DEF Less
  <2>6. QED
    BY <1>2, <1>3, <2>1, <2>2, <2>5 DEF Less
<1>8. CASE SendReply
  <2>1. /\ UNCHANGED <<late, interviews>> /\ sock'.down = sock.down
        /\ \/ page'.log = page.log \o <<Line("respondent", replies'), Line("pending", 0)>>
           \/ page'.log = Append(page.log, Line("unsent", replies'))
    BY <1>1, <1>8, SendReplyIs DEF Shows, SaysSent, SaysUnsent, Now
  <2>2. PICK a, b, c : a = Line("respondent", replies') /\ b = Line("pending", 0) /\ c = Line("unsent", replies')
    OBVIOUS
  <2>3. a.who # "interviewer" /\ b.who # "interviewer" /\ c.who # "interviewer"
    BY <2>2 DEF Line
  <2>4. Within(page.log \o <<a, b>>, page.log) /\ Within(Append(page.log, c), page.log)
    BY <1>1, <2>3, WithinItself
  <2>5. Within(page'.log, page.log)
    BY <2>1, <2>2, <2>4
  <2>6. QED
    BY <1>3, <2>1, <2>5 DEF Less
<1>9. QED
  BY <1>4, <1>5, <1>6, <1>7, <1>8

\* The handshake: a new interview for a page without questions, or the history.
LEMMA ShakeOrder ==
  ASSUME Talking, TextOn(page), OrderAt(interviews, page.log, sock.down, late), Shake
  PROVE  OrderAt(interviews', page'.log, sock'.down, late')
<1>1. Parts /\ SockInv /\ LinesInv /\ SockShape(sock, late) /\ PageShape(page, sock, late)
  BY DEF Talking, Scene
<1>2. /\ UNCHANGED <<page, late>> /\ sock.st = "open" /\ sock.id = 0
      /\ \/ \E i : interviews' = Append(interviews, i) /\ Greets(Len(interviews'), FALSE)
         \/ UNCHANGED interviews /\ \E id \in 1 .. Len(interviews) : Greets(id, TRUE)
         \/ UNCHANGED interviews /\ \E reason : TurnsAway(reason)
  BY <1>1, ShakeIs
<1>3. sock.kind = "text" /\ late = <<>> /\ sock.down = <<>>
  BY <1>1, <1>2 DEF SockShape, PageShape, TextOn
<1>4. PICK log : log = page.log
  OBVIOUS
<1>5. ASSUME NEW f, f.type # "turn", sock'.down = <<f>>,
             Len(interviews') = 1 =>
               LogIn(interviews'[1].lines, IF f.type = "hello" /\ f.resumed THEN f.history ELSE log)
               /\ LogIn(interviews'[1].lines, log),
             Len(interviews') = 0 => NoQuestions(log)
      PROVE  OrderAt(interviews', page'.log, sock'.down, late')
  <2>1. PICK lines : lines = interviews'[1].lines
    OBVIOUS
  <2>2. ASSUME Len(interviews') = 1 PROVE LogIn(lines, log) /\ QueueIn(lines, log, <<f>>) /\ QueueIn(lines, log, <<>>)
    <3>1. LogIn(lines, log) /\ IF f.type = "hello" /\ f.resumed THEN LogIn(lines, f.history) ELSE LogIn(lines, log)
      BY <1>5, <2>1, <2>2
    <3>2. QueueIn(lines, log, <<f>>)
      BY <1>5, <3>1, OneQueued
    <3>3. QED
      BY <3>1, <3>2, NothingQueued
  <2>3. QED
    BY <1>2, <1>3, <1>4, <1>5, <2>1, <2>2 DEF OrderAt
<1>6. ASSUME NEW i, interviews' = Append(interviews, i), Greets(Len(interviews'), FALSE)
      PROVE  OrderAt(interviews', page'.log, sock'.down, late')
  <2>1. PICK f : f = Hello(Len(interviews'), FALSE)
    OBVIOUS
  <2>2. f.type = "hello" /\ ~f.resumed /\ Append(<<>>, f) = <<f>>
    BY <2>1 DEF Hello
  <2>3. sock'.down = <<f>>
    BY <1>3, <1>6, <2>1, <2>2 DEF Greets, Now
  <2>4. Len(interviews') = Len(interviews) + 1 /\ Len(interviews) \in Nat
    <3>1. IsSeq(interviews)
      BY <1>1, LedgerIs DEF IsLedger
    <3>2. QED
      BY <1>6, <3>1 DEF IsSeq
  <2>5. ASSUME Len(interviews') = 1 PROVE LogIn(interviews'[1].lines, log)
    <3>1. Len(interviews) = 0
      <4>1. PICK n, m : n = Len(interviews) /\ m = Len(interviews')
        OBVIOUS
      <4>2. m = n + 1 /\ n \in Nat /\ m = 1
        BY <2>4, <2>5, <4>1
      <4>3. n = 0
        BY <4>2
      <4>4. QED
        BY <4>1, <4>3
    <3>2. NoQuestions(log)
      BY <1>4, <3>1 DEF OrderAt
    <3>3. QED
      BY <3>2, NothingQueued
  <2>6. QED
    BY <1>5, <2>2, <2>3, <2>4, <2>5
<1>7. ASSUME NEW id \in 1 .. Len(interviews), UNCHANGED interviews, Greets(id, TRUE)
      PROVE  OrderAt(interviews', page'.log, sock'.down, late')
  <2>1. PICK f : f = Hello(id, TRUE)
    OBVIOUS
  <2>2. f.type = "hello" /\ f.resumed /\ f.history = interviews[id].lines /\ Append(<<>>, f) = <<f>>
    BY <2>1 DEF Hello
  <2>3. sock'.down = <<f>>
    BY <1>3, <1>7, <2>1, <2>2 DEF Greets, Now
  <2>4. LogIn(interviews[id].lines, interviews[id].lines)
    BY DEF LogIn, Put, Precedes
  <2>5. Len(interviews') # 0 /\ (Len(interviews') = 1 => id = 1 /\ LogIn(interviews[1].lines, log))
    <3>1. interviews' = interviews /\ Len(interviews) \in Nat
      BY <1>1, <1>7 DEF LinesInv, LedgerInv
    <3>2. Len(interviews) # 0 /\ (Len(interviews) = 1 => id = 1)
      <4>1. PICK n : n = Len(interviews)
        OBVIOUS
      <4>2. id \in 1 .. n /\ n \in Nat
        BY <3>1, <4>1
      <4>3. n # 0 /\ (n = 1 => id = 1)
        BY <4>2
      <4>4. QED
        BY <4>1, <4>3
    <3>3. QED
      BY <1>4, <3>1, <3>2 DEF OrderAt
  <2>6. QED
    BY <1>5, <1>7, <2>2, <2>3, <2>4, <2>5
<1>8. ASSUME NEW reason, UNCHANGED interviews, TurnsAway(reason)
      PROVE  OrderAt(interviews', page'.log, sock'.down, late')
  <2>1. PICK f : f = ErrorFrame(reason, FALSE)
    OBVIOUS
  <2>2. f.type = "error" /\ sock'.down = <<f>>
    BY <1>8, <2>1 DEF ErrorFrame, TurnsAway, Now
  <2>3. QED
    BY <1>4, <1>5, <1>8, <2>2 DEF OrderAt
<1>9. QED
  BY <1>2, <1>6, <1>7, <1>8

\* A reply is answered with the turn it has got, or with an error.
LEMMA ServeOrder ==
  ASSUME Talking, TextOn(page), OrderAt(interviews, page.log, sock.down, late),
         Numbered(sock.up, limbo, interviews, replies), Serve
  PROVE  OrderAt(interviews', page'.log, sock'.down, late')
<1>1. /\ Parts /\ SockInv /\ LinesInv /\ SockShape(sock, late) /\ IsSeq(sock.down) /\ IsSeq(sock.up)
  BY SockSeqs DEF Talking, Scene
<1>2. /\ UNCHANGED <<page, late>> /\ sock.st = "open" /\ sock.up # <<>> /\ Head(sock.up).type = "reply"
      /\ sock.id \in 1 .. Len(interviews)
      /\ \/ \E kind, f : /\ interviews' = WithTurn(sock.id, Head(sock.up).n, kind)
                         /\ f.type = "turn" /\ f.n = Head(sock.up).n /\ SendsOne(f)
         \/ UNCHANGED interviews /\ SendsOne(ErrorFrame("interviewer_unavailable", TRUE))
  BY <1>1, ServeIs
<1>3. late = <<>>
  BY <1>1, <1>2 DEF SockShape
<1>4. PICK log, down : log = page.log /\ down = sock.down
  OBVIOUS
<1>5. PICK len : len = Len(interviews)
  OBVIOUS
<1>6. len \in Nat /\ sock.id \in 1 .. len
  BY <1>1, <1>2, <1>5 DEF LinesInv, LedgerInv
<1>7. len # 0 /\ (len = 1 => sock.id = 1)
  BY <1>6
<1>8. Head(sock.up).n # 0
  <2>1. 1 \in DOMAIN sock.up /\ Head(sock.up) = sock.up[1]
    BY <1>1, <1>2 DEF IsSeq
  <2>2. Head(sock.up).n \in 1 .. replies
    BY <1>2, <2>1 DEF Numbered
  <2>3. QED
    BY <2>2
<1>9. ASSUME NEW f, f.type # "hello", SendsOne(f), Len(interviews') = Len(interviews),
             len = 1 => /\ Beginning(interviews[1].lines, interviews'[1].lines)
                        /\ f.type = "turn" => f.n # 0 /\ TwoMore(interviews'[1].lines, interviews[1].lines, f.n)
      PROVE  OrderAt(interviews', page'.log, sock'.down, late')
  <2>1. PICK was, lines : was = interviews[1].lines /\ lines = interviews'[1].lines
    OBVIOUS
  <2>2. sock'.down = Append(down, f)
    BY <1>4, <1>9 DEF SendsOne, Now
  <2>3. ASSUME len = 1 PROVE LogIn(lines, log) /\ QueueIn(lines, log, Append(down, f)) /\ QueueIn(lines, log, <<>>)
    <3>1. Beginning(was, lines) /\ LogIn(was, log) /\ QueueIn(was, log, down)
          /\ (f.type = "turn" => f.n # 0 /\ TwoMore(lines, was, f.n))
      BY <1>4, <1>5, <1>9, <2>1, <2>3 DEF OrderAt
    <3>2. LogIn(lines, log)
      BY <3>1, OrderLasts
    <3>3. QueueIn(lines, log, Append(down, f))
      BY <1>1, <1>4, <1>9, <3>1, QueueMore
    <3>4. QED
      BY <3>2, <3>3, NothingQueued
  <2>4. page'.log = log /\ late' = <<>>
    BY <1>2, <1>3, <1>4
  <2>5. QED
    BY <1>5, <1>7, <1>9, <2>1, <2>2, <2>3, <2>4 DEF OrderAt
<1>10. ASSUME NEW kind, NEW f, interviews' = WithTurn(sock.id, Head(sock.up).n, kind),
              f.type = "turn", f.n = Head(sock.up).n, SendsOne(f)
       PROVE  OrderAt(interviews', page'.log, sock'.down, late')
  <2>1. PICK id, n : id = sock.id /\ n = Head(sock.up).n
    OBVIOUS
  <2>2. TurnIn(interviews', interviews, id, n) /\ Outgrows(interviews', interviews)
    BY <1>1, <1>10, <2>1, WithTurnIs
  <2>3. Len(interviews') = Len(interviews)
    BY <2>2 DEF TurnIn
  <2>4. ASSUME len = 1
        PROVE  Beginning(interviews[1].lines, interviews'[1].lines) /\ TwoMore(interviews'[1].lines, interviews[1].lines, n)
    <3>1. 1 \in DOMAIN interviews /\ id = 1
      BY <1>5, <1>7, <2>1, <2>2, <2>4 DEF Outgrows
    <3>2. QED
      BY <2>2, <3>1 DEF TurnIn, Outgrows, Beginning
  <2>5. QED
    BY <1>8, <1>9, <1>10, <2>1, <2>3, <2>4
<1>11. CASE UNCHANGED interviews /\ SendsOne(ErrorFrame("interviewer_unavailable", TRUE))
  <2>1. PICK f : f = ErrorFrame("interviewer_unavailable", TRUE)
    OBVIOUS
  <2>2. f.type = "error" /\ SendsOne(f)
    BY <1>11, <2>1 DEF ErrorFrame
  <2>3. Beginning(interviews[1].lines, interviews'[1].lines)
    BY <1>11 DEF Beginning
  <2>4. Len(interviews') = Len(interviews)
    BY <1>11
  <2>5. QED
    BY <1>9, <2>2, <2>3, <2>4
<1>12. QED
  BY <1>2, <1>10, <1>11

\* A frame is taken; the frames of another connection are none.
LEMMA MessageOrder ==
  ASSUME Talking, TextOn(page), TextOn(page'), OrderAt(interviews, page.log, sock.down, late),
         OpensInv(token, sock, late, interviews), OnMessage
  PROVE  OrderAt(interviews', page'.log, sock'.down, late')
<1>1. /\ Parts /\ LedgerInv /\ SockInv /\ LinesInv /\ HonestInv(sock, late, interviews)
      /\ SockShape(sock, late) /\ PageShape(page, sock, late)
      /\ IsSeq(sock.down) /\ IsSeq(late) /\ IsSeq(page.log)
  BY SockSeqs DEF Talking, Scene, PageShape
<1>2. PICK f : /\ Truthful(f, Len(interviews), Over) /\ HonestFrame(f, interviews)
               /\ Understands(f) /\ (TakesCurrent(f) \/ TakesEarlier(f))
  BY <1>1, OnMessageIs
<1>3. UNCHANGED interviews
  BY DEF OnMessage, serverVars
<1>4. PICK log, new, lines : log = page.log /\ new = page'.log /\ lines = interviews[1].lines
  OBVIOUS
<1>5. ASSUME Len(interviews) = 0 PROVE FALSE
  <2>1. f = ErrorFrame("campaign_not_live", FALSE)
    BY <1>2, <1>5 DEF HonestFrame
  <2>2. f.type = "error" /\ ~f.recoverable /\ f.reason = "campaign_not_live"
    BY <2>1 DEF ErrorFrame
  <2>3. QED
    BY <1>2, <2>2 DEF Understands, Shows, TextOn
<1>6. ASSUME Len(interviews) = 1, NEW q, IsSeq(q), q # <<>>, f = Head(q), q = sock.down \/ q = late,
             q = sock.down => sock.kind = "text"
      PROVE  LogIn(lines, new) /\ QueueIn(lines, new, Tail(q))
  <2>1. LogIn(lines, log) /\ QueueIn(lines, log, q)
    BY <1>4, <1>6 DEF OrderAt
  <2>2. 1 \in DOMAIN q /\ f = q[1]
    BY <1>6 DEF IsSeq
  <2>3. ASSUME f.type = "hello" PROVE 1 \in DOMAIN lines /\ lines[1] = Question(0)
    <3>1. Opens(interviews, f.id)
      BY <1>6, <2>2, <2>3 DEF OpensInv, Joins
    <3>2. f.id \in 1 .. Len(interviews)
      BY <1>2, <2>3 DEF Truthful
    <3>3. f.id = 1
      BY <1>6, <3>2
    <3>4. QED
      BY <1>4, <3>1, <3>3 DEF Opens
  <2>4. Logs(f, lines, log, new)
    <3>1. CASE f.type = "hello"
      <4>1. PICK said : /\ said = IF f.resumed THEN f.history ELSE log
                        /\ new = IF said = <<>> THEN <<Question(0)>> ELSE said
        BY <1>2, <1>4, <3>1 DEF Understands, Shows, Ends, Question
      <4>2. QED
        BY <2>3, <3>1, <4>1 DEF Logs
    <3>2. CASE f.type = "turn"
      <4>1. new = Append(Settled(log), Question(f.n))
        BY <1>2, <1>4, <3>2 DEF Understands, Shows, Ends, Question
      <4>2. QED
        BY <3>2, <4>1 DEF Logs
    <3>3. CASE f.type = "error"
      <4>1. new = Notice(log) \/ new = log
        BY <1>2, <1>4, <3>3 DEF Understands, Shows, TextOn
      <4>2. Within(new, log)
        BY <1>1, <1>4, <4>1, WithinItself
      <4>3. QED
        BY <3>3, <4>2 DEF Logs
    <3>4. QED
      BY <1>2, <3>1, <3>2, <3>3 DEF Truthful
  <2>5. IsSeq(lines)
    <3>1. IsLedger(interviews) /\ 1 \in DOMAIN interviews
      <4>1. IsLedger(interviews)
        BY <1>1, LedgerIs
      <4>2. DOMAIN interviews = 1 .. Len(interviews)
        BY <4>1 DEF IsLedger, IsSeq
      <4>3. QED
        BY <1>6, <4>1, <4>2
    <3>2. QED
      BY <1>4, <3>1 DEF IsLedger
  <2>6. Logs(Head(q), lines, log, new) /\ IsSeq(log)
    BY <1>1, <1>4, <1>6, <2>4
  <2>7. QED
    BY <1>6, <2>1, <2>5, <2>6, FrameTaken
<1>7. ASSUME LogIn(lines, new) PROVE QueueIn(lines, new, <<>>)
  BY <1>7, NothingQueued
<1>8. ASSUME Len(interviews) = 1
      PROVE  LogIn(lines, new) /\ QueueIn(lines, new, sock'.down) /\ QueueIn(lines, new, late')
  <2>1. CASE TakesCurrent(f)
    <3>1. /\ sock.kind = "text" /\ sock.down # <<>> /\ f = Head(sock.down) /\ sock.st \in {"open", "ending"}
          /\ late' = late /\ sock'.down \in {<<>>, Tail(sock.down)}
      BY <2>1 DEF TakesCurrent, Now
    <3>2. late' = <<>>
      BY <1>1, <3>1 DEF SockShape
    <3>3. LogIn(lines, new) /\ QueueIn(lines, new, Tail(sock.down))
      BY <1>1, <1>6, <1>8, <3>1
    <3>4. QED
      BY <1>7, <3>1, <3>2, <3>3
  <2>2. CASE TakesEarlier(f)
    <3>1. /\ late # <<>> /\ f = Head(late) /\ late' = Tail(late) /\ sock'.down \in {<<>>, sock.down}
      BY <2>2 DEF TakesEarlier, Now
    <3>2. sock.down = <<>>
      BY <1>1, <3>1 DEF SockShape
    <3>3. LogIn(lines, new) /\ QueueIn(lines, new, Tail(late))
      BY <1>1, <1>6, <1>8, <3>1, <3>2
    <3>4. QED
      BY <1>7, <3>1, <3>2, <3>3
  <2>3. QED
    BY <1>2, <2>1, <2>2
<1>9. QED
  BY <1>3, <1>4, <1>5, <1>8 DEF OrderAt

LEMMA OrderKept ==
  ASSUME Talking, OrderInv(page, sock, late, interviews), OpensInv(token, sock, late, interviews),
         Numbered(sock.up, limbo, interviews, replies), Outgrows(interviews', interviews),
         [Next]_vars, surface # "headless"
  PROVE  OrderInv(page', sock', late', interviews')
<1> SUFFICES ASSUME TextOn(page') PROVE OrderAt(interviews', page'.log, sock'.down, late')
  BY DEF OrderInv
<1>1. \/ /\ Mute(page'.log) /\ late' = <<>> /\ UNCHANGED interviews
         /\ Now("text", "connecting", 0, <<>>, <<>>)
      \/ /\ TextOn(page)
         /\ \/ Stays /\ UNCHANGED <<sock, late>> /\ Len(interviews') = Len(interviews)
            \/ Opened \/ Closed \/ StaleClose \/ Reconnect \/ Shake \/ Serve \/ OnMessage \/ SendReply
            \/ Watchdog
  BY TextSteps DEF Talking
<1>2. CASE Mute(page'.log) /\ late' = <<>> /\ Now("text", "connecting", 0, <<>>, <<>>)
  <2>1. NoQuestions(page'.log) /\ sock'.down = <<>>
    BY <1>2 DEF Mute, NoQuestions, Now
  <2>2. \A lines : LogIn(lines, page'.log) /\ QueueIn(lines, page'.log, <<>>)
    BY <2>1, NothingQueued
  <2>3. QED
    BY <1>2, <2>1, <2>2 DEF OrderAt
<1>3. TextOn(page) => OrderAt(interviews, page.log, sock.down, late)
  BY DEF OrderInv
<1>4. QED
  BY <1>1, <1>2, <1>3, ConnectionOrder, ShakeOrder, ServeOrder, MessageOrder

OrderTalkInv ==
  /\ surface = "headless" => page.info = "absent"
  /\ surface # "headless" => /\ Numbered(sock.up, limbo, interviews, replies)
                             /\ OpensInv(token, sock, late, interviews)
                             /\ OrderInv(page, sock, late, interviews)

LEMMA OrderStarts == Init => OrderTalkInv
<1> SUFFICES ASSUME Init PROVE OrderTalkInv
  OBVIOUS
<1>1. /\ sock = NoSock /\ late = <<>> /\ interviews = <<>> /\ limbo = <<>> /\ replies = 0 /\ token = 0
      /\ (surface = "headless" => page = Absent)
  BY DEF Init, PageInit
<1>2. surface = "headless" => page.info = "absent"
  BY <1>1, AbsentIs
<1>3. DOMAIN <<>> = {} /\ <<>> \in Seq({}) /\ Len(<<>>) = 0
  OBVIOUS
<1>4. sock.kind = "none" /\ sock.up = <<>> /\ sock.down = <<>>
  BY <1>1 DEF NoSock
<1>5. Numbered(sock.up, limbo, interviews, replies)
  BY <1>1, <1>3, <1>4 DEF Numbered, IsSeq
<1>6. OpensInv(token, sock, late, interviews)
  BY <1>1, <1>3, <1>4 DEF OpensInv
<1>7. OrderInv(page, sock, late, interviews)
  <2>1. TalkInv
    BY TalkStarts
  <2>2. surface # "headless" => PageShape(page, sock, late)
    BY <2>1 DEF TalkInv, Scene
  <2>3. page \in {Mounted(TRUE, FALSE), Absent}
    BY DEF Init, PageInit
  <2>4. Mounted(TRUE, FALSE).info = "loading"
    BY DEF Mounted
  <2>5. ~TextOn(page)
    BY <2>3, <2>4, AbsentIs DEF TextOn
  <2>6. QED
    BY <2>5 DEF OrderInv
<1>8. QED
  BY <1>2, <1>5, <1>6, <1>7 DEF OrderTalkInv

LEMMA OrderHolds == SiteInv /\ ClientInv /\ TalkInv /\ OrderTalkInv /\ [Next]_vars => OrderTalkInv'
<1> SUFFICES ASSUME SiteInv, ClientInv, TalkInv, OrderTalkInv, [Next]_vars PROVE OrderTalkInv'
  OBVIOUS
<1>1. UNCHANGED surface
  BY DEF Next, Embedded, Direct, Headless, vars
<1>2. CASE surface = "headless"
  <2>1. UNCHANGED page
    BY <1>2 DEF Next, Embedded, Direct, Headless, vars, pageVars
  <2>2. QED
    BY <1>1, <1>2, <2>1 DEF OrderTalkInv
<1>3. CASE surface # "headless"
  <2>1. /\ Talking /\ Numbered(sock.up, limbo, interviews, replies)
        /\ OpensInv(token, sock, late, interviews) /\ OrderInv(page, sock, late, interviews)
    BY <1>3, TalkingIs DEF OrderTalkInv
  <2>2. Outgrows(interviews', interviews)
    BY <1>3, <2>1, LedgerMoves DEF Talking
  <2>3. Numbered(sock'.up, limbo', interviews', replies')
    BY <1>3, <2>1, NumberedKept
  <2>4. OpensInv(token', sock', late', interviews')
    BY <1>3, <2>1, <2>2, OpensKept
  <2>5. OrderInv(page', sock', late', interviews')
    BY <1>3, <2>1, <2>2, OrderKept
  <2>6. QED
    BY <1>1, <1>3, <2>3, <2>4, <2>5 DEF OrderTalkInv
<1>4. QED
  BY <1>2, <1>3

LEMMA OrderAlways == Spec => []OrderTalkInv
BY SiteAlways, ClientAlways, TalkAlways, OrderStarts, OrderHolds, PTL DEF Spec

\* The page puts the questions of its interview in the order in which they were
\* asked and none of them twice, however often the connection is lost and the
\* interview taken up again.
THEOREM QuestionsStayInOrder == Spec => []QuestionsInOrder
<1>1. SiteInv /\ ClientInv /\ TalkInv /\ OrderTalkInv => QuestionsInOrder
  <2> SUFFICES ASSUME SiteInv, ClientInv, TalkInv, OrderTalkInv, Screen = "text", Len(interviews) = 1
               PROVE  LET questions == {k \in DOMAIN page.log : page.log[k].who = "interviewer"}
                          asked     == interviews[1].lines
                      IN /\ \A k \in questions : Contains(asked, page.log[k])
                         /\ \A j, k \in questions :
                              j < k => page.log[j] # page.log[k] /\ Precedes(asked, page.log[j], page.log[k])
    BY DEF QuestionsInOrder
  <2>1. page.info # "absent"
    BY DEF Screen
  <2>2. /\ Talking /\ Numbered(sock.up, limbo, interviews, replies)
        /\ OrderInv(page, sock, late, interviews)
    BY <2>1, TalkingIs DEF OrderTalkInv
  <2>3. TextOn(page)
    BY <2>2, ScreenIs DEF Talking
  <2>4. PICK asked : asked = interviews[1].lines
    OBVIOUS
  <2>5. LogIn(asked, page.log)
    BY <2>2, <2>3, <2>4 DEF OrderInv, OrderAt
  <2>6. 1 \in DOMAIN interviews /\ DOMAIN asked = 1 .. Len(asked)
    <3>1. IsLedger(interviews)
      BY <2>2, LedgerIs DEF Talking
    <3>2. 1 \in DOMAIN interviews
      BY <3>1 DEF IsLedger, IsSeq
    <3>3. QED
      BY <2>4, <3>1, <3>2 DEF IsLedger, IsSeq
  <2>7. ASSUME NEW k \in DOMAIN page.log, page.log[k].who = "interviewer" PROVE Contains(asked, page.log[k])
    BY <2>5, <2>6, <2>7 DEF LogIn, Put, Contains
  <2>8. ASSUME NEW j \in DOMAIN page.log, NEW k \in DOMAIN page.log, j < k,
               page.log[j].who = "interviewer", page.log[k].who = "interviewer"
        PROVE  page.log[j] # page.log[k] /\ Precedes(asked, page.log[j], page.log[k])
    <3>1. Precedes(asked, page.log[j], page.log[k])
      BY <2>5, <2>8 DEF LogIn
    <3>2. PICK a \in DOMAIN asked, b \in DOMAIN asked : a < b /\ asked[a] = page.log[j] /\ asked[b] = page.log[k]
      BY <3>1 DEF Precedes
    <3>3. asked[a].n # asked[b].n
      BY <2>2, <2>4, <2>6, <2>8, <3>2 DEF Numbered
    <3>4. QED
      BY <3>1, <3>2, <3>3
  <2>9. QED
    BY <2>4, <2>7, <2>8
<1>2. QED
  BY <1>1, SiteAlways, ClientAlways, TalkAlways, OrderAlways, PTL
==============================================================================
