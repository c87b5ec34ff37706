--------------------------- MODULE InterviewServer ---------------------------
(***************************************************************************)
(* What a respondent's browser can tell of the server: the interviews it   *)
(* keeps, the frames it answers with and the reasons it rejects a          *)
(* connection for.  InterviewSession is about the inside of a turn; here a *)
(* turn is one step, so that the clients can be modelled in detail.        *)
(***************************************************************************)
EXTENDS Naturals, Sequences, SequencesExt, FiniteSets

CONSTANTS
  Questions,    \* the items of the guide
  MaxReplies,   \* bound: replies a respondent gives, those sent again included
  MaxSessions,  \* bound: interviews begun
  MaxFaults     \* bound: lost connections, reloads, rejections and failing models

ASSUME ServerAssumption ==
  /\ Questions \in Nat \ {0}
  /\ MaxReplies \in Nat /\ MaxSessions \in Nat \ {0} /\ MaxFaults \in Nat

VARIABLES
  interviews,   \* the interviews, in the order they began; 0 is none
  limbo,        \* replies the server took over from a connection that is gone
  replies,      \* replies given so far
  faults        \* faults so far

serverVars == <<interviews, limbo, replies, faults>>

-----------------------------------------------------------------------------
\* Reply n and the turn that answers it bear the same number; the opening is 0.
Line(who, n) == [who |-> who, n |-> n]

Begun == [lines |-> <<Line("interviewer", 0)>>, order |-> 1, over |-> FALSE]

Recorded(n) == \E i \in DOMAIN interviews : Contains(interviews[i].lines, Line("respondent", n))

\* The agent probes, moves on, or wraps up after the last question; a reply to
\* an interview that is over gets another farewell.
Kinds(i) ==
  IF interviews[i].over THEN {"wrap_up"}
  ELSE {"probe", IF interviews[i].order < Questions THEN "ask" ELSE "wrap_up"}

WithTurn(i, n, kind) ==
  [interviews EXCEPT
     ![i] = [lines |-> @.lines \o <<Line("respondent", n), Line("interviewer", n)>>,
             order |-> @.order + (IF kind = "ask" THEN 1 ELSE 0),
             over  |-> @.over \/ kind = "wrap_up"]]

-----------------------------------------------------------------------------
\* The frames.  HELLO of a resumed interview carries its history, and takes it
\* that each answer was one to a question of its own.
Resumed(i) ==
  LET answered == Len(SelectSeq(interviews[i].lines, LAMBDA l : l.who = "respondent"))
  IN IF answered < Questions THEN answered + 1 ELSE Questions
Hello(i, resumed) ==
  [type |-> "hello", id |-> i, resumed |-> resumed,
   history |-> IF resumed THEN interviews[i].lines ELSE <<>>,
   order |-> IF resumed THEN Resumed(i) ELSE 1]

\* A turn is about the question its interview has come to.
TurnFrame(n, kind, i) ==
  [type |-> "turn", n |-> n, kind |-> kind, order |-> interviews[i].order + (IF kind = "ask" THEN 1 ELSE 0)]
ErrorFrame(reason, recoverable) ==
  [type |-> "error", reason |-> reason, recoverable |-> recoverable]

\* What a handshake is answered with.  A token is refused when it has expired,
\* and any connection is when the study has been closed meanwhile.
Rejections(tok) ==
  {"campaign_not_live"} \cup (IF tok = 0 THEN {} ELSE {"interview_resume_invalid"})

\* A handler whose client is gone still ends its turn, or dies first.
Straggler ==
  /\ limbo # <<>>
  /\ LET r == Head(limbo) IN
     \/ \E kind \in Kinds(r.id) : interviews' = WithTurn(r.id, r.n, kind)
     \/ UNCHANGED interviews
  /\ limbo' = Tail(limbo)
  /\ UNCHANGED <<replies, faults>>
=============================================================================
