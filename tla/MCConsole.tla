------------------------------- MODULE MCConsole -------------------------------
(***************************************************************************)
(* Small instances of the researcher's pages.                              *)
(***************************************************************************)
EXTENDS ResearchConsole

\* A draft fills nothing or the three blocks that a guide needs; the assistant
\* finds what the study is for, or all it needs to know.
MCDrafts   == {{}, {"evaluation", "outline", "cases"}}
MCFindings == {{"objective"}, {"decision", "objective", "audience"}}

\* A run whose two tools answer out of order, one of them with a failure, and a
\* run that asks.
MCScripts ==
  LET E(type, id) == [type |-> type, id |-> id]
  IN {<<E("tool_call", 1), E("tool_call", 2), E("campaigns", 1), E("tool_error", 2), E("done", 0)>>,
      <<E("plan_update", 0), E("confirm_request", 1), E("confirmation_result", 1), E("verification", 1), E("error", 0)>>}

\* Two interviews, one of them still under way; texts are sets of words.
Interview(id, channel, source, status, progress, turns) ==
  [id |-> id, who |-> id, ref |-> {}, channel |-> channel, source |-> source, status |-> status,
   coverage |-> progress, seconds |-> progress, completed |-> IF status = "completed" THEN 2 ELSE 0, turns |-> turns]

MCInterviews ==
  LET Says(role, words) == [role |-> role, text |-> words]
  IN <<Interview("v2", "web_voice", "direct", "in_progress", 1,
                 <<Says("interviewer", {"b"}), Says("respondent", {"b"})>>),
       Interview("v1", "web_text", "link", "completed", 2,
                 <<Says("interviewer", {"a"}), Says("respondent", {"a", "b"}), Says("respondent", {"c"})>>)>>

\* Two themes, a concern with advice, and quotes: said in either interview, by
\* one or several, under a theme or under none, or not said by anyone.
MCInsights ==
  LET Theme(id, label) ==
        [id |-> id, kind |-> "theme", label |-> label, quote |-> {}, interview |-> "", theme |-> "", advice |-> FALSE]
      Quote(id, word, interview, theme) ==
        [id |-> id, kind |-> "verbatim", label |-> "", quote |-> {word}, interview |-> interview, theme |-> theme, advice |-> FALSE]
  IN {Theme("t1", "price"), Theme("t2", "trust"),
      [Theme("c1", "price") EXCEPT !.kind = "concern", !.advice = TRUE],
      Quote("q1", "b", "v1", "price"), Quote("q2", "b", "v2", "trust"),
      Quote("q3", "c", "v1", ""), Quote("q4", "d", "v2", "price")}

\* No insights, or two or three of them in any order.
MCDocuments ==
  {[insights |-> s, interviews |-> MCInterviews] :
     s \in {t \in UNION {[1 .. n -> MCInsights] : n \in {0, 2, 3}} : \A i, j \in DOMAIN t : i # j => t[i] # t[j]}}
MCQueries == {{}, {"b"}}

\* No studies, or two of one name.
MCLists == {<<>>, <<[title |-> "a", created |-> 1], [title |-> "a", created |-> 0]>>}
MCItems == {[id |-> 1, kind |-> "x"], [id |-> 2, kind |-> "y"]}
================================================================================
