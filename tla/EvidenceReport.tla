---------------------------- MODULE EvidenceReport ----------------------------
(***************************************************************************)
(* What a researcher reads of the evidence: the report, with its numbered  *)
(* citations, its export and the transcript a citation opens, and the      *)
(* table of responses.  The browser builds all of it from one document     *)
(* (evidenceGraph.ts, reportModel.ts, ReportView.tsx, report/page.tsx,     *)
(* ResponseTable.tsx).                                                     *)
(*                                                                         *)
(* A text is the set of its words, a quote a part of one.                  *)
(***************************************************************************)
EXTENDS Naturals, Sequences, SequencesExt, FiniteSets

CONSTANTS
  Documents,  \* the evidence documents that the server may hold
  Queries,    \* what is typed in the table's search, {} for nothing
  MaxFaults   \* bound: reads that fail

VARIABLES
  doc,    \* on the server
  read,   \* the provider: the graph it holds, whether it loads, whether it failed
  leaf,   \* what is open: a citation, and the file that was exported
  table,  \* the controls of the table
  faults

reportVars == <<doc, read, leaf, table, faults>>

-----------------------------------------------------------------------------
(* What is chosen from a list.                                             *)

\* The numbers of S up to n, in ascending order.
Ascending(S, n) ==
  LET upTo[k \in 0 .. n] ==
        IF k = 0 THEN <<>> ELSE IF k \in S THEN Append(upTo[k - 1], k) ELSE upTo[k - 1]
  IN upTo[n]

At(list, places)    == LET ns == Ascending(places, Len(list)) IN [k \in DOMAIN ns |-> list[ns[k]]]
Kept(list, Test(_)) == At(list, {n \in DOMAIN list : Test(list[n])})
Distinct(list)      == At(list, {n \in DOMAIN list : \A m \in 1 .. n - 1 : list[m] # list[n]})

-----------------------------------------------------------------------------
(* The graph: evidenceGraph.ts.                                            *)

Interview(d, id) == SelectInSeq(d.interviews, LAMBDA v : v.id = id)

\* transcriptTurn: the first answer that the quote is, is in, or contains.
CitedTurn(v, quote) ==
  SelectInSeq(v.turns, LAMBDA t : t.role = "respondent" /\ (quote \subseteq t.text \/ t.text \subseteq quote))

Grounded(d, i) ==
  /\ i.kind = "verbatim" /\ i.quote # {}
  /\ Interview(d, i.interview) # 0
  /\ CitedTurn(d.interviews[Interview(d, i.interview)], i.quote) # 0

\* buildCitationMeta
Citation(d, i) ==
  LET v == d.interviews[Interview(d, i.interview)]
  IN [id |-> i.id, theme |-> i.theme, quote |-> i.quote, interview |-> v.id, who |-> v.who, turn |-> CitedTurn(v, i.quote)]
Citations(d) ==
  LET is == Kept(d.insights, LAMBDA i : Grounded(d, i)) IN [n \in DOMAIN is |-> Citation(d, is[n])]

\* buildInsight: its own quote, or those of the theme that bears its name.
Insight(d, i) ==
  [id |-> i.id, kind |-> i.kind, label |-> i.label, advice |-> i.advice,
   evidence |-> Kept(Citations(d), LAMBDA c : c.id = i.id \/ (c.theme # "" /\ c.theme = i.label))]

\* buildEvidenceGraph
Graph(d) ==
  [citations   |-> Citations(d),
   insights    |-> [n \in DOMAIN d.insights |-> Insight(d, d.insights[n])],
   respondents |-> d.interviews]

NoGraph == [citations |-> <<>>, insights |-> <<>>, respondents |-> <<>>]

Themes(g) == Kept(g.insights, LAMBDA i : i.kind = "theme")

-----------------------------------------------------------------------------
(* The report: reportModel.ts, ReportView.tsx.                             *)

\* getReportInsights
Ranked == <<"theme", "concern", "metric", "persona">>
ReportInsights(g) ==
  FlattenSeq([r \in DOMAIN Ranked |-> Kept(g.insights, LAMBDA i : i.kind = Ranked[r])])

Cited(insights) == FlattenSeq([n \in DOMAIN insights |-> insights[n].evidence])
Ids(citations)  == [n \in DOMAIN citations |-> citations[n].id]

\* Mutant of Numbered: the citations that no finding uses get no number.
NumberedByUse(g) == Distinct(Ids(Cited(ReportInsights(g) \o Themes(g))))

\* buildReportCitationIndex: the citation with number n is the n-th.
Numbered(g) == Distinct(Ids(Cited(ReportInsights(g) \o Themes(g)) \o g.citations))

Number(index, id) == SelectInSeq(index, LAMBDA x : x = id)

\* CitationMarkers
Markers(index, i) == Ascending({Number(index, i.evidence[n].id) : n \in DOMAIN i.evidence}, Len(index))

\* getOrderedReportCitations
Appendix(g, index) ==
  LET numbers == Ascending({Number(index, g.citations[n].id) : n \in DOMAIN g.citations}, Len(index))
      at(k)   == g.citations[SelectInSeq(g.citations, LAMBDA c : c.id = index[k])]
  IN [n \in DOMAIN numbers |-> [num |-> numbers[n], citation |-> at(numbers[n])]]

Marked(index, insights) ==
  [n \in DOMAIN insights |-> [id |-> insights[n].id, markers |-> Markers(index, insights[n])]]
Advice(insights) == Kept(insights, LAMBDA i : i.advice)

\* ReportView, in the order of its chapters.
View(g) ==
  LET index    == Numbered(g)
      findings == ReportInsights(g)
  IN [findings |-> Marked(index, findings), analysis |-> Marked(index, Themes(g)),
      advice   |-> Marked(index, Advice(findings)), notes |-> Appendix(g, index), quotes |-> Len(g.citations)]

\* toMarkdown: the advice is in the graph's order, and bears no markers.
Markdown(g) ==
  LET index  == Numbered(g)
      advice == Advice(g.insights)
  IN [findings |-> Marked(index, ReportInsights(g)), analysis |-> Marked(index, Themes(g)),
      advice   |-> [n \in DOMAIN advice |-> [id |-> advice[n].id, markers |-> <<>>]],
      notes    |-> Appendix(g, index), quotes |-> Len(g.citations)]

\* buildChapters
Chapters(g) ==
  <<"executive", "methodology", "key-findings">> \o [n \in DOMAIN Themes(g) |-> Themes(g)[n].id]
  \o (IF Advice(g.insights) # <<>> THEN <<"recommendations">> ELSE <<>>)
  \o (IF g.citations # <<>> THEN <<"appendix">> ELSE <<>>)

HasReport(g) == g.insights # <<>>

-----------------------------------------------------------------------------
(* Reading.                                                                *)

NoLeaf  == [cited |-> "none", file |-> "none", chapter |-> "executive"]
NoTable == [search |-> {}, channel |-> "all", source |-> "all", sort |-> "completed_at", desc |-> TRUE]

ReportInit ==
  /\ doc \in Documents
  /\ read = [graph |-> NoGraph, loading |-> TRUE, failed |-> FALSE]
  /\ leaf = NoLeaf /\ table = NoTable /\ faults = 0

Loaded ==
  /\ read.loading
  /\ read' = [graph |-> Graph(doc), loading |-> FALSE, failed |-> FALSE]
  /\ UNCHANGED <<doc, leaf, table, faults>>
NotLoaded ==
  /\ read.loading /\ faults < MaxFaults
  /\ read' = [graph |-> NoGraph, loading |-> FALSE, failed |-> TRUE]
  /\ faults' = faults + 1
  /\ UNCHANGED <<doc, leaf, table>>
ReadAgain ==
  /\ read.failed /\ ~read.loading
  /\ read' = [read EXCEPT !.loading = TRUE, !.failed = FALSE]
  /\ UNCHANGED <<doc, leaf, table, faults>>

Shown == ~read.loading /\ ~read.failed /\ HasReport(read.graph)

\* A marker in the text or in the appendix; the panel covers the page.
OpenCitation(id) ==
  /\ Shown /\ leaf.cited = "none"
  /\ LET notes == View(read.graph).notes IN \E n \in DOMAIN notes : notes[n].citation.id = id
  /\ leaf' = [leaf EXCEPT !.cited = id]
  /\ UNCHANGED <<doc, read, table, faults>>
CloseCitation ==
  /\ leaf.cited # "none"
  /\ leaf' = [leaf EXCEPT !.cited = "none"]
  /\ UNCHANGED <<doc, read, table, faults>>

\* TranscriptPanel: the turn it highlights.
Highlighted ==
  LET c == read.graph.citations[SelectInSeq(read.graph.citations, LAMBDA x : x.id = leaf.cited)]
      v == read.graph.respondents[SelectInSeq(read.graph.respondents, LAMBDA x : x.id = c.interview)]
  IN v.turns[c.turn]

ExportMarkdown ==
  /\ Shown /\ leaf.cited = "none" /\ leaf.file = "none"   \* bound: once
  /\ leaf' = [leaf EXCEPT !.file = "markdown"]
  /\ UNCHANGED <<doc, read, table, faults>>

\* ReportToc, by a click or by scrolling.
GoTo(c) ==
  /\ Shown /\ leaf.cited = "none" /\ leaf.chapter # c
  /\ Contains(Chapters(read.graph), c)
  /\ leaf' = [leaf EXCEPT !.chapter = c]
  /\ UNCHANGED <<doc, read, table, faults>>

-----------------------------------------------------------------------------
(* The responses: buildResponseRows, ResponseTable.                        *)

Answers(v) == Kept(v.turns, LAMBDA t : t.role = "respondent" /\ t.text # {})

Row(v, n) ==
  [id |-> v.id, number |-> n, name |-> v.ref, channel |-> v.channel, source |-> v.source,
   coverage  |-> IF v.status = "completed" THEN v.coverage ELSE 0,
   duration  |-> v.seconds, completed |-> v.completed,
   summary   |-> UNION {Answers(v)[i].text : i \in DOMAIN Answers(v) \cap 1 .. 2}]
Rows(d) == [n \in DOMAIN d.interviews |-> Row(d.interviews[n], n)]

\* displayName: the reference, or the number of the row among all of them.
Found(row, query) == query \subseteq row.summary \/ query \subseteq row.name

Key(row, sort) ==
  CASE sort = "duration"     -> row.duration
    [] sort = "coverage"     -> row.coverage
    [] sort = "completed_at" -> row.completed
    [] sort = "respondent"   -> row.number
    [] sort = "channel"      -> IF row.channel = "web_text" THEN 0 ELSE 1

Filtered(d, t) ==
  LET kept == Kept(Rows(d), LAMBDA r : /\ Found(r, t.search)
                                            /\ t.channel \in {"all", r.channel}
                                            /\ t.source \in {"all", r.source})
      first(r, s) == LET a == Key(r, t.sort) b == Key(s, t.sort)
                     IN IF a = b THEN r.number < s.number ELSE IF t.desc THEN a > b ELSE a < b
  IN SortSeq(kept, first)

Control(field, value) ==
  /\ value # table[field]
  /\ table' = [table EXCEPT ![field] = value]
  /\ UNCHANGED <<doc, read, leaf, faults>>

Channels == {Rows(doc)[n].channel : n \in DOMAIN Rows(doc)}
Sources  == {Rows(doc)[n].source : n \in DOMAIN Rows(doc)}

Search == \E q \in Queries : Control("search", q)
Filter ==
  \/ \E c \in Channels \cup {"all"} : Control("channel", c)
  \/ \E s \in Sources \cup {"all"} : Control("source", s)

\* handleSort: no column sorts by completion, which the table starts with.
Sort(key) ==
  /\ table' = IF table.sort = key THEN [table EXCEPT !.desc = ~@] ELSE [table EXCEPT !.sort = key, !.desc = TRUE]
  /\ UNCHANGED <<doc, read, leaf, faults>>

ExportResponses ==
  /\ leaf.file = "none"   \* bound: once
  /\ leaf' = [leaf EXCEPT !.file = "responses"]
  /\ UNCHANGED <<doc, read, table, faults>>

ReadReport ==
  \/ Loaded \/ NotLoaded \/ ReadAgain \/ CloseCitation \/ ExportMarkdown
  \/ \E n \in DOMAIN read.graph.citations : OpenCitation(read.graph.citations[n].id)
  \/ \E n \in DOMAIN Chapters(read.graph) : GoTo(Chapters(read.graph)[n])

BrowseResponses ==
  \/ Search \/ Filter \/ ExportResponses
  \/ \E key \in {"respondent", "channel", "duration", "coverage"} : Sort(key)
=============================================================================
