------------------------- MODULE CampaignProjector -------------------------
(***************************************************************************)
(* CampaignProjector.apply of storage/projections/campaign_projector.py:   *)
(* how one stored event, a sequence number with an event kind, changes     *)
(* each of the three read tables of a campaign.                            *)
(*                                                                         *)
(*   campaigns           one row: its status, its spec version and the     *)
(*                       sequence number of the last event it reflects     *)
(*   progress_snapshots  one row: the counters, with a cursor of their own *)
(*   insights            the set of insight rows, named by the sequence    *)
(*                       number of the event that generated them           *)
(*                                                                         *)
(* Text, timestamps and the body of a spec are left out; durations and     *)
(* goal coverage are summed exactly where `completed` is counted.          *)
(***************************************************************************)
EXTENDS Naturals

CounterKinds ==
  {"InviteDispatched", "InterviewStarted", "InterviewCompleted", "InterviewAbandoned"}

\* The status that a status event writes.
StatusOf(kind) ==
  CASE kind = "CampaignReady"     -> "ready"
    [] kind = "CampaignPublished" -> "live"
    [] kind = "CampaignClosed"    -> "closed"

StatusKinds  == {"CampaignReady", "CampaignPublished", "CampaignClosed"}
InsightKinds == {"InsightSetReplaced", "InsightGenerated"}

EventKinds ==
  {"StudyDrafted", "SpecUpdated"} \cup StatusKinds \cup CounterKinds \cup InsightKinds

\* "none" stands for a campaign with no row yet.
Statuses == {"none", "draft", "ready", "live", "closed"}

Rows      == [status : Statuses, version : Nat, seq : Nat]
Progress  == [count : [CounterKinds -> Nat], seq : Nat]

NoRow      == [status |-> "none", version |-> 0, seq |-> 0]
NoProgress == [count |-> [k \in CounterKinds |-> 0], seq |-> 0]

-----------------------------------------------------------------------------
\* WHERE id = $1 AND last_event_seq < $n
Accepts(row, s) == row.status # "none" /\ row.seq < s

\* Mutant of ApplyToRow: the version UPDATE has lost its sequence guard.
ApplyToRowRecountsUpdates(row, s, kind) ==
  IF kind = "StudyDrafted" /\ row.status = "none"
    THEN [status |-> "draft", version |-> 1, seq |-> s]
  ELSE IF kind = "SpecUpdated" /\ row.status # "none"
    THEN [status |-> row.status, version |-> row.version + 1, seq |-> s]
  ELSE IF kind \in StatusKinds /\ Accepts(row, s)
    THEN [status |-> StatusOf(kind), version |-> row.version, seq |-> s]
  ELSE row

\* Mutant of ApplyToRow: the status UPDATE has lost its sequence guard.
ApplyToRowTakesStaleStatus(row, s, kind) ==
  IF kind = "StudyDrafted" /\ row.status = "none"
    THEN [status |-> "draft", version |-> 1, seq |-> s]
  ELSE IF kind = "SpecUpdated" /\ Accepts(row, s)
    THEN [status |-> row.status, version |-> row.version + 1, seq |-> s]
  ELSE IF kind \in StatusKinds /\ row.status # "none"
    THEN [status |-> StatusOf(kind), version |-> row.version, seq |-> s]
  ELSE row

\* INSERT ... ON CONFLICT (id) DO NOTHING, or a guarded UPDATE.
ApplyToRow(row, s, kind) ==
  IF kind = "StudyDrafted" /\ row.status = "none"
    THEN [status |-> "draft", version |-> 1, seq |-> s]
  ELSE IF kind = "SpecUpdated" /\ Accepts(row, s)
    THEN [status |-> row.status, version |-> row.version + 1, seq |-> s]
  ELSE IF kind \in StatusKinds /\ Accepts(row, s)
    THEN [status |-> StatusOf(kind), version |-> row.version, seq |-> s]
  ELSE row

\* Mutant of Bump: the upsert has lost its WHERE clause.
BumpUnguarded(progress, s, kind) ==
  IF kind \in CounterKinds
    THEN [count |-> [progress.count EXCEPT ![kind] = @ + 1], seq |-> s]
    ELSE progress

\* _bump: the upsert adds one to the counter of the event's kind, unless the
\* snapshot already reflects this sequence number or a later one.  Sequence
\* numbers start at 1, so a snapshot with no row behaves as one at cursor 0.
Bump(progress, s, kind) ==
  IF kind \in CounterKinds /\ progress.seq < s
    THEN [count |-> [progress.count EXCEPT ![kind] = @ + 1], seq |-> s]
    ELSE progress

\* The insight table has no cursor: a reset always deletes, a generated insight
\* is inserted unless its id is there already.
ApplyToInsights(insights, s, kind) ==
  CASE kind = "InsightSetReplaced" -> {}
    [] kind = "InsightGenerated"   -> insights \cup {s}
    [] OTHER                       -> insights
=============================================================================
