------------------------------- MODULE Workspace -------------------------------
(***************************************************************************)
(* The frame of the signed-in pages, and the pages that keep little of     *)
(* their own: the sidebar with its menus, the notices in the corner, the   *)
(* list of studies, the inbox, the board of insights and the billing panel *)
(* (Sidebar.tsx, Toast.tsx, HttpErrorBridge.tsx, studies/page.tsx,         *)
(* InboxBoard.tsx, InsightsBoard.tsx, BillingPanel.tsx).                   *)
(*                                                                         *)
(* The sidebar and the notices outlive the pages.  What a page asked for   *)
(* may come back when it is gone, and a notice may offer to undo something *)
(* on a page that is.                                                      *)
(***************************************************************************)
EXTENDS Naturals, Sequences, SequencesExt, FiniteSets

CONSTANTS
  Lists,      \* the lists of studies that the server may hold
  Items,      \* what is on the inbox and on the board: id, kind
  MaxMoves,   \* bound: pages visited
  MaxNotices  \* bound: notices raised

VARIABLES
  page,    \* the page that is mounted, and which mount it is
  frame,   \* the sidebar, the account menu and the stored preference
  notices, \* those that are shown
  timers,  \* the notices that a timer will take away
  raised,  \* how many there have been
  warned,  \* a sign-out was announced less than two seconds ago
  asked    \* the calls that pages have made

workspaceVars == <<page, frame, notices, timers, raised, warned, asked>>

Pages == {"studies", "inbox", "insights", "billing", "gone"}   \* gone: to the payment site
Kinds == {i.kind : i \in Items}

\* The state of a page that is mounted: the items that are read or dismissed,
\* the filter; whether it loads, has failed or is ready; the studies it lists;
\* the plan it shows, and the payment page that it is on its way to.
Mounted(name, n) ==
  [name |-> name, mount |-> n, marked |-> {}, filter |-> "all", list |-> <<>>, busy |-> "no",
   subscribed |-> FALSE, state |-> IF name \in {"studies", "billing"} THEN "loading" ELSE "ready"]

Frame0 == [collapsed |-> FALSE, stored |-> FALSE, open |-> FALSE, locked |-> FALSE, account |-> FALSE]

Call(kind, mount) == [kind |-> kind, mount |-> mount]
Loads(name, n) ==
  CASE name = "studies" -> {Call("campaigns", n)}
    [] name = "billing" -> {Call("summary", n)}
    [] OTHER            -> {}

WorkspaceInit ==
  /\ page = Mounted("studies", 1) /\ asked = Loads("studies", 1)
  /\ frame = Frame0
  /\ notices = <<>> /\ timers = {} /\ raised = 0 /\ warned = FALSE

-----------------------------------------------------------------------------
(* What the pages show.                                                    *)

\* The list of studies, or the first page of a workspace that has none.
StudiesScreen ==
  CASE page.state = "failed"  -> "error"
    [] page.state = "loading" -> "skeleton"
    [] page.list = <<>>       -> "first page"
    [] OTHER                  -> "list"

\* The billing panel: what its button leads to, once there is a plan to show.
BillingScreen ==
  IF page.state # "ready" THEN page.state
  ELSE IF page.subscribed THEN "portal" ELSE "checkout"

\* The board and the inbox show the items of the filter; what is dismissed is
\* gone from the board, what is read stays in the inbox.
Visible ==
  {i \in Items : page.filter \in {"all", i.kind} /\ (page.name = "insights" => i.id \notin page.marked)}

\* The cards of the board, each with its button; an empty board has none.
Cards == IF page.name = "insights" THEN Visible ELSE {}

-----------------------------------------------------------------------------
(* Notices.                                                                *)

\* push: shown at once, with a timer of its own.
Noticed(kind, undo) ==
  /\ raised < MaxNotices
  /\ raised' = raised + 1
  /\ notices' = Append(notices, [id |-> raised + 1, kind |-> kind, undo |-> undo])
  /\ timers' = timers \cup {raised + 1}

NoUndo == [mount |-> 0, set |-> {}]

\* dismiss: by hand, by the action, or by the timer.  No two notices have one id.
Dismissed(n) ==
  /\ notices' = RemoveAt(notices, n)
  /\ timers' = timers \ {notices[n].id}

Expire(n) ==
  /\ notices[n].id \in timers /\ Dismissed(n)
  /\ UNCHANGED <<page, frame, raised, warned, asked>>

Dismiss(n) ==
  /\ Dismissed(n)
  /\ UNCHANGED <<page, frame, raised, warned, asked>>

\* Mutant of Undone: what was dismissed before comes back, as in the inbox.
UndoneToSnapshot(u) ==
  IF page.mount # u.mount THEN page ELSE [page EXCEPT !.marked = u.set]

\* The action of a notice reaches the page it was raised on, if that is still
\* mounted: the inbox gets back what was read, the board only the item.
Undone(u) ==
  IF page.mount # u.mount THEN page
  ELSE [page EXCEPT !.marked = IF page.name = "inbox" THEN u.set ELSE @ \ u.set]

Undo(n) ==
  /\ notices[n].undo.mount # 0
  /\ page' = Undone(notices[n].undo)
  /\ Dismissed(n)
  /\ UNCHANGED <<frame, raised, warned, asked>>

\* A call fails: HttpErrorBridge.  Sign-outs close together are told once.
FailureIsTold == Noticed("error", NoUndo) /\ UNCHANGED warned
SignOutIsTold ==
  IF warned THEN UNCHANGED <<notices, timers, raised, warned>>
  ELSE Noticed("auth", NoUndo) /\ warned' = TRUE
WarnAgain ==
  /\ warned /\ warned' = FALSE
  /\ UNCHANGED <<page, frame, notices, timers, raised, asked>>

-----------------------------------------------------------------------------
(* The frame.                                                              *)

\* Another page: the one that is left hears of nothing any more, and the
\* overlay closes.
GoTo(name) ==
  LET n == page.mount + 1 IN
  /\ page.name # "gone" /\ n <= MaxMoves /\ name # page.name
  /\ page' = Mounted(name, n)
  /\ asked' = asked \cup Loads(name, n)
  /\ frame' = [frame EXCEPT !.open = FALSE, !.locked = FALSE, !.account = FALSE]
  /\ UNCHANGED <<notices, timers, raised, warned>>

\* The stored preference is applied once the first page is shown.
ToggleCollapsed ==
  /\ page.name # "gone" /\ ~frame.open
  /\ frame' = [frame EXCEPT !.collapsed = ~@, !.stored = ~frame.collapsed]
  /\ UNCHANGED <<page, notices, timers, raised, warned, asked>>
ReloadPage ==
  /\ page.name = "studies" /\ StudiesScreen = "error" /\ page.mount < MaxMoves
  /\ page' = Mounted(page.name, page.mount + 1)
  /\ asked' = Loads(page.name, page.mount + 1)
  /\ frame' = [Frame0 EXCEPT !.collapsed = frame.stored, !.stored = frame.stored]
  /\ notices' = <<>> /\ timers' = {} /\ warned' = FALSE
  /\ UNCHANGED raised

\* The overlay locks the page behind it; Escape closes whatever is open.
OpenMenu ==
  /\ page.name # "gone" /\ ~frame.open
  /\ frame' = [frame EXCEPT !.open = TRUE, !.locked = TRUE]
  /\ UNCHANGED <<page, notices, timers, raised, warned, asked>>
OpenAccount ==
  /\ page.name # "gone" /\ ~frame.account
  /\ frame' = [frame EXCEPT !.account = TRUE]
  /\ UNCHANGED <<page, notices, timers, raised, warned, asked>>
Escape ==
  /\ frame.open \/ frame.account
  /\ frame' = [frame EXCEPT !.open = FALSE, !.locked = FALSE, !.account = FALSE]
  /\ UNCHANGED <<page, notices, timers, raised, warned, asked>>

-----------------------------------------------------------------------------
(* The studies and the billing panel ask the server.                       *)

\* computeDuplicateTags: the place of a study among those of its title, by age.
Namesakes(list, n) == {m \in DOMAIN list : list[m].title = list[n].title}
Tag(list, n) ==
  IF Cardinality(Namesakes(list, n)) < 2 THEN 0
  ELSE 1 + Cardinality({m \in Namesakes(list, n) : list[m].created < list[n].created \/ (list[m].created = list[n].created /\ m < n)})

Served(call) == page.mount = call.mount

\* The answers count only for the page that asked; the payment page opens
\* wherever the researcher is by then.
Answer(call) ==
  /\ call \in asked /\ asked' = asked \ {call} /\ page.name # "gone"
  /\ CASE call.kind = "campaigns" -> \E list \in Lists :
            page' = IF Served(call) THEN [page EXCEPT !.state = "ready", !.list = list] ELSE page
       [] call.kind = "summary"   -> \E plan \in BOOLEAN :
            page' = IF Served(call) THEN [page EXCEPT !.state = "ready", !.subscribed = plan] ELSE page
       [] OTHER                   -> page' = Mounted("gone", page.mount)
  /\ UNCHANGED <<frame, notices, timers, raised, warned>>
Refuse(call) ==
  /\ call \in asked /\ asked' = asked \ {call} /\ page.name # "gone"
  /\ page' = IF ~Served(call) THEN page
             ELSE IF call.kind \in {"campaigns", "summary"} THEN [page EXCEPT !.state = "failed"]
             ELSE [page EXCEPT !.busy = "no"]
  /\ FailureIsTold \/ SignOutIsTold
  /\ UNCHANGED frame

\* goCheckout and goPortal
Pay(kind) ==
  /\ page.name = "billing" /\ BillingScreen = kind /\ page.busy = "no"
  /\ page' = [page EXCEPT !.busy = kind]
  /\ asked' = asked \cup {Call(kind, page.mount)}
  /\ UNCHANGED <<frame, notices, timers, raised, warned>>

-----------------------------------------------------------------------------
(* The inbox and the board.                                                *)

MarkAllRead ==
  /\ page.name = "inbox"
  /\ page' = [page EXCEPT !.marked = {i.id : i \in Items}]
  /\ Noticed("success", [mount |-> page.mount, set |-> page.marked])
  /\ UNCHANGED <<frame, warned, asked>>

DismissInsight(i) ==
  /\ i \in Cards
  /\ page' = [page EXCEPT !.marked = @ \cup {i.id}]
  /\ Noticed("success", [mount |-> page.mount, set |-> {i.id}])
  /\ UNCHANGED <<frame, warned, asked>>

\* There is no integration to push to.
PushToNotion ==
  /\ page.name = "insights" /\ Noticed("error", NoUndo)
  /\ UNCHANGED <<page, frame, warned, asked>>

\* cycleFilter: all, then each kind in turn.
CycleFilter ==
  LET cycle == <<"all">> \o SetToSeq(Kinds)
      at    == SelectInSeq(cycle, LAMBDA k : k = page.filter)
  IN /\ page.name \in {"inbox", "insights"}
     /\ page' = [page EXCEPT !.filter = cycle[1 + (at % Len(cycle))]]
     /\ UNCHANGED <<frame, notices, timers, raised, warned, asked>>

Work ==
  \/ \E n \in DOMAIN notices : Expire(n) \/ Dismiss(n) \/ Undo(n)
  \/ WarnAgain \/ ToggleCollapsed \/ ReloadPage \/ OpenMenu \/ OpenAccount \/ Escape
  \/ \E name \in Pages \ {"gone"} : GoTo(name)
  \/ \E call \in asked : Answer(call) \/ Refuse(call)
  \/ \E kind \in {"checkout", "portal"} : Pay(kind)
  \/ MarkAllRead \/ PushToNotion \/ CycleFilter
  \/ \E i \in Items : DismissInsight(i)
================================================================================
